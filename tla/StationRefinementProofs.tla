---- MODULE StationRefinementProofs ----
(***************************************************************************)
(* The station controller implements OfferedStore wherever request         *)
(* handlers run.  It implements VerifiedStore when they run between two    *)
(* calls of process() (ESP8266); where they preempt it (ESP32) it does     *)
(* not: an attempt can be judged and the candidate exchanged before the    *)
(* judgement is acted upon.                                                *)
(***************************************************************************)
EXTENDS StationControllerProofs

----
(* The link, the driver's target and its configuration                      *)

\* No step attaches a store or takes one away.
LEMMA AttachedOnce ==
    ASSUME [Next]_vars
    PROVE  UNCHANGED attached
<1>1. CASE StationCall \/ StationRequest
  BY <1>1 DEF StationCall, StationRequest, StartStationConnection, StartStationUnconfigured,
     LoadThenConnect, StartStationCandidate, AcceptCandidate, RejectCandidate,
     SaveStationProfiles, StoreDeliberately, ClearFails, ClearStationProfiles,
     RequestCandidate, RequestSaveForLater, storeVars
<1>2. CASE ProcessStationController
  BY <1>2 DEF ProcessStationController, Rests, JudgeJoined, JudgeExpired, Promote,
     RecordSuccess, AttemptExpires, AttemptFails, SwitchProfile, SwitchRefused, SwitchLost,
     LinkLost, BackoffEnds, stationVars, storeVars
<1>3. CASE PortalStep \/ PortalCall \/ RadioStep \/ Reboot \/ UNCHANGED vars
  BY <1>3 DEF PortalStep, PortalCall, RadioStep, Associates, LosesLink, RadioRuns, Reboot,
     vars, stationVars, storeVars
<1> QED
  BY <1>1, <1>2, <1>3 DEF Next

\* What the radio may do, whoever asks for it, apart from a configuration that
\* is only saved.
LEMMA RadioKeepsLink ==
    ASSUME LinkIsConfigured, UNCHANGED attached,
           \/ \E n : WiFiBegin(n)
           \/ WiFiDisconnect \/ WiFiErase \/ WiFiReconnect \/ Join \/ Drop
           \/ target' = (IF link = None THEN None ELSE target) /\ UNCHANGED <<link, config>>
           \/ UNCHANGED radioVars
    PROVE  LinkIsConfigured'
BY DEF LinkIsConfigured, WiFiBegin, WiFiDisconnect, WiFiErase, WiFiReconnect, Join, Drop,
   radioVars

\* Opening the portal may disconnect the station.
LEMMA EnterKeepsLink ==
    ASSUME LinkIsConfigured, UNCHANGED attached, EnterStationPortal
    PROVE  LinkIsConfigured'
BY RadioKeepsLink DEF EnterStationPortal, OpenConfigPortal

\* A cycle starts an attempt or opens the portal.
LEMMA CycleKeepsLink ==
    ASSUME LinkIsConfigured, UNCHANGED attached, NEW p, NEW b, BeginStationCycle(p, b)
    PROVE  LinkIsConfigured'
BY RadioKeepsLink, EnterKeepsLink DEF BeginStationCycle, BeginStationProfile

\* Closing the portal may resume the configured network.
LEMMA ShutdownKeepsLink ==
    ASSUME LinkIsConfigured, UNCHANGED attached, NEW web, Shutdown(web)
    PROVE  LinkIsConfigured'
BY RadioKeepsLink DEF Shutdown

\* The portal keeps the link and the driver in step.
LEMMA PortalKeepsLink ==
    ASSUME LinkIsConfigured, NoLegacyAttempt, UNCHANGED attached, PortalStep \/ PortalCall
    PROVE  LinkIsConfigured'
<1>1. CASE BeginProcess \/ ConnectOwned \/ PortalStays \/ RequestExit \/ RequestClose
           \/ QueuePortalConnect
  BY <1>1, RadioKeepsLink DEF BeginProcess, ConnectOwned, Decide, PortalStays, RequestExit,
     RequestClose, QueuePortalConnect
<1>2. CASE PortalExits
  BY <1>2, ShutdownKeepsLink DEF PortalExits
<1>3. CASE SessionCall
  BY <1>3, RadioKeepsLink, ShutdownKeepsLink
  DEF SessionCall, StartConfigPortal, OpenConfigPortal, StopConfigPortal, StartWebPortal,
      StopWebPortal
<1>4. CASE ProcessPortalConnect
  <2>1. CASE ConnectDecides
    BY <2>1, DecidesLooks, RadioKeepsLink
  <2>2. CASE ConnectWrites
    BY <2>2, WritesPhase, RadioKeepsLink
  <2>3. CASE BeginSucceeds \/ BeginFails
    <3>1. \/ WiFiBegin(cpSsid) \/ WiFiConfigure(cpSsid) \/ WiFiDisconnect
          \/ UNCHANGED radioVars
      BY <2>3 DEF BeginSucceeds, BeginFails
    <3>2. ~attached
      BY <2>3 DEF BeginSucceeds, BeginFails, ProcessStep, NoLegacyAttempt, Reacting
    <3>3. WiFiConfigure(cpSsid) => LinkIsConfigured'
      BY <3>2 DEF WiFiConfigure, LinkIsConfigured
    <3> QED
      BY <3>1, <3>3, RadioKeepsLink
  <2>4. CASE ConnectShutsDown
    BY <2>4, ShutdownKeepsLink DEF ConnectShutsDown
  <2> QED
    BY <1>4, <2>1, <2>2, <2>3, <2>4 DEF ProcessPortalConnect, ConnectReacts
<1> QED
  BY <1>1, <1>2, <1>3, <1>4 DEF PortalStep, PortalCall, ProcessPortalConnect

\* So does every other step.
LEMMA LinkPreserved ==
    ASSUME LinkIsConfigured, NoLegacyAttempt, [Next]_vars
    PROVE  LinkIsConfigured'
<1> USE AttachedOnce
<1>1. ASSUME \E c : AcceptCandidate(c)
      PROVE  LinkIsConfigured'
  BY <1>1, RadioKeepsLink DEF AcceptCandidate, BeginStationProfile
<1>2. CASE StationCall \/ StationRequest
  <2>1. CASE StartStationConnection
    BY <2>1, RadioKeepsLink DEF StartStationConnection, BeginStationProfile
  <2>2. CASE StartStationUnconfigured \/ ClearStationProfiles
    BY <2>2, RadioKeepsLink DEF StartStationUnconfigured, ClearStationProfiles
  <2>3. CASE StartStationCandidate
    BY <1>1, <2>3, RadioKeepsLink DEF StartStationCandidate, RejectCandidate
  <2>4. CASE SaveStationProfiles \/ RequestSaveForLater \/ ClearFails
    BY <2>4, RadioKeepsLink
    DEF SaveStationProfiles, RequestSaveForLater, StoreDeliberately, ClearFails
  <2>5. CASE RequestCandidate
    BY <1>1, <2>5 DEF RequestCandidate
  <2> QED
    BY <1>2, <2>1, <2>2, <2>3, <2>4, <2>5 DEF StationCall, StationRequest
<1>3. CASE AttemptExpires \/ SwitchLost
  <2>1. AttemptFails
    BY <1>3 DEF AttemptExpires, SwitchLost
  <2> QED
    BY <2>1, RadioKeepsLink, EnterKeepsLink, CycleKeepsLink
    DEF AttemptFails, TryNextSlot, RefusePortalCandidate, FallBackToStored, GiveUp
<1>4. CASE Rests \/ JudgeJoined \/ JudgeExpired \/ Promote \/ RecordSuccess \/ SwitchRefused
  BY <1>4, RadioKeepsLink
  DEF Rests, JudgeJoined, JudgeExpired, Promote, RecordSuccess, SwitchRefused
<1>5. CASE SwitchProfile
  BY <1>5, RadioKeepsLink DEF SwitchProfile, BeginStationProfile
<1>6. CASE LinkLost \/ BackoffEnds
  BY <1>6, RadioKeepsLink, EnterKeepsLink, CycleKeepsLink
  DEF LinkLost, BackoffEnds, BeginStationProfile
<1>7. CASE RadioStep \/ UNCHANGED vars
  BY <1>7, RadioKeepsLink DEF RadioStep, Associates, LosesLink, vars
<1>8. CASE Reboot
  BY <1>8 DEF Reboot, LinkIsConfigured
<1> QED
  BY <1>2, <1>3, <1>4, <1>5, <1>6, <1>7, <1>8, PortalKeepsLink
  DEF Next, ProcessStationController

----
(* The save-and-connect machine                                             *)

\* With a store attached no request queues a network for the machine, and
\* without one it never gets past the queue: it moves from there to the end of
\* a save that had none, or from the hand-off to its end.
Quiet == {"kept", "finalize"}

LEMMA LegacyStaysIdle ==
    ASSUME NoLegacyAttempt, [Next]_vars
    PROVE  NoLegacyAttempt'
<1> USE DEF NoLegacyAttempt, Quiet
<1>0. \A p \in {"loop", "station", "connect", "joined", "expired", "exit", "shutdown",
               "kept", "finalize"} : p \notin Reacting \ Quiet
  BY DEF Reacting
<1>1. ASSUME UNCHANGED <<attached, cpSsid>>,
             cp' = cp \/ cp' \notin {"delaying", "starting", "waiting"},
             pc' = pc \/ pc' \notin Reacting \ Quiet
      PROVE  NoLegacyAttempt'
  BY <1>1
<1>11. StationCall \/ StationRequest => pc' = pc
  BY ControllerMoves
<1>12. ProcessStationController => pc' \notin Reacting \ Quiet
  BY <1>0, ControllerMoves
<1>2. ASSUME \E b : CompletePortalAttempt(b)
      PROVE  cpSsid' = cpSsid /\ (cp' = cp \/ cp' \notin {"delaying", "starting", "waiting"})
  BY <1>2 DEF CompletePortalAttempt
<1>3. ASSUME EnterStationPortal
      PROVE  cpSsid' = cpSsid /\ (cp' = cp \/ cp' = "idle")
  BY <1>3 DEF EnterStationPortal, OpenConfigPortal, OpenSession, connectVars
<1>4. ASSUME \E c : AcceptCandidate(c), pc' = pc
      PROVE  NoLegacyAttempt'
  BY <1>1, <1>4 DEF AcceptCandidate
<1>5. CASE StationCall \/ StationRequest
  <2>0. pc' = pc
    BY <1>5, <1>11
  <2>1. CASE StartStationConnection \/ StartStationUnconfigured
    BY <1>1, <2>0, <2>1 DEF StartStationConnection, StartStationUnconfigured, LoadThenConnect,
       OpenSession, connectVars
  <2>2. CASE StartStationCandidate
    BY <1>1, <2>0, <1>4, <2>2 DEF StartStationCandidate, RejectCandidate, storeVars, connectVars
  <2>3. CASE RequestCandidate
    BY <1>4, <2>0, <2>3 DEF RequestCandidate
  <2>4. CASE SaveStationProfiles \/ RequestSaveForLater
    BY <1>1, <2>0, <2>4 DEF SaveStationProfiles, RequestSaveForLater, StoreDeliberately, connectVars
  <2>5. CASE ClearFails \/ ClearStationProfiles
    BY <1>1, <2>0, <2>5 DEF ClearFails, ClearStationProfiles, storeVars, connectVars
  <2> QED
    BY <1>5, <2>1, <2>2, <2>3, <2>4, <2>5 DEF StationCall, StationRequest
<1>6. CASE ProcessStationController
  <2>0. pc' \notin Reacting \ Quiet
    BY <1>6, <1>12
  <2>1. CASE Rests \/ JudgeJoined \/ JudgeExpired
    BY <1>1, <2>0, <2>1 DEF Rests, JudgeJoined, JudgeExpired, stationVars, storeVars, connectVars
  <2>2. CASE Promote
    BY <1>1, <2>0, <1>2, <2>2 DEF Promote, connectVars
  <2>3. CASE RecordSuccess \/ SwitchProfile \/ SwitchRefused
    BY <1>1, <2>0, <2>3 DEF RecordSuccess, SwitchProfile, SwitchRefused, storeVars, connectVars
  <2>4. CASE AttemptExpires \/ SwitchLost
    <3>1. AttemptFails
      BY <2>4 DEF AttemptExpires, SwitchLost
    <3>2. UNCHANGED attached
      BY <3>1 DEF AttemptFails, storeVars
    <3>3. CASE TryNextSlot
      BY <1>1, <2>0, <3>2, <3>3 DEF TryNextSlot, connectVars
    <3>4. CASE RefusePortalCandidate
      BY <1>1, <2>0, <1>2, <3>2, <3>4 DEF RefusePortalCandidate
    <3>5. CASE FallBackToStored \/ GiveUp
      BY <1>1, <2>0, <1>3, <3>2, <3>5 DEF FallBackToStored, GiveUp, BeginStationCycle, connectVars
    <3> QED
      BY <3>1, <3>3, <3>4, <3>5 DEF AttemptFails
  <2>5. CASE LinkLost \/ BackoffEnds
    BY <1>1, <2>0, <1>3, <2>5 DEF LinkLost, BackoffEnds, BeginStationCycle, storeVars, connectVars
  <2> QED
    BY <1>6, <2>1, <2>2, <2>3, <2>4, <2>5 DEF ProcessStationController
<1>7. CASE PortalStep
  <2>1. UNCHANGED attached
    BY <1>7 DEF PortalStep, stationVars, storeVars
  <2>2. SUFFICES ASSUME attached
                 PROVE  NoLegacyAttempt'
    BY <2>1
  <2>3. CASE BeginProcess \/ PortalExits \/ PortalStays
    BY <1>0, <1>1, <2>1, <2>3 DEF BeginProcess, PortalExits, PortalStays, ProcessStep,
       CpAfterShutdown, connectVars
  <2>4. CASE ConnectOwned \/ ConnectDecides
    <3>1. pc' \in {"exit", "kept", "finalize"}
      BY <2>2, <2>4 DEF ConnectOwned, ConnectDecides, ConnectRests, ConnectQueued, DelayEnds,
         ConnectBegins, ConnectJoins, ConnectGivesUp, HandoffEnds, Decide, ProcessStep
    <3> QED
      BY <1>0, <1>1, <2>1, <2>4, <3>1, DecidesLooks DEF connectVars
  <2>5. CASE ConnectReacts
    <3>1. pc \in {"kept", "finalize", "shutdown"}
      <4>1. pc \in Machine
        BY <2>5, ConnectMoves DEF ProcessPortalConnect
      <4> QED
        BY <2>2, <4>1 DEF Machine
    <3>2. WriteKept \/ FinalizeSuccess \/ ConnectShutsDown
      BY <2>5, <3>1 DEF ConnectReacts, BeginSucceeds, BeginFails, ConnectWrites, WriteDelay,
         WriteStart, WriteBegun, WriteConfigured, WriteRefused, WriteAddress, WriteHandoff,
         Write, ProcessStep
    <3>3. pc' \in {"exit", "shutdown"}
      BY <3>2 DEF WriteKept, FinalizeSuccess, ConnectShutsDown, Write, AfterEnd, ProcessStep
    <3>4. cpSsid' = cpSsid /\ (cp' = cp \/ cp' \in {"idle", "success"})
      BY <3>2 DEF WriteKept, FinalizeSuccess, ConnectShutsDown, Write, CpAfterShutdown
    <3> QED
      BY <1>0, <1>1, <2>1, <3>3, <3>4
  <2> QED
    BY <1>7, <2>3, <2>4, <2>5 DEF PortalStep
<1>8. CASE PortalCall
  <2>1. UNCHANGED attached
    BY <1>8 DEF PortalCall, stationVars, storeVars
  <2>2. CASE ~attached
    BY <2>1, <2>2
  <2>3. CASE attached
    <3>1. pc' = pc
      BY <1>8, <2>3 DEF PortalCall, SessionCall, StartConfigPortal, StopConfigPortal,
         StartWebPortal, StopWebPortal, RequestExit, RequestClose, ApplicationCall, Request
    <3> QED
      BY <1>1, <1>8, <2>1, <2>3, <3>1 DEF PortalCall, SessionCall, StartConfigPortal,
         OpenConfigPortal, OpenSession, StopConfigPortal, StartWebPortal, StopWebPortal,
         RequestExit, RequestClose, CpAfterShutdown, connectVars
  <2> QED
    BY <2>2, <2>3
<1>9. CASE RadioStep \/ UNCHANGED vars
  BY <1>1, <1>9 DEF RadioStep, Associates, LosesLink, RadioRuns, vars, portalVars,
     stationVars, storeVars, connectVars
<1>10. CASE Reboot
  BY <1>0, <1>10 DEF Reboot, PortalBooted
<1> QED
  BY <1>5, <1>6, <1>7, <1>8, <1>9, <1>10 DEF Next

----
(* The judgement of an attempt                                              *)

\* The portal's steps lie outside the controller's.
LEMMA PortalStepMoves ==
    ASSUME PortalStep
    PROVE  pc' \in Machine \cup {"station", "exit", "loop"}
<1>1. CASE BeginProcess \/ PortalExits \/ PortalStays
  BY <1>1 DEF BeginProcess, PortalExits, PortalStays, ProcessStep
<1> QED
  BY <1>1, ConnectMoves DEF PortalStep, ProcessPortalConnect

\* Whatever comes between the judgement of an attempt and the step that acts on
\* it leaves the controller with an attempt.
LEMMA JudgedPreserved ==
    ASSUME JudgedIsAttempting, [Next]_vars
    PROVE  JudgedIsAttempting'
<1> USE DEF JudgedIsAttempting
<1>1. ASSUME pc' \notin {"joined", "expired"} \/ state' = "ATTEMPTING"
      PROVE  JudgedIsAttempting'
  BY <1>1
<1>2. ASSUME pc' = pc, pc = "loop" \/ state' = state
      PROVE  JudgedIsAttempting'
  BY <1>2
<1>3. CASE StationCall
  BY <1>2, <1>3 DEF StationCall, StartStationConnection, StartStationUnconfigured,
     StartStationCandidate, SaveStationProfiles, ClearFails, ClearStationProfiles,
     ApplicationCall
<1>4. CASE StationRequest
  BY <1>1, <1>2, <1>4 DEF StationRequest, RequestCandidate, RequestSaveForLater, Request,
     AcceptCandidate, BeginStationProfile, StoreDeliberately, cycleVars
<1>5. CASE PortalCall \/ RadioStep
  BY <1>2, <1>5 DEF PortalCall, RadioStep, Associates, LosesLink, RadioRuns, SessionCall,
     StartConfigPortal, StopConfigPortal, StartWebPortal, StopWebPortal, RequestExit,
     RequestClose, QueuePortalConnect, ApplicationCall, Request, stationVars, cycleVars
<1>6. CASE JudgeJoined \/ JudgeExpired
  BY <1>1, <1>6 DEF JudgeJoined, JudgeExpired, stationVars, cycleVars
<1>7. CASE ProcessStationController /\ ~(JudgeJoined \/ JudgeExpired)
  BY <1>1, <1>7 DEF ProcessStationController, Rests, Promote, RecordSuccess,
     AttemptExpires, SwitchProfile, SwitchRefused, SwitchLost, LinkLost, BackoffEnds,
     StationStep, ProcessStep
<1>8. CASE PortalStep
  BY <1>1, <1>8, PortalStepMoves, PositionsHave
<1>9. CASE Reboot
  BY <1>1, <1>9 DEF Reboot, PortalBooted
<1>10. CASE UNCHANGED vars
  BY <1>2, <1>10 DEF vars, portalVars, stationVars, cycleVars
<1> QED
  BY <1>3, <1>4, <1>5, <1>6, <1>7, <1>8, <1>9, <1>10 DEF Next

\* Nothing comes between them if handlers do not preempt process().
LEMMA LinkStandsPreserved ==
    ASSUME Preemptive = FALSE, LinkStands, [Next]_vars
    PROVE  LinkStands'
<1> USE DEF LinkStands
<1>1. ASSUME pc' # "joined"
      PROVE  LinkStands'
  BY <1>1
<1>2. ASSUME pc = "loop" /\ pc' = pc
      PROVE  LinkStands'
  BY <1>1, <1>2
<1>3. CASE StationCall \/ StationRequest
  BY <1>2, <1>3 DEF StationCall, StationRequest, StartStationConnection,
     StartStationUnconfigured, StartStationCandidate, SaveStationProfiles, ClearFails,
     ClearStationProfiles, RequestCandidate, RequestSaveForLater, ApplicationCall, Request
<1>4. CASE PortalCall \/ RadioStep
  BY <1>2, <1>4 DEF PortalCall, RadioStep, Associates, LosesLink, RadioRuns, SessionCall,
     StartConfigPortal, StopConfigPortal, StartWebPortal, StopWebPortal, RequestExit,
     RequestClose, QueuePortalConnect, ApplicationCall, Request
<1>5. CASE JudgeJoined
  BY <1>5 DEF JudgeJoined, radioVars, Usable
<1>6. CASE ProcessStationController /\ ~JudgeJoined
  BY <1>1, <1>6 DEF ProcessStationController, Rests, JudgeExpired, Promote, RecordSuccess,
     AttemptExpires, SwitchProfile, SwitchRefused, SwitchLost, LinkLost, BackoffEnds,
     StationStep, ProcessStep
<1>7. CASE PortalStep
  BY <1>1, <1>7, PortalStepMoves, PositionsHave
<1>8. CASE Reboot
  BY <1>1, <1>8 DEF Reboot, PortalBooted
<1>9. CASE UNCHANGED vars
  BY <1>9 DEF vars, portalVars, radioVars, Usable
<1> QED
  BY <1>3, <1>4, <1>5, <1>6, <1>7, <1>8, <1>9 DEF Next

----
(* The attempt and the set it is for                                        *)

\* A controller that does anything has asked the store.
LEMMA LoadedPreserved ==
    ASSUME JudgedIsAttempting, SetIsLoaded, [Next]_vars
    PROVE  SetIsLoaded'
<1> USE DEF SetIsLoaded
<1>1. ASSUME UNCHANGED <<attached, loaded>>, state' = state \/ state # "IDLE"
      PROVE  SetIsLoaded'
  BY <1>1
<1>2. ASSUME \E c : AcceptCandidate(c)
      PROVE  SetIsLoaded'
  BY <1>2 DEF AcceptCandidate
<1>3. ASSUME state' = "IDLE" \/ loaded'
      PROVE  SetIsLoaded'
  BY <1>3
<1>4. CASE StationCall \/ StationRequest
  <2>1. CASE StartStationConnection \/ StartStationUnconfigured
    BY <1>3, <2>1 DEF StartStationConnection, StartStationUnconfigured, LoadThenConnect
  <2>2. CASE StartStationCandidate
    BY <1>2, <1>3, <2>2 DEF StartStationCandidate, RejectCandidate
  <2>3. CASE RequestCandidate
    BY <1>2, <2>3 DEF RequestCandidate
  <2>4. CASE SaveStationProfiles \/ RequestSaveForLater \/ ClearFails
    BY <1>1, <1>3, <2>4 DEF SaveStationProfiles, RequestSaveForLater, StoreDeliberately,
       ClearFails, storeVars, cycleVars
  <2>5. CASE ClearStationProfiles
    BY <1>3, <2>5 DEF ClearStationProfiles
  <2> QED
    BY <1>4, <2>1, <2>2, <2>3, <2>4, <2>5 DEF StationCall, StationRequest
<1>5. CASE ProcessStationController
  <2>1. CASE Rests \/ JudgeJoined \/ JudgeExpired
    BY <1>1, <2>1 DEF Rests, JudgeJoined, JudgeExpired, stationVars, storeVars, cycleVars
  <2>2. CASE Promote
    BY <2>2 DEF Promote, JudgedIsAttempting, ProcessStep
  <2>3. CASE RecordSuccess \/ AttemptExpires
    BY <1>1, <2>3 DEF RecordSuccess, AttemptExpires, AttemptFails, JudgedIsAttempting,
       ProcessStep, storeVars
  <2>4. CASE SwitchProfile \/ SwitchRefused \/ SwitchLost \/ LinkLost \/ BackoffEnds
    BY <1>1, <2>4 DEF SwitchProfile, SwitchRefused, SwitchLost, LinkLost, BackoffEnds,
       AttemptFails, storeVars
  <2> QED
    BY <1>5, <2>1, <2>2, <2>3, <2>4 DEF ProcessStationController
<1>6. CASE PortalStep \/ PortalCall \/ RadioStep \/ UNCHANGED vars
  BY <1>1, <1>6 DEF PortalStep, PortalCall, RadioStep, Associates, LosesLink, RadioRuns,
     vars, stationVars, storeVars, cycleVars
<1>7. CASE Reboot
  BY <1>3, <1>7 DEF Reboot
<1> QED
  BY <1>4, <1>5, <1>6, <1>7 DEF Next

\* Only a network of the set under verification is configured while one of
\* its slots is tried.
LEMMA ConfigUntouched ==
    ASSUME NoLegacyAttempt, PortalStep \/ PortalCall \/ RadioStep, attached
    PROVE  UNCHANGED <<config, candidate, state, attempted, attached>>
<1>1. UNCHANGED <<candidate, state, attempted, attached>>
  BY DEF PortalStep, PortalCall, RadioStep, Associates, LosesLink, RadioRuns, stationVars,
     storeVars, cycleVars
<1>2. SUFFICES config' = config
  BY <1>1
<1>3. \A web : Shutdown(web) => UNCHANGED config
  BY DEF Shutdown, WiFiReconnect, radioVars
<1>4. CASE RadioStep
  BY <1>4 DEF RadioStep, Associates, LosesLink, Join, Drop
<1>5. CASE PortalCall
  BY <1>3, <1>5 DEF PortalCall, SessionCall, StartConfigPortal, OpenConfigPortal,
     StopConfigPortal, StartWebPortal, StopWebPortal, RequestExit, RequestClose, radioVars
<1>6. CASE BeginProcess \/ PortalExits \/ PortalStays
  BY <1>3, <1>6 DEF BeginProcess, PortalExits, PortalStays, radioVars
<1>7. CASE ConnectOwned \/ ConnectDecides \/ ConnectWrites
  BY <1>7, DecidesLooks, WritesPhase DEF radioVars
<1>8. CASE BeginSucceeds \/ BeginFails
  BY <1>8 DEF BeginSucceeds, BeginFails, ProcessStep, NoLegacyAttempt, Reacting
<1>9. CASE ConnectShutsDown
  BY <1>3, <1>9 DEF ConnectShutsDown
<1> QED
  BY <1>4, <1>5, <1>6, <1>7, <1>8, <1>9 DEF PortalStep, ConnectReacts

\* An attempt configures the network of its slot.
LEMMA BeginsInSet ==
    ASSUME NEW p, NEW slot, NEW tried, BeginStationProfile(p, slot, tried), Enabled(p, slot)
    PROVE  state' = "ATTEMPTING" /\ attempted' = slot /\ slot \in Slots /\ config' = p.slot[slot]
BY DEF BeginStationProfile, WiFiBegin, Enabled

\* A cycle over p ends in the portal or tries a slot of p.
LEMMA CycleStartsInSet ==
    ASSUME NEW p \in ProfileSet, NEW b \in BOOLEAN, BeginStationCycle(p, b)
    PROVE  \/ state' = "PORTAL"
           \/ /\ state' = "ATTEMPTING" /\ Enabled(p, attempted')
              /\ config' = p.slot[attempted']
<1>1. CASE Choose(p, b) = NoSlot
  BY <1>1 DEF BeginStationCycle, EnterStationPortal
<1>2. CASE Choose(p, b) # NoSlot
  <2>1. Enabled(p, Choose(p, b))
    BY <1>2, ChooseIsEnabled
  <2> QED
    BY <1>2, <2>1, BeginsInSet DEF BeginStationCycle
<1> QED
  BY <1>1, <1>2

\* A failed attempt leaves no attempt behind, or one of the stored set.
LEMMA FailureStartsInSet ==
    ASSUME TypeOK, AttemptFails
    PROVE  \/ state' \notin {"ATTEMPTING", "CONNECTED"}
           \/ state' = "ATTEMPTING" /\ attempted' \in Slots /\ candidate' = NoCandidate
<1>1. CASE FallBackToStored
  <2>1. profiles \in ProfileSet
    BY DEF TypeOK, StationTypeOK
  <2> QED
    BY <1>1, <2>1, CycleStartsInSet DEF FallBackToStored, Enabled
<1> QED
  BY <1>1 DEF AttemptFails, TryNextSlot, RefusePortalCandidate, GiveUp, EnterStationPortal

\* No step separates the attempt from the set it is for.
LEMMA AttemptPreserved ==
    ASSUME TypeOK, NoLegacyAttempt, AttemptIsConfigured, [Next]_vars
    PROVE  AttemptIsConfigured'
<1> USE DEF AttemptIsConfigured, CandidateActive
<1>1. ASSUME UNCHANGED <<attached, candidate, state, attempted>>,
             attached => UNCHANGED config
      PROVE  AttemptIsConfigured'
  BY <1>1
<1>2. ASSUME state' \notin {"ATTEMPTING", "CONNECTED"}
      PROVE  AttemptIsConfigured'
  BY <1>2
<1>3. ASSUME NEW p \in ProfileSet, NEW slot \in Slots, NEW tried, Enabled(p, slot),
             BeginStationProfile(p, slot, tried), candidate' \in {p, NoCandidate}
      PROVE  AttemptIsConfigured'
  BY <1>3, BeginsInSet
<1>4. ASSUME NEW c \in ProfileSet, Validate(c), AcceptCandidate(c)
      PROVE  AttemptIsConfigured'
  <2>1. BeginStationProfile(c, Choose(c, FALSE), {}) /\ candidate' = c
    BY <1>4 DEF AcceptCandidate
  <2>2. Choose(c, FALSE) \in Slots /\ Enabled(c, Choose(c, FALSE))
    BY <1>4, ValidSetStarts
  <2> QED
    BY <1>3, <2>1, <2>2
<1>5. CASE StationCall \/ StationRequest
  <2>1. CASE StartStationConnection
    <3>1. store \in ProfileSet /\ Validate(store) /\ candidate' = NoCandidate
      BY <2>1 DEF StartStationConnection, LoadThenConnect, TypeOK, StationTypeOK
    <3>2. Choose(store, TRUE) \in Slots /\ Enabled(store, Choose(store, TRUE))
      BY <3>1, ValidSetStarts
    <3>3. BeginStationProfile(store, Choose(store, TRUE), {})
      BY <2>1 DEF StartStationConnection
    <3> QED
      BY <1>3, <3>1, <3>2, <3>3
  <2>2. CASE StartStationUnconfigured \/ ClearStationProfiles
    BY <1>2, <2>2 DEF StartStationUnconfigured, ClearStationProfiles
  <2>3. CASE StartStationCandidate
    <3>1. PICK c \in ProfileSet : IF Validate(c) THEN AcceptCandidate(c) ELSE RejectCandidate
      BY <2>3, ControllerAssumption DEF ControllerAssumption, StartStationCandidate
    <3>2. RejectCandidate => state' = "IDLE"
      BY DEF RejectCandidate
    <3> QED
      BY <1>2, <1>4, <3>1, <3>2
  <2>4. CASE RequestCandidate
    <3>1. \A form \in SavedForms : BuildFromRequest(profiles, form) \in ProfileSet
      BY BuildType, ControllerAssumption DEF ControllerAssumption, TypeOK, StationTypeOK
    <3> QED
      BY <1>4, <2>4, <3>1 DEF RequestCandidate
  <2>5. CASE SaveStationProfiles \/ RequestSaveForLater \/ ClearFails
    BY <1>1, <2>5 DEF SaveStationProfiles, RequestSaveForLater, StoreDeliberately,
       ClearFails, storeVars, cycleVars, radioVars
  <2> QED
    BY <1>5, <2>1, <2>2, <2>3, <2>4, <2>5 DEF StationCall, StationRequest
<1>6. CASE ProcessStationController
  <2>1. CASE Rests \/ JudgeJoined \/ JudgeExpired \/ SwitchRefused
    BY <1>1, <2>1 DEF Rests, JudgeJoined, JudgeExpired, SwitchRefused, stationVars,
       storeVars, cycleVars, radioVars
  <2>2. CASE Promote \/ RecordSuccess
    BY <2>2 DEF Promote, RecordSuccess
  <2>3. CASE AttemptExpires \/ SwitchLost
    <3>1. AttemptFails
      BY <2>3 DEF AttemptExpires, SwitchLost
    <3> QED
      BY <1>2, <3>1, FailureStartsInSet
  <2>4. ForAttempt \in ProfileSet /\ (CandidateActive => ForAttempt = candidate)
    BY DEF ForAttempt, TypeOK, StationTypeOK
  <2>5. CASE SwitchProfile
    <3>1. pending \in Slots /\ UNCHANGED candidate
      BY <2>5 DEF SwitchProfile, Enabled
    <3> QED
      BY <1>3, <2>4, <2>5, <3>1 DEF SwitchProfile
  <2>6. CASE LinkLost
    <3>1. candidate = NoCandidate /\ UNCHANGED candidate
      BY <2>6 DEF LinkLost
    <3>2. Choose(profiles, TRUE) # NoSlot => Choose(profiles, TRUE) \in Slots
      BY ChooseIsEnabled DEF TypeOK, StationTypeOK
    <3>3. \/ state' = "PORTAL"
          \/ state' = "ATTEMPTING" /\ attempted' \in Slots
      BY <2>6, <3>2 DEF LinkLost, EnterStationPortal, BeginStationProfile, Enabled
    <3> QED
      BY <3>1, <3>3
  <2>7. CASE BackoffEnds
    <3>1. BeginStationCycle(ForAttempt, TRUE) /\ UNCHANGED candidate
      BY <2>7 DEF BackoffEnds
    <3> QED
      BY <2>4, <3>1, CycleStartsInSet DEF Enabled
  <2> QED
    BY <1>6, <2>1, <2>2, <2>3, <2>5, <2>6, <2>7 DEF ProcessStationController
<1>7. CASE PortalStep \/ PortalCall \/ RadioStep
  <2>1. UNCHANGED <<attached, candidate, state, attempted>>
    BY <1>7 DEF PortalStep, PortalCall, RadioStep, Associates, LosesLink, RadioRuns,
       stationVars, storeVars, cycleVars
  <2> QED
    BY <1>1, <1>7, <2>1, ConfigUntouched
<1>8. CASE Reboot
  BY <1>2, <1>8 DEF Reboot
<1>9. CASE UNCHANGED vars
  BY <1>1, <1>9 DEF vars, radioVars, stationVars, storeVars, cycleVars
<1> QED
  BY <1>5, <1>6, <1>7, <1>8, <1>9 DEF Next

----
(* The invariant                                                            *)

\* What holds of CandidatePursued even if handlers preempt process(): all but
\* that the judged link is still there.
CandidateTracked ==
    /\ LinkIsConfigured
    /\ NoLegacyAttempt
    /\ JudgedIsAttempting
    /\ SetIsLoaded
    /\ AttemptIsConfigured

\* The parts together are preserved.
LEMMA TrackingPreserved ==
    ASSUME TypeOK, CandidateTracked, [Next]_vars
    PROVE  CandidateTracked'
BY LinkPreserved, LegacyStaysIdle, JudgedPreserved, LoadedPreserved, AttemptPreserved
DEF CandidateTracked

\* The driver is configured for the slot under verification, no other machine
\* has an attempt, and what was judged is an attempt, wherever handlers run.
THEOREM CandidateIsTracked ==
    Spec => []CandidateTracked
<1>1. Init => CandidateTracked
  BY DEF Init, RadioInit, PortalInit, CandidateTracked, LinkIsConfigured, NoLegacyAttempt,
     Reacting, JudgedIsAttempting, SetIsLoaded, AttemptIsConfigured
<1>2. TypeOK /\ CandidateTracked /\ [Next]_vars => CandidateTracked'
  BY TrackingPreserved
<1> QED
  BY <1>1, <1>2, TypeCorrect, PTL DEF Spec

\* If handlers do not interrupt process(), the link, the driver and the
\* controller agree on the network under verification in every state.
THEOREM CandidateIsPursued ==
    ASSUME Preemptive = FALSE
    PROVE  Spec => []CandidatePursued
<1>1. Init => LinkStands
  BY DEF Init, PortalInit, LinkStands
<1>2. LinkStands /\ [Next]_vars => LinkStands'
  BY LinkStandsPreserved
<1>3. CandidateTracked /\ LinkStands => CandidatePursued
  BY DEF CandidateTracked, CandidatePursued
<1> QED
  BY <1>1, <1>2, <1>3, CandidateIsTracked, PTL DEF Spec

----
(* The refinement                                                           *)

\* The abstract specification talks about the same sets.
LEMMA SameSets ==
    /\ Durable!ProfileSet = ProfileSet
    /\ Durable!EmptySet = EmptySet
    /\ \A p : Durable!Validate(p) <=> Validate(p)
    /\ \A p : Durable!EnabledSlots(p) = EnabledSlots(p)
    /\ \A p, s : Durable!WithLast(p, s) = WithLast(p, s)
    /\ Durable!Slots = Slots
BY DEF Durable!ProfileSet, ProfileSet, Durable!EmptySet, EmptySet, Durable!Validate, Validate,
   Durable!EnabledSlots, EnabledSlots, Durable!Enabled, Enabled, Durable!WithLast, WithLast,
   Durable!Slots, Slots, Durable!NoSlot, NoSlot, Durable!Contents, Contents

\* A candidate that is accepted is a proposal.
LEMMA AcceptProposes ==
    ASSUME NEW c \in ProfileSet, Validate(c), AcceptCandidate(c)
    PROVE  Durable!Propose
BY SameSets DEF AcceptCandidate, Durable!Propose

\* A set stored on purpose is stored unverified, or the store refuses it.
LEMMA DeliberateStores ==
    ASSUME NEW p \in ProfileSet, StoreDeliberately(p)
    PROVE  Durable!StoreUnverified \/ UNCHANGED <<store, candidate>>
BY SameSets DEF StoreDeliberately, Durable!StoreUnverified

\* A candidate is stored with a slot of its own, or given up.
LEMMA PromoteCommits ==
    ASSUME TypeOK, CandidateTracked, Promote
    PROVE  \/ attempted \in Slots /\ Durable!CommitAt(attempted)
           \/ Durable!Abandon
<1>1. state = "ATTEMPTING" /\ candidate # NoCandidate
  BY DEF Promote, ProcessStep, CandidateTracked, JudgedIsAttempting, CandidateActive
<1>2. candidate' = NoCandidate
  BY DEF Promote
<1>3. CASE store' = store
  BY <1>2, <1>3 DEF Durable!Abandon
<1>4. CASE store' # store
  <2>1. attached /\ store' = WithLast(candidate, attempted)
    BY <1>4 DEF Promote
  <2>2. attempted \in Slots /\ attempted \in EnabledSlots(candidate)
    BY <1>1, <2>1 DEF CandidateTracked, AttemptIsConfigured, CandidateActive, EnabledSlots,
       Enabled
  <2> QED
    BY <1>1, <1>2, <2>1, <2>2, SameSets DEF Durable!CommitAt
<1> QED
  BY <1>3, <1>4

\* Sets that agree on their slots and their preference differ in the slot that
\* connected last only.
LEMMA AgreeOnLast ==
    ASSUME NEW p \in ProfileSet, NEW q \in ProfileSet, NEW s,
           p.slot = q.slot, p.preferred = q.preferred
    PROVE  WithLast(p, s) = WithLast(q, s)
BY DEF WithLast, ProfileSet

\* A connection of the stored set changes no more of it than the slot that
\* connected last.
LEMMA SuccessRemembers ==
    ASSUME TypeOK, StoreMatchesMemory, CandidateTracked, RecordSuccess
    PROVE  Durable!Remember \/ UNCHANGED <<store, candidate>>
<1>1. /\ state = "ATTEMPTING" /\ candidate = NoCandidate
      /\ candidate' = NoCandidate
  BY DEF RecordSuccess, ProcessStep, CandidateTracked, JudgedIsAttempting, CandidateActive
<1>2. CASE store' = store
  BY <1>1, <1>2
<1>3. CASE store' # store
  <2>1. attached /\ store' = WithLast(profiles, attempted)
    BY <1>3 DEF RecordSuccess
  <2>2. profiles.slot = store.slot /\ profiles.preferred = store.preferred
    BY <1>1, <2>1 DEF CandidateTracked, SetIsLoaded, StoreMatchesMemory
  <2>3. attempted \in Slots
    BY <1>1 DEF CandidateTracked, AttemptIsConfigured
  <2>4. profiles \in ProfileSet /\ store \in ProfileSet
    BY DEF TypeOK, StationTypeOK
  <2>5. store' = WithLast(store, attempted)
    BY <2>1, <2>2, <2>4, AgreeOnLast
  <2> QED
    BY <1>1, <2>3, <2>5, SameSets DEF Durable!Remember
<1> QED
  BY <1>2, <1>3

\* A step of the abstract specification that connects nothing, or no step.
Offline ==
    \/ Durable!Propose \/ Durable!Abandon \/ Durable!StoreUnverified \/ Durable!Clear
    \/ UNCHANGED <<store, candidate>>

\* What a step of the controller is to the store and the proposal.
LEMMA StepRefines ==
    ASSUME TypeOK, StoreMatchesMemory, CandidateTracked, [Next]_vars
    PROVE  \/ Offline
           \/ Promote /\ attempted \in Slots /\ Durable!CommitAt(attempted)
           \/ RecordSuccess /\ Durable!Remember
<1>1. ASSUME candidate' = NoCandidate, store' = store
      PROVE  Offline
  BY <1>1 DEF Offline, Durable!Abandon
<1>2. ASSUME NEW c \in ProfileSet, Validate(c), AcceptCandidate(c)
      PROVE  Offline
  BY <1>2, AcceptProposes DEF Offline
<1>3. \A form \in SavedForms : BuildFromRequest(profiles, form) \in ProfileSet
  BY BuildType, ControllerAssumption DEF ControllerAssumption, TypeOK, StationTypeOK
<1>4. CASE StartStationConnection \/ StartStationUnconfigured
  BY <1>1, <1>4 DEF StartStationConnection, StartStationUnconfigured, LoadThenConnect
<1>5. CASE StartStationCandidate
  <2>1. PICK c \in ProfileSet : IF Validate(c) THEN AcceptCandidate(c) ELSE RejectCandidate
    BY <1>5, ControllerAssumption DEF ControllerAssumption, StartStationCandidate
  <2>2. RejectCandidate => UNCHANGED <<store, candidate>>
    BY DEF RejectCandidate, storeVars
  <2> QED
    BY <1>2, <2>1, <2>2 DEF Offline
<1>6. CASE RequestCandidate
  BY <1>2, <1>3, <1>6 DEF RequestCandidate
<1>7. CASE SaveStationProfiles
  BY <1>7, ControllerAssumption, DeliberateStores
  DEF ControllerAssumption, SaveStationProfiles, Offline
<1>8. CASE RequestSaveForLater
  BY <1>3, <1>8, DeliberateStores DEF RequestSaveForLater, Offline
<1>9. CASE ClearStationProfiles
  <2>1. candidate' = NoCandidate /\ store' \in {store, EmptySet}
    BY <1>9 DEF ClearStationProfiles
  <2> QED
    BY <1>1, <2>1, SameSets DEF Offline, Durable!Clear
<1>10. CASE Promote
  BY <1>10, PromoteCommits DEF Offline
<1>11. CASE RecordSuccess
  BY <1>11, SuccessRemembers DEF Offline
<1>12. CASE AttemptExpires \/ SwitchLost
  <2>1. AttemptFails
    BY <1>12 DEF AttemptExpires, SwitchLost
  <2>2. store' = store /\ candidate' \in {candidate, NoCandidate}
    BY <2>1 DEF AttemptFails, TryNextSlot, RefusePortalCandidate, FallBackToStored, GiveUp,
       storeVars
  <2> QED
    BY <1>1, <2>2 DEF Offline
<1>13. CASE Reboot
  BY <1>1, <1>13 DEF Reboot
<1>14. CASE \/ Rests \/ JudgeJoined \/ JudgeExpired \/ SwitchProfile \/ SwitchRefused
            \/ LinkLost \/ BackoffEnds \/ PortalStep \/ PortalCall \/ RadioStep \/ ClearFails
            \/ UNCHANGED vars
  BY <1>14 DEF Rests, JudgeJoined, JudgeExpired, SwitchProfile, SwitchRefused, LinkLost,
     BackoffEnds, PortalStep, PortalCall, RadioStep, Associates, LosesLink, RadioRuns,
     ClearFails, vars, stationVars, storeVars, Offline
<1> QED
  BY <1>4, <1>5, <1>6, <1>7, <1>8, <1>9, <1>10, <1>11, <1>12, <1>13, <1>14
  DEF Next, ProcessStationController, StationCall, StationRequest

\* Wherever handlers run, the store only ever sees whole valid sets that were
\* offered and are given up in the same step, deliberate writes, and the slot
\* that connected last, whatever sets, forms, options and calls there are.
THEOREM StoreIsOffered ==
    Spec => OnlyOffered
<1>1. Init => Durable!Init
  BY SameSets, ControllerAssumption DEF ControllerAssumption, Init, Durable!Init
<1>2. TypeOK /\ StoreMatchesMemory /\ CandidateTracked /\ [Next]_vars
        => [Durable!Next]_<<store, candidate>>
  BY StepRefines, SameSets DEF Offline, Durable!Next, Durable!Commit
<1> QED
  BY <1>1, <1>2, TypeCorrect, MemoryFollowsStore, CandidateIsTracked, PTL
  DEF Spec, OnlyOffered, Durable!Spec

\* What is acted on as joined still has its link.
LEMMA ConnectsOnline ==
    ASSUME CandidatePursued, Promote \/ RecordSuccess
    PROVE  link # None
BY DEF CandidatePursued, LinkStands, Usable, Promote, RecordSuccess, ProcessStep

\* A set is stored with the station on the network of the slot it names.
LEMMA CommitsOnline ==
    ASSUME CandidatePursued, Promote, Durable!CommitAt(attempted)
    PROVE  link = candidate.slot[attempted] \/ Durable!Abandon
<1>1. /\ state = "ATTEMPTING" /\ link # None
      /\ candidate # NoCandidate /\ candidate' = NoCandidate
  BY ConnectsOnline DEF Promote, ProcessStep, CandidatePursued, JudgedIsAttempting,
     CandidateActive
<1>2. CASE ~attached
  BY <1>1, <1>2 DEF Promote, Durable!Abandon
<1>3. CASE attached
  BY <1>1, <1>3 DEF CandidatePursued, LinkIsConfigured, AttemptIsConfigured, CandidateActive
<1> QED
  BY <1>2, <1>3

\* If handlers do not interrupt process(), an offered set is stored only while
\* the station is on the network of the slot it names, whatever sets, forms,
\* options and calls there are.
THEOREM StoreIsVerified ==
    ASSUME Preemptive = FALSE
    PROVE  Spec => CandidateVerified
<1>1. Init => Durable!VerifiedInit
  BY SameSets, ControllerAssumption
  DEF ControllerAssumption, Init, RadioInit, Durable!VerifiedInit, Durable!Init
<1>2. ASSUME TypeOK, StoreMatchesMemory, CandidatePursued, [Next]_vars
      PROVE  Durable!VerifiedNext \/ UNCHANGED <<store, candidate>>
  <2>1. CandidateTracked
    BY <1>2 DEF CandidateTracked, CandidatePursued
  <2>2. CASE Offline
    BY <2>2 DEF Offline, Durable!VerifiedNext
  <2>3. CASE Promote /\ attempted \in Slots /\ Durable!CommitAt(attempted)
    BY <1>2, <2>3, CommitsOnline, SameSets DEF Durable!VerifiedNext, Durable!VerifiedCommit
  <2>4. CASE RecordSuccess /\ Durable!Remember
    BY <1>2, <2>4, ConnectsOnline DEF Durable!VerifiedNext, Durable!VerifiedRemember
  <2> QED
    BY <1>2, <2>1, <2>2, <2>3, <2>4, StepRefines
<1>3. TypeOK /\ StoreMatchesMemory /\ CandidatePursued /\ [Next]_vars
        => [Durable!VerifiedNext]_<<store, candidate>>
  BY <1>2
<1>4. Spec => []CandidatePursued
  BY CandidateIsPursued
<1> QED
  BY <1>1, <1>3, <1>4, TypeCorrect, MemoryFollowsStore, PTL
  DEF Spec, CandidateVerified, Durable!VerifiedSpec

====
