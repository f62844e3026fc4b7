---- MODULE PortalProofs ----
(***************************************************************************)
(* The portal sessions of an application without station profiles and the  *)
(* page they serve, for any configurations and networks, whether the       *)
(* handlers run in a task of their own or not: types, the life of the      *)
(* server, the address of a hand-off, the end of a save, what a save is    *)
(* reported as, and what the page in the browser makes of it.              *)
(***************************************************************************)
EXTENDS PortalPage, TLAPS

PortalInv == TypeOK /\ ServerIffPortal

SessionBooleans ==
    /\ configActive \in BOOLEAN /\ webActive \in BOOLEAN /\ server \in BOOLEAN
    /\ abort \in BOOLEAN /\ abortScheduled \in BOOLEAN /\ captive \in BOOLEAN

LEMMA TypeParts ==
    TypeOK <=> /\ opt \in Options /\ pc \in Positions /\ calls \in 0 .. MaxCalls
               /\ SessionBooleans
               /\ cp \in CpStates /\ cpSsid \in Network \cup {None} /\ stationIp \in BOOLEAN
               /\ target \in Network \cup {None} /\ link \in Network \cup {None}
               /\ config \in Network \cup {None}
               /\ overtaking \in BOOLEAN
BY DEF TypeOK, PortalTypeOK, StepTypeOK, SessionTypeOK, SessionBooleans

----
(* The parts that several actions share                                     *)

\* A bounded call or request.
LEMMA CountTyping ==
    ASSUME TypeOK, Count
    PROVE  calls' \in 0 .. MaxCalls
BY PortalAssumption, TypeParts DEF Count, PortalAssumption

LEMMA CpStatesHave ==
    /\ {"idle", "queued", "delaying", "starting", "waiting", "success_waiting_close",
        "success", "failed"} \subseteq CpStates
    /\ "idle" \notin InFlight /\ "success" \notin InFlight /\ "failed" \notin InFlight
BY DEF CpStates, InFlight

\* shutdownConfigPortal leaves a server exactly if it leaves a portal.
LEMMA CloseKeepsServer ==
    ASSUME SessionBooleans, ServerIffPortal, NEW web \in {webActive, FALSE}, CloseSession(web)
    PROVE  /\ configActive' \in BOOLEAN /\ webActive' \in BOOLEAN /\ server' \in BOOLEAN
           /\ ServerIffPortal'
           /\ configActive /\ ~configActive' => ~web
<1> USE DEF SessionBooleans, ServerIffPortal, PortalUp, CloseSession
<1>1. CASE web = FALSE
  BY <1>1
<1>2. CASE web = webActive /\ webActive = TRUE
  BY <1>2
<1>3. CASE web = webActive /\ webActive = FALSE
  BY <1>3
<1> QED
  BY <1>1, <1>2, <1>3

\* What the driver makes of a shutdown stays a network or none.
LEMMA ShutdownRadio ==
    ASSUME TypeOK, NEW web, Shutdown(web)
    PROVE  /\ CloseSession(web)
           /\ target' \in Network \cup {None} /\ link' = link /\ config' = config
BY TypeParts DEF Shutdown, WiFiReconnect, radioVars

\* A shutdown forgets a save in flight.
LEMMA ShutdownSave ==
    ASSUME TypeOK, NEW web, cp' = CpAfterShutdown(cp, web)
    PROVE  /\ cp' \in CpStates
           /\ configActive /\ ~web => cp' \notin InFlight
BY TypeParts, CpStatesHave DEF CpAfterShutdown

\* What every step is shown to do: the invariant, and no save is left behind.
Preserved ==
    PortalInv' /\ (configActive /\ ~configActive' => cp' \notin InFlight)

\* A shutdown that keeps the rest of the save.
LEMMA ShutdownPreserves ==
    ASSUME PortalInv, NEW web \in {webActive, FALSE}, Shutdown(web),
           cp' = CpAfterShutdown(cp, web), stationIp' = stationIp, cpSsid' = cpSsid,
           opt' = opt, pc' \in Positions, calls' \in 0 .. MaxCalls,
           abort' \in BOOLEAN, abortScheduled' \in BOOLEAN, captive' \in BOOLEAN,
           overtaking' \in BOOLEAN
    PROVE  Preserved
<1>1. TypeOK /\ SessionBooleans /\ ServerIffPortal
  BY TypeParts DEF PortalInv
<1>2. /\ CloseSession(web)
      /\ target' \in Network \cup {None} /\ link' = link /\ config' = config
  BY <1>1, ShutdownRadio
<1>3. /\ configActive' \in BOOLEAN /\ webActive' \in BOOLEAN /\ server' \in BOOLEAN
      /\ ServerIffPortal'
      /\ configActive /\ ~configActive' => ~web
  BY <1>1, <1>2, CloseKeepsServer
<1>4. /\ cp' \in CpStates
      /\ configActive /\ ~web => cp' \notin InFlight
  BY <1>1, ShutdownSave
<1>5. TypeOK'
  BY <1>1, <1>2, <1>3, <1>4, TypeParts
     DEF TypeOK, PortalTypeOK, StepTypeOK, SessionTypeOK
<1> QED
  BY <1>3, <1>4, <1>5 DEF Preserved, PortalInv

\* A step that leaves the session and the driver alone.
LEMMA SaveStepPreserves ==
    ASSUME PortalInv, UNCHANGED <<configActive, webActive, server, opt>>,
           pc' \in Positions, calls' \in 0 .. MaxCalls,
           abort' \in BOOLEAN, abortScheduled' \in BOOLEAN, captive' \in BOOLEAN,
           cp' \in CpStates, cpSsid' \in Network \cup {None}, stationIp' \in BOOLEAN,
           overtaking' \in BOOLEAN,
           target' \in Network \cup {None}, link' \in Network \cup {None},
           config' \in Network \cup {None}
    PROVE  Preserved
<1>1. TypeOK /\ SessionBooleans /\ ServerIffPortal
  BY TypeParts DEF PortalInv
<1>2. TypeOK'
  BY <1>1, TypeParts DEF SessionBooleans, TypeOK, PortalTypeOK, StepTypeOK, SessionTypeOK
<1>3. ServerIffPortal'
  BY <1>1 DEF ServerIffPortal, PortalUp
<1> QED
  BY <1>1, <1>2, <1>3 DEF Preserved, PortalInv, SessionBooleans

----
(* The steps                                                                *)

LEMMA PositionsHave ==
    /\ {"loop", "station", "connect", "exit", "kept", "delay", "start", "begin", "begun",
        "configured", "refused", "online", "addressed", "finalize", "shutdown"} \subseteq Positions
    /\ {"loop", "station", "connect", "exit"} \cap Machine = {}
BY DEF Positions, Machine, Reacting

\* What the invariant says of the state before, in the form the steps need.
LEMMA Before ==
    ASSUME PortalInv
    PROVE  /\ TypeOK /\ SessionBooleans /\ calls \in 0 .. MaxCalls /\ pc \in Positions
           /\ cp \in CpStates /\ cpSsid \in Network \cup {None} /\ stationIp \in BOOLEAN
           /\ target \in Network \cup {None} /\ link \in Network \cup {None}
           /\ config \in Network \cup {None}
           /\ overtaking \in BOOLEAN
BY TypeParts DEF PortalInv

\* The application's calls, from the loop task.
LEMMA CallPreserves ==
    ASSUME PortalInv, SessionCall, UNCHANGED overtaking
    PROVE  Preserved
<1> USE DEF ApplicationCall
<1>1. calls' \in 0 .. MaxCalls /\ pc' \in Positions /\ opt' = opt
  BY Before, CountTyping DEF SessionCall, StartConfigPortal, StopConfigPortal, StartWebPortal,
     StopWebPortal
<1>2. CASE StartConfigPortal
  <2>1. TypeOK'
    <3>1. /\ configActive' = TRUE /\ server' = TRUE /\ abort' = FALSE /\ cp' = "idle"
          /\ UNCHANGED <<webActive, abortScheduled, captive, cpSsid, stationIp, opt, link, config>>
          /\ target' \in Network \cup {None}
      BY <1>2, Before DEF StartConfigPortal, OpenConfigPortal, OpenSession
    <3>2. cp' \in CpStates
      BY <3>1, CpStatesHave
    <3> QED
      BY <1>1, <3>1, <3>2, Before, TypeParts
         DEF SessionBooleans, TypeOK, PortalTypeOK, StepTypeOK, SessionTypeOK
  <2> QED
    BY <1>2, <2>1 DEF StartConfigPortal, OpenConfigPortal, OpenSession, Preserved, PortalInv,
       ServerIffPortal, PortalUp
<1>3. CASE StopConfigPortal
  <2>1. abort' \in BOOLEAN /\ abortScheduled' \in BOOLEAN /\ captive' \in BOOLEAN
       /\ overtaking' \in BOOLEAN
    BY <1>3, Before DEF StopConfigPortal, SessionBooleans
  <2> QED
    BY <1>1, <1>3, <2>1, ShutdownPreserves DEF StopConfigPortal
<1>4. CASE StartWebPortal
  <2>1. TypeOK'
    <3>1. /\ webActive' = TRUE /\ server' = TRUE /\ abort' = FALSE
          /\ UNCHANGED <<configActive, abortScheduled, captive, opt, cp, cpSsid, stationIp,
                         target, link, config>>
      BY <1>4 DEF StartWebPortal, connectVars, radioVars
    <3> QED
      BY <1>1, <3>1, Before, TypeParts
         DEF SessionBooleans, TypeOK, PortalTypeOK, StepTypeOK, SessionTypeOK
  <2> QED
    BY <1>4, <2>1, Before DEF StartWebPortal, Preserved, PortalInv,
       ServerIffPortal, PortalUp, connectVars, SessionBooleans
<1>5. CASE StopWebPortal
  <2>1. abort' \in BOOLEAN /\ abortScheduled' \in BOOLEAN /\ captive' \in BOOLEAN
       /\ overtaking' \in BOOLEAN
    BY <1>5, Before DEF StopWebPortal, SessionBooleans
  <2> QED
    BY <1>1, <1>5, <2>1, ShutdownPreserves DEF StopWebPortal
<1> QED
  BY <1>2, <1>3, <1>4, <1>5 DEF SessionCall

\* The handlers, wherever process() is.
LEMMA RequestPreserves ==
    ASSUME PortalInv, Save \/ (OtherRequest /\ UNCHANGED overtaking)
    PROVE  Preserved
<1>1. calls' \in 0 .. MaxCalls /\ pc' \in Positions /\ opt' = opt
  BY Before, CountTyping
     DEF Save, OtherRequest, RequestExit, RequestClose, QueuePortalConnect, Request
<1>2. CASE RequestExit /\ UNCHANGED overtaking
  BY <1>1, <1>2, Before, SaveStepPreserves DEF RequestExit, connectVars, radioVars, SessionBooleans
<1>3. CASE RequestClose /\ UNCHANGED overtaking
  BY <1>1, <1>3, Before, SaveStepPreserves DEF RequestClose, connectVars, radioVars, SessionBooleans
<1>4. CASE Save
  <2>1. cpSsid' \in Network \cup {None} /\ cp' = "queued" /\ stationIp' = FALSE
    BY <1>4 DEF Save, QueuePortalConnect
  <2>2. cp' \in CpStates
    BY <2>1, CpStatesHave
  <2>3. overtaking' \in BOOLEAN
    BY <1>4 DEF Save
  <2> QED
    BY <1>1, <1>4, <2>1, <2>2, <2>3, Before, SaveStepPreserves
       DEF Save, QueuePortalConnect, sessionVars, radioVars, SessionBooleans
<1> QED
  BY <1>2, <1>3, <1>4 DEF OtherRequest

\* Where a step of processPortalConnect comes from and goes to.
LEMMA ConnectMoves ==
    ASSUME ProcessPortalConnect
    PROVE  calls' = calls /\ opt' = opt /\ pc' \in Positions
<1>1. CASE ConnectDecides
  BY <1>1, PositionsHave
     DEF ConnectDecides, ConnectRests, ConnectQueued, DelayEnds, ConnectBegins, ConnectJoins,
         ConnectGivesUp, HandoffEnds, Decide, ProcessStep
<1>2. CASE ConnectWrites
  BY <1>2, PositionsHave
     DEF ConnectWrites, WriteKept, WriteDelay, WriteStart, WriteBegun, WriteConfigured,
         WriteRefused, WriteAddress, WriteHandoff, FinalizeSuccess, Write, AfterEnd, ProcessStep
<1>3. CASE BeginSucceeds \/ BeginFails \/ ConnectShutsDown
  BY <1>3, PositionsHave DEF BeginSucceeds, BeginFails, ConnectShutsDown, ProcessStep
<1> QED
  BY <1>1, <1>2, <1>3 DEF ProcessPortalConnect, ConnectReacts

\* The switch only looks.
LEMMA DecidesLooks ==
    ASSUME ConnectDecides
    PROVE  UNCHANGED <<sessionVars, connectVars, radioVars>>
BY DEF ConnectDecides, ConnectRests, ConnectQueued, DelayEnds, ConnectBegins, ConnectJoins,
       ConnectGivesUp, HandoffEnds, Decide

\* A write gives the save a phase, and its report an address or none.
LEMMA WritesPhase ==
    ASSUME ConnectWrites
    PROVE  /\ UNCHANGED <<sessionVars, cpSsid, radioVars>>
           /\ cp' = cp \/ cp' \in {"delaying", "starting", "waiting", "success_waiting_close",
                                   "success", "failed"}
           /\ stationIp' = stationIp \/ stationIp' \in BOOLEAN
BY DEF ConnectWrites, WriteKept, WriteDelay, WriteStart, WriteBegun, WriteConfigured,
       WriteRefused, WriteAddress, WriteHandoff, FinalizeSuccess, Write

\* What WiFi.begin leaves of the driver, called to connect or only to configure.
LEMMA BeginRadio ==
    ASSUME TypeOK, BeginSucceeds \/ BeginFails
    PROVE  /\ target' \in Network \cup {None} /\ link' \in Network \cup {None}
           /\ config' \in Network \cup {None}
<1>1. \/ WiFiBegin(cpSsid) \/ WiFiConfigure(cpSsid) \/ WiFiDisconnect \/ UNCHANGED radioVars
  BY DEF BeginSucceeds, BeginFails
<1> QED
  BY <1>1, TypeParts DEF WiFiBegin, WiFiConfigure, WiFiDisconnect, radioVars

\* processPortalConnect.
LEMMA ConnectPreserves ==
    ASSUME PortalInv, ProcessPortalConnect, UNCHANGED overtaking
    PROVE  Preserved
<1>1. calls' = calls /\ calls' \in 0 .. MaxCalls /\ pc' \in Positions /\ opt' = opt
  BY Before, ConnectMoves
<1>2. CASE ConnectDecides
  BY <1>1, <1>2, Before, DecidesLooks, SaveStepPreserves
     DEF sessionVars, connectVars, radioVars, SessionBooleans
<1>3. CASE ConnectWrites
  <2>1. cp' \in CpStates /\ stationIp' \in BOOLEAN
    BY <1>3, Before, WritesPhase, CpStatesHave
  <2> QED
    BY <1>1, <1>3, <2>1, Before, WritesPhase, SaveStepPreserves
       DEF sessionVars, radioVars, SessionBooleans
<1>4. CASE BeginSucceeds \/ BeginFails
  <2>1. UNCHANGED <<sessionVars, connectVars>>
    BY <1>4 DEF BeginSucceeds, BeginFails
  <2> QED
    BY <1>1, <1>4, <2>1, Before, BeginRadio, SaveStepPreserves
       DEF sessionVars, connectVars, SessionBooleans
<1>5. CASE ConnectShutsDown
  <2>1. abort' \in BOOLEAN /\ abortScheduled' \in BOOLEAN /\ captive' \in BOOLEAN
       /\ overtaking' \in BOOLEAN
    BY <1>5, Before DEF ConnectShutsDown, SessionBooleans
  <2> QED
    BY <1>1, <1>5, <2>1, ShutdownPreserves DEF ConnectShutsDown
<1> QED
  BY <1>2, <1>3, <1>4, <1>5 DEF ProcessPortalConnect, ConnectReacts

\* The rest of process(), and the radio.
LEMMA LoopPreserves ==
    ASSUME PortalInv, BeginProcess \/ StationIdle \/ PortalExits \/ PortalStays,
           UNCHANGED overtaking
    PROVE  Preserved
<1>1. calls' \in 0 .. MaxCalls /\ pc' \in Positions /\ opt' = opt
  BY Before, PositionsHave
     DEF BeginProcess, StationIdle, PortalExits, PortalStays, ProcessStep
<1>2. CASE BeginProcess
  <2>1. abort' \in BOOLEAN /\ abortScheduled' \in BOOLEAN
    BY <1>2, Before DEF BeginProcess, SessionBooleans
  <2> QED
    BY <1>1, <1>2, <2>1, Before, SaveStepPreserves
       DEF BeginProcess, connectVars, radioVars, SessionBooleans
<1>3. CASE StationIdle \/ PortalStays
  BY <1>1, <1>3, Before, SaveStepPreserves
     DEF StationIdle, PortalStays, sessionVars, connectVars, radioVars, SessionBooleans
<1>4. CASE PortalExits
  <2>1. abort' \in BOOLEAN /\ abortScheduled' \in BOOLEAN /\ captive' \in BOOLEAN
       /\ overtaking' \in BOOLEAN
    BY <1>4, Before DEF PortalExits, SessionBooleans
  <2> QED
    BY <1>1, <1>4, <2>1, ShutdownPreserves DEF PortalExits
<1> QED
  BY <1>2, <1>3, <1>4

LEMMA RadioPreserves ==
    ASSUME PortalInv, Associates \/ LosesLink, UNCHANGED overtaking
    PROVE  Preserved
<1>1. calls' \in 0 .. MaxCalls
  BY Before, CountTyping DEF Associates, LosesLink
<1>2. /\ target' \in Network \cup {None} /\ link' \in Network \cup {None}
      /\ config' \in Network \cup {None}
  BY Before, NetworkAssumption DEF Associates, LosesLink, Join, Drop, NetworkAssumption
<1>3. RadioRuns
  BY DEF Associates, LosesLink
<1> QED
  BY <1>1, <1>2, <1>3, Before, SaveStepPreserves
     DEF RadioRuns, sessionVars, connectVars, SessionBooleans

LEMMA StepPreserves ==
    ASSUME PortalInv, [Next]_vars
    PROVE  Preserved
<1>1. CASE UNCHANGED vars
  BY <1>1, Before, SaveStepPreserves
     DEF vars, deviceVars, radioVars, portalVars, sessionVars, connectVars, SessionBooleans
<1> QED
  BY <1>1, CallPreserves, RequestPreserves, ConnectPreserves, LoopPreserves, RadioPreserves
     DEF Next, OtherStep, Process

----
(* The theorems                                                             *)

LEMMA PortalStarts ==
    ASSUME Init
    PROVE  PortalInv
<1>1. calls \in 0 .. MaxCalls /\ pc \in Positions /\ cp \in CpStates
  BY PortalAssumption, PositionsHave, CpStatesHave DEF Init, PortalInit, PortalAssumption
<1>2. TypeOK
  BY <1>1, TypeParts DEF Init, PortalInit, RadioInit, SessionBooleans
<1> QED
  BY <1>2 DEF PortalInv, Init, PortalInit, ServerIffPortal, PortalUp

\* The inductive invariant: types and the server's life.
THEOREM PortalInvariant == Spec => []PortalInv
<1>1. Init => PortalInv
  BY PortalStarts
<1>2. PortalInv /\ [Next]_vars => PortalInv'
  BY StepPreserves DEF Preserved
<1> QED
  BY <1>1, <1>2, PTL DEF Spec

\* Types, for any networks and configurations.
THEOREM PortalTypeCorrect == Spec => []TypeOK
<1>1. PortalInv => TypeOK
  BY DEF PortalInv
<1> QED
  BY PortalInvariant, <1>1, PTL

\* No portal without a server and no server without a portal, whatever closes it.
THEOREM ServerLivesWithPortal == Spec => []ServerIffPortal
<1>1. PortalInv => ServerIffPortal
  BY DEF PortalInv
<1> QED
  BY PortalInvariant, <1>1, PTL

\* A session that ends leaves no save in flight to the next one.
THEOREM SaveEndsWithPortal == Spec => NoSaveLeftBehind
<1>1. PortalInv /\ [Next]_vars => [configActive /\ ~configActive' => cp' \notin InFlight]_vars
  BY StepPreserves DEF Preserved
<1> QED
  BY PortalInvariant, <1>1, PTL DEF Spec, NoSaveLeftBehind

----
(* What a save is reported as                                               *)

\* Inside a reaction the save is in the phase that the switch has read, or
\* another save has been queued since.
Phases ==
    /\ pc \in {"kept", "delay"} => cp = "queued"
    /\ pc = "start" => cp \in {"queued", "delaying"}
    /\ pc \in {"begin", "begun", "configured"} => cp \in {"queued", "starting"}
    /\ pc = "refused" => cp \in {"queued", "starting", "waiting"}
    /\ pc \in {"online", "addressed"} => cp \in {"queued", "waiting"}
    /\ pc = "finalize" => cp \in {"queued", "success_waiting_close"}
    /\ pc = "shutdown" => cp \in {"queued", "success", "failed"}

\* What is known of a save that did not come into the midst of a reaction: what
\* that reaction has seen of it is still so, it has a network to join once it is
\* past the queue, and while it waits the driver knows no other network.
StillSeen ==
    /\ pc = "kept" => cpSsid = None
    /\ pc = "delay" => cpSsid # None
    /\ pc \in Reacting \ {"kept", "delay"} => cp # "queued"
    /\ pc = "begun" => opt.connectOnSave
    /\ pc = "configured" => ~opt.connectOnSave
    /\ pc \in {"online", "addressed"} => Usable
    /\ pc = "addressed" => stationIp
SaveHasNetwork == cp \in {"delaying", "starting", "waiting"} => cpSsid # None
OnlyThisNetwork ==
    cp = "waiting" \/ pc = "begun" =>
        /\ opt.connectOnSave
        /\ config = cpSsid
        /\ target \in {None, cpSsid} /\ link \in {None, cpSsid}
AddressKept == cp = "success_waiting_close" => stationIp

Undisturbed == StillSeen /\ SaveHasNetwork /\ OnlyThisNetwork /\ AddressKept

ReportInv == PortalInv /\ Phases /\ (~overtaking => Undisturbed)

\* The reactions that leave the phase to be written later.
LEMMA BeginPhase ==
    ASSUME BeginSucceeds \/ BeginFails, Phases
    PROVE  Phases'
BY DEF BeginSucceeds, BeginFails, ProcessStep, connectVars, Phases

LEMMA DecidePhase ==
    ASSUME ConnectDecides
    PROVE  Phases'
<1> USE DEF Decide, ProcessStep, connectVars, Phases
<1>1. CASE ConnectRests
  BY <1>1 DEF ConnectRests
<1>2. CASE ConnectQueued
  BY <1>2 DEF ConnectQueued
<1>3. CASE DelayEnds \/ ConnectBegins
  BY <1>3 DEF DelayEnds, ConnectBegins
<1>4. CASE ConnectJoins \/ ConnectGivesUp \/ HandoffEnds
  BY <1>4 DEF ConnectJoins, ConnectGivesUp, HandoffEnds
<1> QED
  BY <1>1, <1>2, <1>3, <1>4 DEF ConnectDecides

LEMMA WritePhase ==
    ASSUME ConnectWrites, Phases
    PROVE  Phases'
<1> USE DEF Write, AfterEnd, ProcessStep, Phases
<1>1. CASE WriteKept \/ WriteDelay \/ WriteStart \/ WriteBegun \/ WriteConfigured
  BY <1>1 DEF WriteKept, WriteDelay, WriteStart, WriteBegun, WriteConfigured
<1>2. CASE WriteRefused
  BY <1>2 DEF WriteRefused
<1>3. CASE WriteAddress \/ WriteHandoff
  BY <1>3 DEF WriteAddress, WriteHandoff
<1>4. CASE FinalizeSuccess
  BY <1>4 DEF FinalizeSuccess
<1> QED
  BY <1>1, <1>2, <1>3, <1>4 DEF ConnectWrites

\* Outside the machine there is nothing to say of a phase.
LEMMA OutsideMachine ==
    ASSUME pc' \notin Machine
    PROVE  Phases' /\ StillSeen'
BY DEF Machine, Reacting, Phases, StillSeen

LEMMA OtherStepMoves ==
    ASSUME \/ BeginProcess \/ StationIdle \/ PortalExits \/ PortalStays \/ ConnectShutsDown
           \/ SessionCall \/ Associates \/ LosesLink
    PROVE  pc' \notin Machine /\ opt' = opt
BY PositionsHave
   DEF BeginProcess, StationIdle, PortalExits, PortalStays, ConnectShutsDown, ProcessStep,
       SessionCall, StartConfigPortal, StopConfigPortal, StartWebPortal, StopWebPortal,
       ApplicationCall, Associates, LosesLink, RadioRuns

LEMMA PhasesStep ==
    ASSUME Phases, [Next]_vars
    PROVE  Phases'
<1>1. CASE Save
  BY <1>1 DEF Save, QueuePortalConnect, Request, Phases
<1>2. CASE OtherRequest \/ UNCHANGED vars
  BY <1>2 DEF OtherRequest, RequestExit, RequestClose, Request, connectVars, vars, deviceVars,
              portalVars, Phases
<1>3. CASE \/ BeginProcess \/ StationIdle \/ PortalExits \/ PortalStays \/ ConnectShutsDown
           \/ SessionCall \/ Associates \/ LosesLink
  BY <1>3, OtherStepMoves, OutsideMachine
<1> QED
  BY <1>1, <1>2, <1>3, DecidePhase, BeginPhase, WritePhase
     DEF Next, OtherStep, Process, ProcessPortalConnect, ConnectReacts

\* A step that leaves the machine, and the phase or one that nothing is known of.
LEMMA OtherPhase ==
    ASSUME Undisturbed, pc' \notin Machine,
           \/ cp' \notin {"delaying", "starting", "waiting", "success_waiting_close"}
           \/ UNCHANGED <<cp, cpSsid, stationIp, opt, radioVars>>
    PROVE  Undisturbed'
<1>1. StillSeen' /\ pc' # "begun"
  BY OutsideMachine DEF Machine, Reacting
<1>2. SaveHasNetwork' /\ OnlyThisNetwork' /\ AddressKept'
  BY <1>1 DEF Undisturbed, SaveHasNetwork, OnlyThisNetwork, AddressKept, radioVars
<1> QED
  BY <1>1, <1>2 DEF Undisturbed

\* A shutdown ends the save, or changes neither the save nor the driver.
LEMMA ShutdownPhase ==
    ASSUME Undisturbed, NEW web \in {webActive, FALSE}, Shutdown(web), pc' \notin Machine,
           cp' = CpAfterShutdown(cp, web), UNCHANGED <<cpSsid, stationIp, opt>>
    PROVE  Undisturbed'
<1>1. CASE configActive /\ ~web /\ cp \in InFlight
  <2>1. cp' = "idle"
    BY <1>1 DEF CpAfterShutdown
  <2> QED
    BY <2>1, OtherPhase
<1>2. CASE cp \notin InFlight
  <2>1. cp' = cp /\ cp' \notin {"delaying", "starting", "waiting"}
    BY <1>2 DEF CpAfterShutdown, InFlight
  <2>2. StillSeen' /\ pc' # "begun"
    BY OutsideMachine DEF Machine, Reacting
  <2> QED
    BY <2>1, <2>2 DEF Undisturbed, SaveHasNetwork, OnlyThisNetwork, AddressKept
<1>3. CASE ~(configActive /\ ~web) /\ cp \in InFlight
  <2>1. cp' = cp /\ UNCHANGED radioVars
    BY <1>3 DEF CpAfterShutdown, Shutdown
  <2> QED
    BY <2>1, OtherPhase
<1> QED
  BY <1>1, <1>2, <1>3

LEMMA DecideSees ==
    ASSUME Undisturbed, ConnectDecides
    PROVE  Undisturbed'
<1>1. UNCHANGED <<cp, cpSsid, stationIp, opt, target, link, config>> /\ pc' # "begun"
      /\ pc' \notin {"addressed", "configured"}
  BY DEF ConnectDecides, ConnectRests, ConnectQueued, DelayEnds, ConnectBegins, ConnectJoins,
         ConnectGivesUp, HandoffEnds, Decide, ProcessStep, connectVars, radioVars
<1>2. StillSeen'
  <2> USE <1>1 DEF Decide, ProcessStep, StillSeen, Usable, Reacting
  <2>1. CASE ConnectRests
    BY <2>1 DEF ConnectRests
  <2>2. CASE ConnectQueued
    BY <2>2 DEF ConnectQueued
  <2>3. CASE DelayEnds \/ ConnectBegins
    BY <2>3 DEF DelayEnds, ConnectBegins
  <2>4. CASE ConnectJoins \/ ConnectGivesUp \/ HandoffEnds
    BY <2>4 DEF ConnectJoins, ConnectGivesUp, HandoffEnds
  <2> QED
    BY <2>1, <2>2, <2>3, <2>4 DEF ConnectDecides
<1> QED
  BY <1>1, <1>2 DEF Undisturbed, SaveHasNetwork, OnlyThisNetwork, AddressKept

LEMMA BeginSees ==
    ASSUME Phases, Undisturbed, BeginSucceeds \/ BeginFails
    PROVE  Undisturbed'
<1>1. /\ UNCHANGED <<cp, cpSsid, stationIp, opt>> /\ cp = "starting" /\ cpSsid # None
      /\ pc' \in {"begun", "configured", "refused"}
      /\ pc' = "begun" => opt.connectOnSave /\ WiFiBegin(cpSsid)
      /\ pc' = "configured" => ~opt.connectOnSave
  BY DEF BeginSucceeds, BeginFails, ProcessStep, connectVars, Phases, Undisturbed, StillSeen,
         SaveHasNetwork, Reacting
<1>2. StillSeen'
  BY <1>1 DEF StillSeen
<1> QED
  BY <1>1, <1>2 DEF Undisturbed, SaveHasNetwork, OnlyThisNetwork, AddressKept, WiFiBegin

LEMMA WriteSees ==
    ASSUME Phases, Undisturbed, ConnectWrites
    PROVE  Undisturbed'
<1> USE DEF Write, ProcessStep, radioVars
<1>1. CASE WriteKept \/ WriteConfigured \/ WriteRefused \/ FinalizeSuccess
  <2>1. cp' \in {"success", "failed"} /\ pc' \in {"exit", "shutdown"}
    BY <1>1 DEF WriteKept, WriteConfigured, WriteRefused, FinalizeSuccess, AfterEnd
  <2> QED
    BY <2>1 DEF Undisturbed, StillSeen, SaveHasNetwork, OnlyThisNetwork, AddressKept, Reacting
<1>2. CASE WriteDelay \/ WriteStart \/ WriteBegun
  <2>1. /\ cp' \in {"delaying", "starting", "waiting"} /\ pc' = "exit"
        /\ UNCHANGED <<cpSsid, stationIp, opt, target, link, config>>
        /\ cp' = "waiting" => pc = "begun"
    BY <1>2 DEF WriteDelay, WriteStart, WriteBegun
  <2>2. cpSsid # None
    BY <1>2 DEF WriteDelay, WriteStart, WriteBegun, Phases, Undisturbed, StillSeen,
                SaveHasNetwork, Reacting
  <2> QED
    BY <2>1, <2>2 DEF Undisturbed, StillSeen, SaveHasNetwork, OnlyThisNetwork, AddressKept,
                      Reacting
<1>3. CASE WriteAddress
  BY <1>3 DEF WriteAddress, Undisturbed, StillSeen, SaveHasNetwork, OnlyThisNetwork,
              AddressKept, Usable, Reacting
<1>4. CASE WriteHandoff
  BY <1>4 DEF WriteHandoff, Undisturbed, StillSeen, SaveHasNetwork, OnlyThisNetwork,
              AddressKept, Reacting
<1> QED
  BY <1>1, <1>2, <1>3, <1>4 DEF ConnectWrites

LEMMA OtherStepSees ==
    ASSUME Undisturbed,
           \/ BeginProcess \/ StationIdle \/ PortalExits \/ PortalStays \/ ConnectShutsDown
           \/ SessionCall \/ OtherRequest \/ Associates \/ LosesLink \/ UNCHANGED vars
    PROVE  Undisturbed'
<1>1. CASE BeginProcess \/ StationIdle \/ PortalStays \/ StartWebPortal
  <2>1. pc' \notin Machine /\ opt' = opt
    BY <1>1, OtherStepMoves DEF SessionCall
  <2> QED
    BY <1>1, <2>1, OtherPhase
       DEF BeginProcess, StationIdle, PortalStays, StartWebPortal, connectVars
<1>2. CASE StartConfigPortal
  <2>1. pc' \notin Machine /\ cp' = "idle"
    BY <1>2, OtherStepMoves
       DEF SessionCall, StartConfigPortal, OpenConfigPortal, OpenSession
  <2> QED
    BY <2>1, OtherPhase
<1>3. CASE PortalExits \/ StopConfigPortal \/ StopWebPortal \/ ConnectShutsDown
  <2>1. pc' \notin Machine /\ opt' = opt
    BY <1>3, OtherStepMoves DEF SessionCall
  <2> QED
    BY <1>3, <2>1, ShutdownPhase
       DEF PortalExits, StopConfigPortal, StopWebPortal, ConnectShutsDown
<1>4. CASE OtherRequest \/ UNCHANGED vars
  BY <1>4
     DEF OtherRequest, RequestExit, RequestClose, Request, connectVars, radioVars, vars,
         deviceVars, portalVars, Undisturbed, StillSeen, SaveHasNetwork, OnlyThisNetwork,
         AddressKept, Usable
<1>5. CASE Associates \/ LosesLink
  <2>1. pc' = "loop" /\ UNCHANGED <<cp, cpSsid, stationIp, opt, pc>>
    BY <1>5 DEF Associates, LosesLink, RadioRuns, connectVars
  <2>2. StillSeen'
    BY <2>1 DEF StillSeen, Reacting
  <2>3. SaveHasNetwork' /\ AddressKept'
    BY <2>1 DEF Undisturbed, SaveHasNetwork, AddressKept
  <2>4. OnlyThisNetwork'
    BY <1>5, <2>1 DEF Undisturbed, OnlyThisNetwork, Associates, LosesLink, Join, Drop
  <2> QED
    BY <2>2, <2>3, <2>4 DEF Undisturbed
<1> QED
  BY <1>1, <1>2, <1>3, <1>4, <1>5 DEF SessionCall

LEMMA ReportInvStep ==
    ASSUME ReportInv, [Next]_vars
    PROVE  ReportInv'
<1>1. PortalInv' /\ Phases'
  BY StepPreserves, PhasesStep DEF ReportInv, Preserved
<1>2. ASSUME ~overtaking' PROVE Undisturbed'
  <2>1. CASE Save
    <3>1. pc' \notin Reacting /\ cp' = "queued"
      BY <1>2, <2>1 DEF Save, QueuePortalConnect, Request
    <3> QED
      BY <3>1 DEF Undisturbed, StillSeen, SaveHasNetwork, OnlyThisNetwork, AddressKept, Reacting
  <2>2. CASE ~Save
    <3>1. Undisturbed /\ Phases
      BY <1>2, <2>2 DEF ReportInv, Next, vars
    <3> QED
      BY <2>2, <3>1, DecideSees, BeginSees, WriteSees, OtherStepSees
         DEF Next, OtherStep, Process, ProcessPortalConnect, ConnectReacts
  <2> QED
    BY <2>1, <2>2
<1> QED
  BY <1>1, <1>2 DEF ReportInv

LEMMA ReportInvStarts ==
    ASSUME Init
    PROVE  ReportInv
<1>1. PortalInv
  BY PortalStarts
<1> QED
  BY <1>1 DEF ReportInv, Init, PortalInit, Phases, Undisturbed, StillSeen, SaveHasNetwork,
              OnlyThisNetwork, AddressKept, Reacting

\* The inductive invariant of a save: its phase while process() reacts to it, and
\* what the driver and the address have to do with it.
THEOREM SaveInvariant == Spec => []ReportInv
<1>1. Init => ReportInv
  BY ReportInvStarts
<1>2. ReportInv /\ [Next]_vars => ReportInv'
  BY ReportInvStep
<1> QED
  BY <1>1, <1>2, PTL DEF Spec

\* The portal that waits for the browser has an address to hand over, unless a
\* save came while process() was writing that state.
THEOREM HandoffKeepsAddress == Spec => []HandoffHasAddress
<1>1. ReportInv => HandoffHasAddress
  BY DEF ReportInv, Undisturbed, AddressKept, HandoffHasAddress
<1> QED
  BY SaveInvariant, <1>1, PTL

----
(* The steps, seen from outside                                             *)

LEMMA SaveStates ==
    /\ cp \in InFlight => SaveState = "pending"
    /\ cp \in {"success", "success_waiting_close"} => SaveState = "success"
    /\ cp \notin InFlight /\ cp # "success_waiting_close" => SaveState = cp
    /\ cp' \in InFlight => SaveState' = "pending"
    /\ cp' \in {"success", "success_waiting_close"} => SaveState' = "success"
    /\ cp' \notin InFlight /\ cp' # "success_waiting_close" => SaveState' = cp'
BY DEF SaveState, InFlight

\* A write settles the save, records its address, or cannot be seen.
LEMMA WriteSeen ==
    ASSUME Phases, Undisturbed, ConnectWrites
    PROVE  \/ Outside!Addresses \/ Outside!Joins \/ Outside!Keeps \/ Outside!Fails
           \/ UNCHANGED <<SaveState, cpSsid, stationIp>>
<1> USE DEF Write, ProcessStep, radioVars
<1>1. cpSsid' = cpSsid /\ opt' = opt /\ link' = link
  BY DEF ConnectWrites, WriteKept, WriteDelay, WriteStart, WriteBegun, WriteConfigured,
         WriteRefused, WriteAddress, WriteHandoff, FinalizeSuccess
<1>2. CASE WriteKept
  <2>1. SaveState = "pending" /\ cpSsid = None /\ SaveState' = "success" /\ stationIp' = FALSE
    BY <1>2, SaveStates DEF WriteKept, Phases, Undisturbed, StillSeen, InFlight
  <2> QED
    BY <1>1, <2>1 DEF Outside!Keeps, Outside!Pending
<1>3. CASE WriteDelay \/ WriteStart \/ WriteBegun
  <2>1. SaveState = "pending" /\ SaveState' = "pending" /\ stationIp' = stationIp
    BY <1>3, SaveStates DEF WriteDelay, WriteStart, WriteBegun, Phases, InFlight
  <2> QED
    BY <1>1, <2>1
<1>4. CASE WriteConfigured
  <2>1. /\ SaveState = "pending" /\ SaveState' = "success" /\ stationIp' = FALSE
        /\ ~opt.connectOnSave
    BY <1>4, SaveStates DEF WriteConfigured, Phases, Undisturbed, StillSeen, InFlight
  <2> QED
    BY <1>1, <2>1 DEF Outside!Keeps, Outside!Pending
<1>5. CASE WriteRefused
  <2>1. SaveState = "pending" /\ SaveState' = "failed" /\ stationIp' = FALSE
    BY <1>5, SaveStates DEF WriteRefused, Phases, InFlight
  <2>2. cpSsid # None
    BY <1>5 DEF WriteRefused, Phases, Undisturbed, StillSeen, SaveHasNetwork, Reacting
  <2> QED
    BY <1>1, <2>1, <2>2 DEF Outside!Fails, Outside!Pending
<1>6. CASE WriteAddress \/ WriteHandoff \/ (FinalizeSuccess /\ pc = "addressed")
  <2>1. cp = "waiting" /\ Usable
    BY <1>6 DEF WriteAddress, WriteHandoff, Phases, Undisturbed, StillSeen, Reacting
  <2>2. SaveState = "pending" /\ cpSsid # None /\ opt.connectOnSave /\ link = cpSsid
    BY <2>1, SaveStates DEF InFlight, Undisturbed, SaveHasNetwork, OnlyThisNetwork, Usable
  <2>3. CASE WriteAddress
    <3>1. SaveState' = "pending" /\ stationIp' = TRUE
      BY <2>1, <2>3, SaveStates DEF WriteAddress, InFlight
    <3> QED
      BY <1>1, <2>2, <3>1 DEF Outside!Addresses, Outside!OnTheNetwork, Outside!Pending
  <2>4. CASE WriteHandoff \/ (FinalizeSuccess /\ pc = "addressed")
    <3>1. SaveState' = "success" /\ stationIp /\ stationIp' = stationIp
      BY <2>4, SaveStates DEF WriteHandoff, FinalizeSuccess, Undisturbed, StillSeen
    <3> QED
      BY <1>1, <2>2, <3>1 DEF Outside!Joins, Outside!OnTheNetwork, Outside!Pending
  <2> QED
    BY <1>6, <2>3, <2>4
<1>7. CASE FinalizeSuccess /\ pc # "addressed"
  <2>1. cp = "success_waiting_close"
    BY <1>7 DEF FinalizeSuccess, Phases, Undisturbed, StillSeen, Reacting
  <2>2. SaveState' = SaveState /\ stationIp' = stationIp
    BY <1>7, <2>1, SaveStates DEF FinalizeSuccess
  <2> QED
    BY <1>1, <2>2
<1> QED
  BY <1>2, <1>3, <1>4, <1>5, <1>6, <1>7 DEF ConnectWrites

\* Everything else submits a save, forgets one, or cannot be seen.
LEMMA OtherStepSeen ==
    ASSUME \/ BeginProcess \/ StationIdle \/ PortalExits \/ PortalStays
           \/ ConnectDecides \/ BeginSucceeds \/ BeginFails \/ ConnectShutsDown
           \/ SessionCall \/ Save \/ OtherRequest \/ Associates \/ LosesLink \/ UNCHANGED vars
    PROVE  \/ Outside!Submit \/ Outside!Forgets
           \/ UNCHANGED <<SaveState, cpSsid, stationIp>>
<1>1. cp' = "idle" => SaveState' = "idle"
  BY SaveStates DEF InFlight
<1>2. CASE UNCHANGED connectVars
  BY <1>2 DEF connectVars, SaveState
<1>3. CASE Save
  <2>1. PICK n \in Network \cup {None} : cpSsid' = n
    BY <1>3 DEF Save, QueuePortalConnect
  <2>2. SaveState' = "pending" /\ stationIp' = FALSE
    BY <1>3, SaveStates DEF Save, QueuePortalConnect, InFlight
  <2> QED
    BY <2>1, <2>2 DEF Outside!Submit
<1>4. CASE StartConfigPortal
  BY <1>1, <1>4 DEF StartConfigPortal, OpenConfigPortal, OpenSession, Outside!Forgets
<1>5. CASE PortalExits \/ StopConfigPortal \/ StopWebPortal \/ ConnectShutsDown
  <2>1. cp' \in {cp, "idle"} /\ UNCHANGED <<cpSsid, stationIp>>
    BY <1>5 DEF PortalExits, StopConfigPortal, StopWebPortal, ConnectShutsDown, CpAfterShutdown
  <2> QED
    BY <1>1, <2>1 DEF Outside!Forgets, SaveState
<1>6. CASE ConnectDecides \/ BeginSucceeds \/ BeginFails
  BY <1>2, <1>6, DecidesLooks DEF BeginSucceeds, BeginFails
<1> QED
  BY <1>2, <1>3, <1>4, <1>5, <1>6
     DEF BeginProcess, StationIdle, PortalStays, SessionCall, StartWebPortal, OtherRequest,
         RequestExit, RequestClose, Associates, LosesLink, RadioRuns, vars, deviceVars, portalVars

LEMMA StepSeen ==
    ASSUME ReportInv, ~overtaking, [Next]_vars
    PROVE  [Outside!Next]_<<SaveState, cpSsid, stationIp>>
<1>1. Phases /\ Undisturbed
  BY DEF ReportInv
<1> QED
  BY <1>1, WriteSeen, OtherStepSeen
     DEF Next, OtherStep, Process, ProcessPortalConnect, ConnectReacts, Outside!Next

LEMMA SeenFromTheStart ==
    ASSUME Init
    PROVE  Outside!Init
BY DEF Init, PortalInit, Outside!Init, SaveState, InFlight

\* What a save is reported as, wherever the handlers run: joined only on the
\* network submitted last, and settled once; a save that came into the midst of
\* process()'s reaction to the one before it is excepted.
THEOREM SavesAreReported == Spec => SaveReported
<1>1. ReportInv /\ [Next]_vars =>
        [overtaking \/ Outside!Next]_<<SaveState, cpSsid, stationIp>>
  BY StepSeen
<1> QED
  BY SaveInvariant, SeenFromTheStart, <1>1, PTL DEF Spec, SaveReported

\* Handlers that run in the loop task never come into the midst of a reaction.
THEOREM NoOvertaking ==
    ASSUME Preemptive = FALSE
    PROVE  Spec => []~overtaking
<1>1. Init => ~overtaking
  BY DEF Init
<1>2. ~overtaking /\ [Next]_vars => ~overtaking'
  BY DEF Next, Save, QueuePortalConnect, Request, Reacting, vars
<1> QED
  BY <1>1, <1>2, PTL DEF Spec

\* There every save is reported as SaveReport promises, without an exception.
THEOREM EverySaveIsReported ==
    ASSUME Preemptive = FALSE
    PROVE  Spec => Outside!Spec
<1>1. ReportInv /\ ~overtaking /\ [Next]_vars =>
        [Outside!Next]_<<SaveState, cpSsid, stationIp>>
  BY StepSeen
<1> QED
  BY SaveInvariant, NoOvertaking, SeenFromTheStart, <1>1, PTL DEF Spec, Outside!Spec

----
(* The page: the invariant                                                  *)

\* Every run and every view load was paid for by a call or a move.
Bounded ==
    /\ runs <= calls
    /\ post = "accepted" => runs < calls
    /\ \A v \in Loaded : loads[v] <= moves + 1

\* A save is sent, or polled for, or handed off, one after the other; a page
\* that does none of it has its form, or lost it to a view.
OneActivity ==
    /\ current # 0 =>
         /\ saving /\ post = "none" /\ ack = "none" /\ current <= runs
         /\ timer \/ flight[current] # "none"
    /\ timer => current # 0
    /\ post # "none" => saving /\ ack = "none"
    /\ ack # "none" => saving /\ told = "success"
    /\ saving => post # "none" \/ ack # "none" \/ current # 0 \/ abandoned
    /\ at = "station" => ~saving

\* As long as the page waits for an answer, the device is where the outcome of
\* the page's save, if it still has one, has left it.
DeviceAgrees ==
    post = "accepted" \/ current # 0 =>
        /\ outcome # "none"
        /\ outcome = "pending" => cp \in InFlight \cup {"idle"}
        /\ outcome = "success" => cp \in Succeeded \cup {"idle"}
        /\ outcome = "failed" => cp \in {"failed", "idle"}

\* An answer to the run that counts, and the hand-off, are about that outcome.
AnswersAgree ==
    /\ ack # "none" => outcome \in {"success", "other"}
    /\ current # 0 /\ flight[current] \in {"success", "joined"} => outcome \in {"success", "other"}
    /\ current # 0 /\ flight[current] = "failed" => outcome \in {"failed", "other"}

PageInv ==
    /\ PortalInv
    /\ Phases
    /\ PageTypeOK
    /\ Bounded
    /\ OneActivity
    /\ DeviceAgrees
    /\ AnswersAgree

----
(* The steps of the device                                                  *)

\* A save that has ended stays as it is, or is forgotten with its session,
\* until the next one is queued.
LEMMA EndedSaveStays ==
    ASSUME Phases, OtherStep
    PROVE  /\ cp \in Succeeded \cup {"idle"} => cp' \in Succeeded \cup {"idle"}
           /\ cp \in {"failed", "idle"} => cp' \in {"failed", "idle"}
<1> DEFINE Stays == /\ cp \in Succeeded \cup {"idle"} => cp' \in Succeeded \cup {"idle"}
                    /\ cp \in {"failed", "idle"} => cp' \in {"failed", "idle"}
<1>1. cp' \in {cp, "idle"} => Stays
  BY DEF Succeeded
<1>2. CASE ConnectWrites
  BY <1>2
     DEF ConnectWrites, WriteKept, WriteDelay, WriteStart, WriteBegun, WriteConfigured,
         WriteRefused, WriteAddress, WriteHandoff, FinalizeSuccess, Write, ProcessStep,
         Phases, Succeeded
<1>3. CASE ConnectDecides \/ BeginSucceeds \/ BeginFails \/ ConnectShutsDown
  BY <1>1, <1>3, DecidesLooks
     DEF BeginSucceeds, BeginFails, ConnectShutsDown, connectVars, CpAfterShutdown
<1>4. CASE BeginProcess \/ StationIdle \/ PortalExits \/ PortalStays
  BY <1>1, <1>4
     DEF BeginProcess, StationIdle, PortalExits, PortalStays, connectVars, CpAfterShutdown
<1>5. CASE SessionCall
  BY <1>1, <1>5
     DEF SessionCall, StartConfigPortal, OpenConfigPortal, OpenSession, StopConfigPortal,
         StartWebPortal, StopWebPortal, connectVars, CpAfterShutdown
<1>6. CASE OtherRequest \/ Associates \/ LosesLink
  BY <1>1, <1>6
     DEF OtherRequest, RequestExit, RequestClose, Associates, LosesLink, RadioRuns, connectVars
<1> QED
  BY <1>2, <1>3, <1>4, <1>5, <1>6
     DEF OtherStep, Process, ProcessPortalConnect, ConnectReacts

\* Calls are counted, never taken back.
LEMMA CallsGrow ==
    ASSUME PortalInv, [Next]_vars
    PROVE  calls' \in Nat /\ calls <= calls'
<1>1. calls \in Nat
  BY Before, PortalAssumption DEF PortalAssumption
<1>2. Count => calls' = calls + 1
  BY DEF Count
<1>3. calls' = calls \/ Count
  <2>1. CASE ProcessPortalConnect
    BY <2>1, ConnectMoves
  <2> QED
    BY <2>1
       DEF Next, OtherStep, Process, Save, OtherRequest, BeginProcess, StationIdle, ProcessStep,
           PortalExits, PortalStays, SessionCall, StartConfigPortal, StopConfigPortal,
           StartWebPortal, StopWebPortal, ApplicationCall, RequestExit, RequestClose,
           QueuePortalConnect, Request, Associates, LosesLink, vars, deviceVars, portalVars
<1> QED
  BY <1>1, <1>2, <1>3

\* The device acts: the page only learns of it later.
LEMMA DevicePreserves ==
    ASSUME PageInv, DeviceActs
    PROVE  PageInv'
<1>1. Next
  BY DEF DeviceActs, OtherSave, Next
<1>2. PortalInv' /\ Phases' /\ cp' \in CpStates
  BY <1>1, StepPreserves, PhasesStep
     DEF PageInv, Preserved, PortalInv, TypeOK, PortalTypeOK, SessionTypeOK
<1>3. calls' \in Nat /\ calls <= calls' /\ calls \in Nat
  BY <1>1, CallsGrow, Before, PortalAssumption DEF PageInv, PortalAssumption
<1>4. UNCHANGED <<at, view, loads, moves, saving, post, runs, current, flight, timer, ack, attempt,
                  told, abandoned>>
  BY DEF DeviceActs, viewVars, pollVars, handoffVars
<1>5. Bounded'
  <2>1. runs \in Nat
    BY DEF PageInv, PageTypeOK
  <2> QED
    BY <1>3, <1>4, <2>1 DEF PageInv, Bounded
<1>6. OneActivity'
  BY <1>4 DEF PageInv, OneActivity
<1>7. /\ outcome' \in {"none", "pending", "success", "failed", "other"}
      /\ DeviceAgrees' /\ AnswersAgree'
  <2>1. CASE OtherSave
    <3>1. outcome' = IF outcome = "none" THEN "none" ELSE "other"
      BY <2>1 DEF OtherSave
    <3> QED
      BY <1>4, <3>1 DEF PageInv, DeviceAgrees, AnswersAgree
  <2>2. CASE OtherStep /\ Follows
    <3>1. /\ cp \in Succeeded \cup {"idle"} => cp' \in Succeeded \cup {"idle"}
          /\ cp \in {"failed", "idle"} => cp' \in {"failed", "idle"}
      BY <2>2, EndedSaveStays DEF PageInv
    <3>2. \/ outcome = "pending" /\ cp' \in Succeeded /\ outcome' = "success"
          \/ outcome = "pending" /\ cp' = "failed" /\ outcome' = "failed"
          \/ outcome = "pending" /\ cp' \in InFlight \cup {"idle"} /\ outcome' = "pending"
          \/ outcome # "pending" /\ outcome' = outcome
      BY <1>2, <2>2 DEF Follows, CpStates, Succeeded
    <3> QED
      BY <1>4, <3>1, <3>2 DEF PageInv, PageTypeOK, DeviceAgrees, AnswersAgree
  <2> QED
    BY <2>1, <2>2 DEF DeviceActs
<1>8. PageTypeOK'
  BY <1>4, <1>7 DEF PageInv, PageTypeOK
<1> QED
  BY <1>2, <1>5, <1>6, <1>7, <1>8 DEF PageInv

----
(* The steps of the page: its views                                         *)

\* What the invariant says of the page, in the form the steps need.
LEMMA PageBefore ==
    ASSUME PageInv
    PROVE  /\ PortalInv /\ Phases /\ PageTypeOK /\ Bounded /\ OneActivity
           /\ DeviceAgrees /\ AnswersAgree
           /\ MaxMoves \in Nat /\ MaxCalls \in Nat /\ calls \in 0 .. MaxCalls
           /\ runs \in Nat /\ current \in Nat /\ moves \in 0 .. MaxMoves
           /\ loads \in [Loaded -> 0 .. MaxMoves + 1]
           /\ flight \in [Runs -> {"none", "sent"} \cup Reports]
           /\ current # 0 => current \in Runs
BY PageAssumption, PortalAssumption, Before
   DEF PageInv, PageTypeOK, Runs, PageAssumption, PortalAssumption

\* The page alone acts: the device stays as it is.
LEMMA DeviceAside ==
    ASSUME PageInv, UNCHANGED vars
    PROVE  /\ PortalInv' /\ Phases' /\ calls' = calls /\ cp' = cp /\ calls' \in 0 .. MaxCalls
BY PageBefore, StepPreserves, PhasesStep DEF Preserved, vars, deviceVars, portalVars, connectVars

\* A page that has just been loaded, or left, runs nothing.
LEMMA FreshPreserves ==
    ASSUME PageInv, UNCHANGED vars, Fresh,
           at' \in {"portal", "station"}, view' \in Views,
           moves' \in 0 .. MaxMoves, loads' \in [Loaded -> 0 .. 1]
    PROVE  PageInv'
<1>1. /\ PortalInv' /\ Phases' /\ calls' \in 0 .. MaxCalls
  BY DeviceAside
<1>2. PageTypeOK'
  <2>1. flight' \in [Runs -> {"none", "sent"} \cup Reports]
    BY DEF Fresh
  <2>2. loads' \in [Loaded -> 0 .. MaxMoves + 1]
    BY PageBefore
  <2>3. saving' \in BOOLEAN /\ timer' \in BOOLEAN /\ abandoned' \in BOOLEAN
    BY DEF Fresh
  <2> QED
    BY <2>1, <2>2, <2>3, PageBefore DEF Fresh, PageTypeOK
<1>3. Bounded'
  BY <1>1, PageBefore DEF Fresh, Bounded
<1>4. OneActivity' /\ DeviceAgrees' /\ AnswersAgree'
  BY DEF Fresh, OneActivity, DeviceAgrees, AnswersAgree
<1> QED
  BY <1>1, <1>2, <1>3, <1>4 DEF PageInv

\* A view is rendered: whatever was polled is not any more.
LEMMA SetViewPreserves ==
    ASSUME PageInv, UNCHANGED vars, NEW v \in Views, SetView(v),
           moves' \in moves .. MaxMoves,
           loads' \in [Loaded -> 0 .. MaxMoves + 1],
           \A l \in Loaded : loads'[l] <= moves' + 1,
           UNCHANGED <<post, ack, attempt, told, outcome>>
    PROVE  PageInv'
<1>1. /\ PortalInv' /\ Phases' /\ calls' = calls /\ cp' = cp
  BY DeviceAside
<1>2. /\ view' = v /\ current' = 0 /\ timer' = FALSE /\ abandoned' = (abandoned \/ current # 0)
      /\ UNCHANGED <<at, saving, runs, flight>>
  BY DEF SetView, StopPolling
<1>3. PageTypeOK'
  <2>1. saving' \in BOOLEAN /\ timer' \in BOOLEAN /\ abandoned' \in BOOLEAN
    BY <1>2, PageBefore DEF PageTypeOK
  <2>2. /\ at' \in {"portal", "station"} /\ view' \in Views
        /\ loads' \in [Loaded -> 0 .. MaxMoves + 1] /\ moves' \in 0 .. MaxMoves
        /\ post' \in {"none", "sent", "accepted"}
        /\ runs' \in 0 .. MaxCalls /\ current' \in 0 .. MaxCalls
        /\ flight' \in [Runs -> {"none", "sent"} \cup Reports]
    BY <1>2, PageBefore DEF PageTypeOK
  <2>3. /\ ack' \in {"none", "sent", "ok", "refused", "pause", "redirect", "manual"}
        /\ attempt' \in 0 .. 2 /\ told' \in {"nothing", "success", "failed"}
        /\ outcome' \in {"none", "pending", "success", "failed", "other"}
    BY <1>2, PageBefore DEF PageTypeOK
  <2> QED
    BY <2>1, <2>2, <2>3 DEF PageTypeOK
<1>4. Bounded'
  BY <1>1, <1>2, PageBefore DEF Bounded
<1>5. OneActivity'
  BY <1>2, PageBefore DEF OneActivity
<1>6. DeviceAgrees'
  BY <1>1, <1>2, PageBefore DEF DeviceAgrees
<1>7. AnswersAgree'
  BY <1>2, PageBefore DEF AnswersAgree
<1> QED
  BY <1>1, <1>3, <1>4, <1>5, <1>6, <1>7 DEF PageInv

LEMMA NavigatePreserves ==
    ASSUME PageInv, Navigate
    PROVE  PageInv'
<1>1. /\ UNCHANGED vars /\ SetView("other") /\ moves' = moves + 1 /\ moves < MaxMoves
      /\ UNCHANGED <<post, ack, attempt, told, outcome>>
      /\ \/ loads' = loads
         \/ \E v \in Loaded : loads' = [loads EXCEPT ![v] = @ + 1]
  BY DEF Navigate, PageActs, handoffVars
<1>2. moves' \in moves .. MaxMoves
  BY <1>1, PageBefore
<1>3. /\ loads' \in [Loaded -> 0 .. MaxMoves + 1]
      /\ \A l \in Loaded : loads'[l] <= moves' + 1
  <2>1. \A l \in Loaded : loads[l] \in Nat /\ loads[l] <= moves + 1
    BY PageBefore DEF Bounded
  <2>2. CASE loads' = loads
    BY <1>1, <2>1, <2>2, PageBefore
  <2>3. ASSUME NEW v \in Loaded, loads' = [loads EXCEPT ![v] = @ + 1]
        PROVE  /\ loads' \in [Loaded -> 0 .. MaxMoves + 1]
               /\ \A l \in Loaded : loads'[l] <= moves' + 1
    BY <1>1, <2>1, <2>3, PageBefore
  <2> QED
    BY <1>1, <2>2, <2>3
<1> QED
  BY <1>1, <1>2, <1>3, SetViewPreserves DEF Views

LEMMA ViewLoadsPreserves ==
    ASSUME PageInv, NEW v \in Loaded, ViewLoads(v)
    PROVE  PageInv'
<1>1. /\ UNCHANGED vars /\ UNCHANGED <<moves, post, ack, attempt, told, outcome>>
      /\ loads[v] > 0 /\ loads' = [loads EXCEPT ![v] = @ - 1]
      /\ \/ SetView("form") \/ SetView("other")
         \/ UNCHANGED <<at, view, saving, runs, current, flight, timer, abandoned>>
  BY DEF ViewLoads, PageActs, handoffVars, pollVars
<1>2. moves' \in moves .. MaxMoves
  BY <1>1, PageBefore
<1>3. /\ loads' \in [Loaded -> 0 .. MaxMoves + 1]
      /\ \A l \in Loaded : loads'[l] <= moves' + 1
  <2>1. \A l \in Loaded : loads[l] \in 0 .. MaxMoves + 1 /\ loads[l] <= moves + 1
    BY PageBefore DEF Bounded
  <2> QED
    BY <1>1, <2>1, PageBefore
<1>4. CASE SetView("form") \/ SetView("other")
  BY <1>1, <1>2, <1>3, <1>4, SetViewPreserves DEF Views
<1>5. CASE UNCHANGED <<at, view, saving, runs, current, flight, timer, abandoned>>
  <2>1. /\ PortalInv' /\ Phases' /\ calls' = calls /\ cp' = cp
    BY <1>1, DeviceAside
  <2>2. PageTypeOK'
    BY <1>1, <1>3, <1>5, PageBefore DEF PageTypeOK
  <2>3. Bounded'
    BY <1>1, <1>3, <1>5, <2>1, PageBefore DEF Bounded
  <2>4. OneActivity' /\ DeviceAgrees' /\ AnswersAgree'
    BY <1>1, <1>5, <2>1, PageBefore DEF OneActivity, DeviceAgrees, AnswersAgree
  <2> QED
    BY <2>1, <2>2, <2>3, <2>4 DEF PageInv
<1> QED
  BY <1>1, <1>4, <1>5

LEMMA OpeningTyped ==
    Opening \subseteq [Loaded -> 0 .. 1]
BY DEF Opening

LEMMA ReloadPreserves ==
    ASSUME PageInv, Reload
    PROVE  PageInv'
<1>1. /\ UNCHANGED vars /\ Fresh /\ moves' \in 0 .. MaxMoves /\ at' = at /\ view' = "other"
  BY PageBefore DEF Reload, PageActs
<1>2. loads' \in [Loaded -> 0 .. 1]
  BY OpeningTyped DEF Reload
<1> QED
  BY <1>1, <1>2, PageBefore, FreshPreserves DEF PageTypeOK, Views

LEMMA RedirectPreserves ==
    ASSUME PageInv, Redirect
    PROVE  PageInv'
<1>1. /\ UNCHANGED vars /\ Fresh /\ moves' \in 0 .. MaxMoves /\ at' = "station" /\ view' = "other"
  BY PageBefore DEF Redirect, PageActs
<1>2. loads' \in [Loaded -> 0 .. 1]
  BY DEF Redirect
<1> QED
  BY <1>1, <1>2, FreshPreserves DEF Views

----
(* A save and the polling of its outcome                                    *)

LEMMA SubmitPreserves ==
    ASSUME PageInv, Submit
    PROVE  PageInv'
<1>1. /\ UNCHANGED vars /\ saving' = TRUE /\ abandoned' = FALSE /\ ~saving /\ at = "portal"
      /\ post' = "sent" /\ told' = "nothing" /\ outcome' = "none"
      /\ UNCHANGED <<at, view, loads, moves, runs, current, flight, timer, ack, attempt>>
  BY DEF Submit, viewVars, pollVars, handoffVars
<1>2. /\ PortalInv' /\ Phases' /\ calls' = calls /\ cp' = cp
  BY <1>1, DeviceAside
<1>3. PageTypeOK'
  BY <1>1, PageBefore DEF PageTypeOK
<1>4. Bounded'
  BY <1>1, <1>2, PageBefore DEF Bounded
<1>5. OneActivity' /\ DeviceAgrees' /\ AnswersAgree'
  BY <1>1, <1>2, PageBefore DEF OneActivity, DeviceAgrees, AnswersAgree
<1> QED
  BY <1>2, <1>3, <1>4, <1>5 DEF PageInv

LEMMA ServeSavePreserves ==
    ASSUME PageInv, ServeSave
    PROVE  PageInv'
<1>1. /\ post = "sent" /\ Save /\ post' = "accepted" /\ outcome' = "pending"
      /\ cp' = "queued" /\ calls' = calls + 1
      /\ UNCHANGED <<at, view, loads, moves, saving, runs, current, flight, timer, ack, attempt,
                     told, abandoned>>
  BY DEF ServeSave, Save, QueuePortalConnect, Request, Count, viewVars, pollVars, handoffVars
<1>2. PortalInv' /\ Phases' /\ cp' \in InFlight
  <2>1. Next
    BY <1>1 DEF Next
  <2> QED
    BY <1>1, <2>1, PageBefore, StepPreserves, PhasesStep DEF Preserved, InFlight
<1>3. PageTypeOK'
  BY <1>1, PageBefore DEF PageTypeOK
<1>4. Bounded'
  BY <1>1, PageBefore DEF Bounded
<1>5. OneActivity' /\ DeviceAgrees' /\ AnswersAgree'
  BY <1>1, <1>2, PageBefore DEF OneActivity, DeviceAgrees, AnswersAgree
<1> QED
  BY <1>2, <1>3, <1>4, <1>5 DEF PageInv

LEMMA SaveAcceptedPreserves ==
    ASSUME PageInv, SaveAccepted
    PROVE  PageInv'
<1>1. /\ UNCHANGED vars /\ post = "accepted" /\ post' = "none"
      /\ runs' = runs + 1 /\ current' = runs + 1 /\ timer' = FALSE
      /\ flight' = [flight EXCEPT ![runs + 1] = "sent"]
      /\ UNCHANGED <<at, view, loads, moves, saving, ack, attempt, told, outcome, abandoned>>
  BY DEF SaveAccepted, PageActs, viewVars, handoffVars
<1>2. /\ PortalInv' /\ Phases' /\ calls' = calls /\ cp' = cp
  BY <1>1, DeviceAside
<1>3. runs + 1 \in Runs /\ runs + 1 \in 0 .. MaxCalls /\ runs + 1 <= calls
  BY <1>1, PageBefore DEF Bounded, Runs
<1>4. flight' \in [Runs -> {"none", "sent"} \cup Reports] /\ flight'[current'] = "sent"
  BY <1>1, <1>3, PageBefore
<1>5. PageTypeOK'
  BY <1>1, <1>3, <1>4, PageBefore DEF PageTypeOK
<1>6. Bounded'
  BY <1>1, <1>2, <1>3, PageBefore DEF Bounded
<1>7. OneActivity'
  BY <1>1, <1>2, <1>4, PageBefore DEF OneActivity
<1>8. DeviceAgrees' /\ AnswersAgree'
  BY <1>1, <1>2, <1>4, PageBefore DEF DeviceAgrees, AnswersAgree, OneActivity
<1> QED
  BY <1>2, <1>5, <1>6, <1>7, <1>8 DEF PageInv

LEMMA SaveLostPreserves ==
    ASSUME PageInv, SaveLost
    PROVE  PageInv'
<1>1. /\ UNCHANGED vars /\ post # "none" /\ post' = "none"
      /\ saving' = FALSE /\ abandoned' = FALSE /\ outcome' = "none"
      /\ UNCHANGED <<at, view, loads, moves, runs, current, flight, timer, ack, attempt, told>>
  BY DEF SaveLost, FinishSave, PageActs, viewVars, pollVars, handoffVars
<1>2. /\ PortalInv' /\ Phases' /\ calls' = calls /\ cp' = cp
  BY <1>1, DeviceAside
<1>3. PageTypeOK'
  BY <1>1, PageBefore DEF PageTypeOK
<1>4. Bounded'
  BY <1>1, <1>2, PageBefore DEF Bounded
<1>5. OneActivity' /\ DeviceAgrees' /\ AnswersAgree'
  BY <1>1, <1>2, PageBefore DEF OneActivity, DeviceAgrees, AnswersAgree
<1> QED
  BY <1>2, <1>3, <1>4, <1>5 DEF PageInv

\* A step of the polling that is not about the run that counts.
LEMMA StaleFlight ==
    ASSUME PageInv, UNCHANGED vars, NEW r \in Runs, r # current,
           NEW a \in {"none", "sent"} \cup Reports,
           flight' = [flight EXCEPT ![r] = a],
           UNCHANGED <<at, view, loads, moves, saving, post, runs, current, timer, ack, attempt,
                       told, outcome, abandoned>>
    PROVE  PageInv'
<1>1. /\ PortalInv' /\ Phases' /\ calls' = calls /\ cp' = cp
  BY DeviceAside
<1>2. flight' \in [Runs -> {"none", "sent"} \cup Reports]
  BY PageBefore
<1>3. current # 0 => flight'[current] = flight[current]
  BY PageBefore
<1>4. PageTypeOK'
  BY <1>2, PageBefore DEF PageTypeOK
<1>5. Bounded'
  BY <1>1, PageBefore DEF Bounded
<1>6. OneActivity' /\ DeviceAgrees' /\ AnswersAgree'
  BY <1>1, <1>3, PageBefore DEF OneActivity, DeviceAgrees, AnswersAgree
<1> QED
  BY <1>1, <1>4, <1>5, <1>6 DEF PageInv

\* A report that says success or failure says it of the device.
LEMMA ReportTells ==
    /\ Report \in Reports
    /\ Report \in {"success", "joined"} => cp \in Succeeded
    /\ Report = "failed" => cp = "failed"
<1> USE DEF Report, Reports, Succeeded
<1>1. CASE cp = "idle"
  BY <1>1
<1>2. CASE cp \in Succeeded
  BY <1>2
<1>3. CASE cp = "failed"
  BY <1>3
<1>4. CASE cp \notin Succeeded /\ cp # "idle" /\ cp # "failed"
  BY <1>4
<1> QED
  BY <1>1, <1>2, <1>3, <1>4

LEMMA ServeStatusPreserves ==
    ASSUME PageInv, NEW r \in Runs, ServeStatus(r)
    PROVE  PageInv'
<1>1. /\ UNCHANGED vars /\ flight[r] = "sent" /\ flight' = [flight EXCEPT ![r] = Report]
      /\ UNCHANGED <<at, view, loads, moves, saving, post, runs, current, timer, ack, attempt,
                     told, outcome, abandoned>>
  BY DEF ServeStatus, Served, viewVars, handoffVars
<1>2. CASE r # current
  BY <1>1, <1>2, ReportTells, StaleFlight
<1>3. CASE r = current
  <2>1. /\ PortalInv' /\ Phases' /\ calls' = calls /\ cp' = cp
    BY <1>1, DeviceAside
  <2>2. flight' \in [Runs -> {"none", "sent"} \cup Reports] /\ flight'[current] = Report
    BY <1>1, <1>3, ReportTells, PageBefore
  <2>3. PageTypeOK'
    BY <1>1, <2>2, PageBefore DEF PageTypeOK
  <2>4. Bounded'
    BY <1>1, <2>1, PageBefore DEF Bounded
  <2>5. OneActivity'
    BY <1>1, <2>1, <2>2, ReportTells, PageBefore DEF OneActivity, Reports
  <2>6. DeviceAgrees'
    BY <1>1, <2>1, PageBefore DEF DeviceAgrees
  <2>7. AnswersAgree'
    <3>1. current # 0 => outcome \in {"pending", "success", "failed", "other"}
      BY PageBefore DEF DeviceAgrees, PageTypeOK
    <3>2. Report \in {"success", "joined"} => cp \notin InFlight \cup {"idle", "failed"}
      BY ReportTells DEF Succeeded, InFlight
    <3>3. Report = "failed" => cp \notin InFlight \cup Succeeded \cup {"idle"}
      BY ReportTells DEF Succeeded, InFlight
    <3> QED
      BY <1>1, <2>2, <3>1, <3>2, <3>3, PageBefore DEF DeviceAgrees, AnswersAgree
  <2> QED
    BY <2>1, <2>3, <2>4, <2>5, <2>6, <2>7 DEF PageInv
<1> QED
  BY <1>2, <1>3

LEMMA IgnoreStalePreserves ==
    ASSUME PageInv, NEW r \in Runs, IgnoreStale(r)
    PROVE  PageInv'
BY StaleFlight DEF IgnoreStale, Takes, PageActs, viewVars, handoffVars

LEMMA PollSettlesPreserves ==
    ASSUME PageInv, NEW r \in Runs, PollSettles(r)
    PROVE  PageInv'
<1>1. /\ UNCHANGED vars /\ r = current
      /\ flight[r] \in {"success", "failed"} /\ flight' = [flight EXCEPT ![r] = "none"]
      /\ current' = 0 /\ timer' = FALSE /\ told' = flight[r]
      /\ saving' = FALSE /\ abandoned' = FALSE /\ outcome' = "none"
      /\ UNCHANGED <<at, view, loads, moves, post, runs, ack, attempt>>
  BY DEF PollSettles, Takes, PageActs, StopPolling, FinishSave, viewVars, handoffVars
<1>2. /\ PortalInv' /\ Phases' /\ calls' = calls /\ cp' = cp
  BY <1>1, DeviceAside
<1>3. flight' \in [Runs -> {"none", "sent"} \cup Reports] /\ current # 0
  BY <1>1, PageBefore DEF Runs
<1>4. PageTypeOK'
  <2>1. saving' \in BOOLEAN /\ timer' \in BOOLEAN /\ abandoned' \in BOOLEAN
    BY <1>1, PageBefore DEF PageTypeOK
  <2>2. current' \in 0 .. MaxCalls /\ runs' \in 0 .. MaxCalls
    BY <1>1, PageBefore DEF PageTypeOK
  <2> QED
    BY <1>1, <1>3, <2>1, <2>2, PageBefore DEF PageTypeOK
<1>5. Bounded'
  BY <1>1, <1>2, PageBefore DEF Bounded
<1>6. OneActivity' /\ DeviceAgrees' /\ AnswersAgree'
  BY <1>1, <1>2, <1>3, PageBefore DEF OneActivity, DeviceAgrees, AnswersAgree
<1> QED
  BY <1>2, <1>4, <1>5, <1>6 DEF PageInv

LEMMA PollJoinedPreserves ==
    ASSUME PageInv, NEW r \in Runs, PollJoined(r)
    PROVE  PageInv'
<1>1. /\ UNCHANGED vars /\ r = current
      /\ flight[r] = "joined" /\ flight' = [flight EXCEPT ![r] = "none"]
      /\ current' = 0 /\ timer' = FALSE /\ told' = "success"
      /\ ack' = "sent" /\ attempt' = 0
      /\ UNCHANGED <<at, view, loads, moves, saving, post, runs, outcome, abandoned>>
  BY DEF PollJoined, Takes, PageActs, StopPolling, viewVars
<1>2. /\ PortalInv' /\ Phases' /\ calls' = calls /\ cp' = cp
  BY <1>1, DeviceAside
<1>3. flight' \in [Runs -> {"none", "sent"} \cup Reports] /\ current # 0
  BY <1>1, PageBefore DEF Runs
<1>4. PageTypeOK'
  <2>1. saving' \in BOOLEAN /\ timer' \in BOOLEAN /\ abandoned' \in BOOLEAN
    BY <1>1, PageBefore DEF PageTypeOK
  <2>2. current' \in 0 .. MaxCalls /\ runs' \in 0 .. MaxCalls
    BY <1>1, PageBefore DEF PageTypeOK
  <2> QED
    BY <1>1, <1>3, <2>1, <2>2, PageBefore DEF PageTypeOK
<1>5. Bounded'
  BY <1>1, <1>2, PageBefore DEF Bounded
<1>6. OneActivity' /\ DeviceAgrees' /\ AnswersAgree'
  BY <1>1, <1>2, <1>3, PageBefore DEF OneActivity, DeviceAgrees, AnswersAgree
<1> QED
  BY <1>2, <1>4, <1>5, <1>6 DEF PageInv

LEMMA PollAgainPreserves ==
    ASSUME PageInv, NEW r \in Runs, PollAgain(r)
    PROVE  PageInv'
<1>1. /\ UNCHANGED vars /\ r = current
      /\ flight' = [flight EXCEPT ![r] = "none"] /\ timer' = TRUE
      /\ UNCHANGED <<at, view, loads, moves, saving, post, runs, current, ack, attempt, told,
                     outcome, abandoned>>
  BY DEF PollAgain, Takes, PageActs, viewVars, handoffVars
<1>2. /\ PortalInv' /\ Phases' /\ calls' = calls /\ cp' = cp
  BY <1>1, DeviceAside
<1>3. /\ flight' \in [Runs -> {"none", "sent"} \cup Reports] /\ current # 0
      /\ flight'[current] = "none"
  BY <1>1, PageBefore DEF Runs
<1>4. PageTypeOK'
  <2>1. saving' \in BOOLEAN /\ timer' \in BOOLEAN /\ abandoned' \in BOOLEAN
    BY <1>1, PageBefore DEF PageTypeOK
  <2>2. current' \in 0 .. MaxCalls /\ runs' \in 0 .. MaxCalls
    BY <1>1, PageBefore DEF PageTypeOK
  <2> QED
    BY <1>1, <1>3, <2>1, <2>2, PageBefore DEF PageTypeOK
<1>5. Bounded'
  BY <1>1, <1>2, PageBefore DEF Bounded
<1>6. OneActivity' /\ DeviceAgrees' /\ AnswersAgree'
  BY <1>1, <1>2, <1>3, PageBefore DEF OneActivity, DeviceAgrees, AnswersAgree
<1> QED
  BY <1>2, <1>4, <1>5, <1>6 DEF PageInv

LEMMA PollTimerPreserves ==
    ASSUME PageInv, PollTimer
    PROVE  PageInv'
<1>1. /\ UNCHANGED vars /\ timer
      /\ flight' = [flight EXCEPT ![current] = "sent"] /\ timer' = FALSE
      /\ UNCHANGED <<at, view, loads, moves, saving, post, runs, current, ack, attempt, told,
                     outcome, abandoned>>
  BY DEF PollTimer, PageActs, viewVars, handoffVars
<1>2. /\ PortalInv' /\ Phases' /\ calls' = calls /\ cp' = cp
  BY <1>1, DeviceAside
<1>3. current # 0 /\ current \in Runs
  BY <1>1, PageBefore DEF OneActivity
<1>4. flight' \in [Runs -> {"none", "sent"} \cup Reports] /\ flight'[current] = "sent"
  BY <1>1, <1>3, PageBefore
<1>5. PageTypeOK'
  BY <1>1, <1>4, PageBefore DEF PageTypeOK
<1>6. Bounded'
  BY <1>1, <1>2, PageBefore DEF Bounded
<1>7. OneActivity' /\ DeviceAgrees' /\ AnswersAgree'
  BY <1>1, <1>2, <1>3, <1>4, PageBefore DEF OneActivity, DeviceAgrees, AnswersAgree
<1> QED
  BY <1>2, <1>5, <1>6, <1>7 DEF PageInv

LEMMA PollLostPreserves ==
    ASSUME PageInv, NEW r \in Runs, PollLost(r)
    PROVE  PageInv'
<1>1. /\ UNCHANGED vars /\ flight' = [flight EXCEPT ![r] = "none"]
      /\ UNCHANGED <<at, view, loads, moves, post, runs, ack, attempt, told>>
  BY DEF PollLost, PageActs, viewVars, handoffVars
<1>2. CASE r # current
  <2>1. UNCHANGED <<saving, current, timer, outcome, abandoned>>
    BY <1>2 DEF PollLost
  <2> QED
    BY <1>1, <1>2, <2>1, StaleFlight
<1>3. CASE r = current
  <2>1. /\ current' = 0 /\ timer' = FALSE
        /\ saving' = FALSE /\ abandoned' = FALSE /\ outcome' = "none"
    BY <1>3 DEF PollLost, StopPolling, FinishSave
  <2>2. /\ PortalInv' /\ Phases' /\ calls' = calls /\ cp' = cp
    BY <1>1, DeviceAside
  <2>3. flight' \in [Runs -> {"none", "sent"} \cup Reports] /\ current # 0
    BY <1>1, <1>3, PageBefore DEF Runs
  <2>4. PageTypeOK'
    <3>1. saving' \in BOOLEAN /\ timer' \in BOOLEAN /\ abandoned' \in BOOLEAN
      BY <2>1
    <3>2. current' \in 0 .. MaxCalls /\ runs' \in 0 .. MaxCalls
      BY <1>1, <2>1, PageBefore DEF PageTypeOK
    <3> QED
      BY <1>1, <2>1, <2>3, <3>1, <3>2, PageBefore DEF PageTypeOK
  <2>5. Bounded'
    BY <1>1, <2>1, <2>2, PageBefore DEF Bounded
  <2>6. OneActivity' /\ DeviceAgrees' /\ AnswersAgree'
    BY <1>1, <2>1, <2>2, <2>3, PageBefore DEF OneActivity, DeviceAgrees, AnswersAgree
  <2> QED
    BY <2>2, <2>4, <2>5, <2>6 DEF PageInv
<1> QED
  BY <1>2, <1>3

\* The hand-off: only its own two variables change.
LEMMA HandoffPreserves ==
    ASSUME PageInv, UNCHANGED vars, ack # "none", attempt' \in 0 .. 2,
           ack' \in {"sent", "ok", "refused", "pause", "redirect", "manual"},
           UNCHANGED <<at, view, loads, moves, saving, post, runs, current, flight, timer, told,
                       outcome, abandoned>>
    PROVE  PageInv'
<1>1. /\ PortalInv' /\ Phases' /\ calls' = calls /\ cp' = cp
  BY DeviceAside
<1>2. PageTypeOK'
  BY PageBefore DEF PageTypeOK
<1>3. Bounded'
  BY <1>1, PageBefore DEF Bounded
<1>4. OneActivity' /\ DeviceAgrees' /\ AnswersAgree'
  BY <1>1, PageBefore DEF OneActivity, DeviceAgrees, AnswersAgree
<1> QED
  BY <1>1, <1>2, <1>3, <1>4 DEF PageInv

LEMMA HandoffStepPreserves ==
    ASSUME PageInv, ServeComplete \/ HandoffAcknowledged \/ HandoffFails \/ HandoffAgain
    PROVE  PageInv'
<1>1. /\ UNCHANGED vars
      /\ UNCHANGED <<at, view, loads, moves, saving, post, runs, current, flight, timer, told,
                     outcome, abandoned>>
  BY DEF ServeComplete, Served, HandoffAcknowledged, HandoffFails, HandoffAgain, HandoffActs,
     PageActs, viewVars, pollVars
<1>2. /\ ack # "none"
      /\ ack' \in {"sent", "ok", "refused", "pause", "redirect", "manual"}
  BY DEF ServeComplete, HandoffAcknowledged, HandoffFails, HandoffAgain
<1>3. attempt' \in 0 .. 2
  BY PageBefore
     DEF PageTypeOK, ServeComplete, HandoffAcknowledged, HandoffFails, HandoffAgain
<1> QED
  BY <1>1, <1>2, <1>3, HandoffPreserves

----
(* All steps                                                                *)

LEMMA PageStutters ==
    ASSUME PageInv, UNCHANGED pageSpecVars
    PROVE  PageInv'
<1>1. /\ UNCHANGED vars
      /\ UNCHANGED <<at, view, loads, moves, saving, post, runs, current, flight, timer, ack,
                     attempt, told, outcome, abandoned>>
  BY DEF pageSpecVars, pageVars, viewVars, pollVars, handoffVars
<1>2. /\ PortalInv' /\ Phases' /\ calls' = calls /\ cp' = cp
  BY <1>1, DeviceAside
<1>3. PageTypeOK'
  BY <1>1, PageBefore DEF PageTypeOK
<1>4. Bounded' /\ OneActivity' /\ DeviceAgrees' /\ AnswersAgree'
  BY <1>1, <1>2, PageBefore DEF Bounded, OneActivity, DeviceAgrees, AnswersAgree
<1> QED
  BY <1>2, <1>3, <1>4 DEF PageInv

LEMMA PageStepPreserves ==
    ASSUME PageInv, [PageNext]_pageSpecVars
    PROVE  PageInv'
<1>1. CASE DeviceActs
  BY <1>1, DevicePreserves
<1>2. CASE Navigate \/ Reload \/ Redirect
  BY <1>2, NavigatePreserves, ReloadPreserves, RedirectPreserves
<1>3. CASE \E v \in Loaded : ViewLoads(v)
  BY <1>3, ViewLoadsPreserves
<1>4. CASE Submit \/ ServeSave \/ SaveAccepted \/ SaveLost
  BY <1>4, SubmitPreserves, ServeSavePreserves, SaveAcceptedPreserves, SaveLostPreserves
<1>5. CASE \E r \in Runs : ServeStatus(r) \/ PollActs(r)
  BY <1>5, ServeStatusPreserves, IgnoreStalePreserves, PollSettlesPreserves, PollJoinedPreserves,
     PollAgainPreserves, PollLostPreserves DEF PollActs
<1>6. CASE PollTimer
  BY <1>6, PollTimerPreserves
<1>7. CASE ServeComplete \/ HandoffAcknowledged \/ HandoffFails \/ HandoffAgain
  BY <1>7, HandoffStepPreserves
<1>8. CASE UNCHANGED pageSpecVars
  BY <1>8, PageStutters
<1> QED
  BY <1>1, <1>2, <1>3, <1>4, <1>5, <1>6, <1>7, <1>8 DEF PageNext

LEMMA PageStarts ==
    ASSUME PageInit
    PROVE  PageInv
<1>1. PortalInv
  <2>1. calls \in 0 .. MaxCalls /\ pc \in Positions /\ cp \in CpStates
    BY PortalAssumption, PositionsHave, CpStatesHave DEF PageInit, Serving, PortalAssumption
  <2>2. SessionBooleans
    BY DEF PageInit, Serving, SessionBooleans
  <2>3. TypeOK
    BY <2>1, <2>2, TypeParts DEF PageInit, Serving, RadioInit
  <2>4. ServerIffPortal
    BY <2>2 DEF PageInit, Serving, ServerIffPortal, PortalUp, SessionBooleans
  <2> QED
    BY <2>3, <2>4 DEF PortalInv
<1>4. Phases
  BY DEF PageInit, Serving, Phases
<1>2. PageTypeOK /\ Bounded
  <2>1. loads \in [Loaded -> 0 .. 1]
    BY OpeningTyped DEF PageInit
  <2>2. loads \in [Loaded -> 0 .. MaxMoves + 1]
    BY <2>1, PageAssumption DEF PageAssumption
  <2>3. MaxMoves \in Nat /\ MaxCalls \in Nat
    BY PageAssumption, PortalAssumption DEF PageAssumption, PortalAssumption
  <2>4. flight \in [Runs -> {"none", "sent"} \cup Reports]
    BY DEF PageInit
  <2>5. saving \in BOOLEAN /\ timer \in BOOLEAN /\ abandoned \in BOOLEAN
    BY DEF PageInit
  <2>6. PageTypeOK
    BY <2>2, <2>3, <2>4, <2>5 DEF PageInit, PageTypeOK, Views
  <2>7. Bounded
    BY <2>1 DEF PageInit, Serving, Bounded
  <2> QED
    BY <2>6, <2>7
<1>3. OneActivity /\ DeviceAgrees /\ AnswersAgree
  BY DEF PageInit, OneActivity, DeviceAgrees, AnswersAgree
<1> QED
  BY <1>1, <1>2, <1>3, <1>4 DEF PageInv

----
(* The theorems about the page                                              *)

\* The inductive invariant: types, one activity at a time, and answers that are
\* about the save the page waits for.
THEOREM PageInvariant == PageSpec => []PageInv
<1>1. PageInit => PageInv
  BY PageStarts
<1>2. PageInv /\ [PageNext]_pageSpecVars => PageInv'
  BY PageStepPreserves
<1> QED
  BY <1>1, <1>2, PTL DEF PageSpec

\* Types, for any networks, configurations and bounds.
THEOREM PageTypeCorrect == PageSpec => []PageTypeOK
<1>1. PageInv => PageTypeOK
  BY DEF PageInv
<1> QED
  BY PageInvariant, <1>1, PTL

\* A form stays locked while a fetch or a timer is under way, after a hand-off that
\* was given up with the user told, or after a view was rendered over the polling.
THEOREM FormWaitsForSomething == PageSpec => []LockedOnlyIfAbandoned
<1>1. PageInv => LockedOnlyIfAbandoned
  BY DEF PageInv, OneActivity, LockedOnlyIfAbandoned
<1> QED
  BY PageInvariant, <1>1, PTL

\* Which steps tell the user something, and what.
LEMMA TellsWhatItTook ==
    ASSUME [PageNext]_pageSpecVars, told' # told, told' \in {"success", "failed"}
    PROVE  /\ current \in Runs
           /\ told' = "success" => flight[current] \in {"success", "joined"}
           /\ told' = "failed" => flight[current] = "failed"
<1>1. CASE \E r \in Runs : PollSettles(r)
  BY <1>1 DEF PollSettles
<1>2. CASE \E r \in Runs : PollJoined(r)
  BY <1>2 DEF PollJoined
<1>3. \/ \E r \in Runs : PollSettles(r) \/ PollJoined(r)
      \/ told' = "nothing" \/ told' = told
  BY DEF PageNext, DeviceActs, Navigate, Reload, Fresh, ViewLoads, Submit, ServeSave,
     SaveAccepted, SaveLost, ServeStatus, PollActs, IgnoreStale, PollAgain, PollLost, PollTimer,
     ServeComplete, HandoffAcknowledged, HandoffFails, HandoffAgain, HandoffActs, Redirect,
     pageSpecVars, pageVars
<1> QED
  BY <1>1, <1>2, <1>3

\* What the user is told is what became of the save, or of one that took its place.
THEOREM UserIsToldTheOutcome == PageSpec => ToldTheOutcome
<1>1. PageInv /\ [PageNext]_pageSpecVars =>
        [told' # told /\ told' \in {"success", "failed"}
            => outcome \in {told', "other"}]_pageSpecVars
  <2> SUFFICES ASSUME PageInv, [PageNext]_pageSpecVars, told' # told,
                      told' \in {"success", "failed"}
               PROVE  outcome \in {told', "other"}
    OBVIOUS
  <2>1. /\ current # 0
        /\ told' = "success" => flight[current] \in {"success", "joined"}
        /\ told' = "failed" => flight[current] = "failed"
    BY TellsWhatItTook DEF Runs
  <2> QED
    BY <2>1, PageBefore DEF AnswersAgree
<1> QED
  BY PageInvariant, <1>1, PTL DEF PageSpec, ToldTheOutcome

\* The page leaves for the station only after a success.
THEOREM PageLeavesOnSuccess == PageSpec => LeavesOnSuccess
<1>1. PageInv /\ [PageNext]_pageSpecVars =>
         [at' # at => outcome \in {"success", "other"}]_pageSpecVars
  <2> SUFFICES ASSUME PageInv, [PageNext]_pageSpecVars, at' # at
               PROVE  outcome \in {"success", "other"}
    OBVIOUS
  <2>1. Redirect
    BY DEF PageNext, DeviceActs, Navigate, SetView, Reload, ViewLoads, Submit, ServeSave,
     SaveAccepted, SaveLost, ServeStatus, PollActs, Takes, IgnoreStale, PollSettles,
     PollJoined, PollAgain, PollLost, PollTimer, ServeComplete, HandoffAcknowledged,
     HandoffFails, HandoffAgain, HandoffActs, viewVars,
     pageSpecVars, pageVars
  <2> QED
    BY <2>1, PageBefore DEF Redirect, AnswersAgree
<1> QED
  BY PageInvariant, <1>1, PTL DEF PageSpec, LeavesOnSuccess
====
