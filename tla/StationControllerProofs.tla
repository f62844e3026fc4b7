---- MODULE StationControllerProofs ----
(***************************************************************************)
(* Proofs about the station controller: typing and the safety invariants   *)
(* about the store and the order of attempts, for both schedulings of the  *)
(* request handlers, and the owner of an attempt for handlers that run in  *)
(* the loop task.                                                          *)
(***************************************************************************)
EXTENDS StationController, TLAPS

----
(* Slots and profile sets                                                   *)

\* A slot index is a small natural number, and NoSlot is none.
LEMMA SlotBounds == Slots \subseteq 0 .. 7 /\ NoSlot \notin Slots
BY ProfileAssumption DEF ProfileAssumption, Slots, NoSlot

\* The search for the next slot finds one whenever there is one.
LEMMA FirstOfIsIn ==
    ASSUME NEW S \in SUBSET Slots, S # {}
    PROVE  FirstOf(S) \in S
<1>1. S \subseteq 0 .. 7
  BY SlotBounds
<1>2. \E s \in S : \A t \in S : s <= t
  <2>1. CASE 0 \in S
    BY <2>1, <1>1
  <2>2. CASE 0 \notin S /\ 1 \in S
    BY <2>2, <1>1
  <2>3. CASE S \cap 0 .. 1 = {} /\ 2 \in S
    BY <2>3, <1>1
  <2>4. CASE S \cap 0 .. 2 = {} /\ 3 \in S
    BY <2>4, <1>1
  <2>5. CASE S \cap 0 .. 3 = {} /\ 4 \in S
    BY <2>5, <1>1
  <2>6. CASE S \cap 0 .. 4 = {} /\ 5 \in S
    BY <2>6, <1>1
  <2>7. CASE S \cap 0 .. 5 = {} /\ 6 \in S
    BY <2>7, <1>1
  <2>8. CASE S \cap 0 .. 6 = {}
    <3>1. \A t \in S : t = 7
      BY <2>8, <1>1
    <3> QED
      BY <3>1
  <2> QED
    BY <2>1, <2>2, <2>3, <2>4, <2>5, <2>6, <2>7, <2>8, <1>1
<1> QED
  BY <1>2 DEF FirstOf

\* A cycle starts with a slot that is in use, or not at all.
LEMMA ChooseIsEnabled ==
    ASSUME NEW p \in ProfileSet, NEW b \in BOOLEAN
    PROVE  \/ Choose(p, b) = NoSlot
           \/ Choose(p, b) \in Slots /\ Enabled(p, Choose(p, b))
<1>1. EnabledSlots(p) # {} => FirstOf(EnabledSlots(p)) \in EnabledSlots(p)
  BY FirstOfIsIn DEF EnabledSlots
<1> QED
  BY <1>1 DEF Choose, Enabled, EnabledSlots

\* A valid set always has a slot to start with.
LEMMA ValidSetStarts ==
    ASSUME NEW p \in ProfileSet, NEW b \in BOOLEAN, Validate(p)
    PROVE  Choose(p, b) \in Slots /\ Enabled(p, Choose(p, b))
<1>1. 0 \in EnabledSlots(p)
  BY DEF Validate, EnabledSlots, Enabled
<1>2. FirstOf(EnabledSlots(p)) \in EnabledSlots(p)
  BY <1>1, FirstOfIsIn DEF EnabledSlots
<1> QED
  BY <1>1, <1>2 DEF Choose, Enabled, EnabledSlots

\* Remembering a slot changes nothing else of a set.
LEMMA WithLastFields ==
    ASSUME NEW p \in ProfileSet, NEW s \in Slots \cup {NoSlot}
    PROVE  /\ WithLast(p, s) \in ProfileSet
           /\ WithLast(p, s).slot = p.slot
           /\ WithLast(p, s).preferred = p.preferred
BY DEF WithLast, ProfileSet

\* The set of a fresh device is a profile set.
LEMMA EmptySetType == EmptySet \in ProfileSet
BY ProfileAssumption DEF ProfileAssumption, EmptySet, ProfileSet, Slots, Contents

\* The set a form asks for is a profile set.
LEMMA BuildType ==
    ASSUME NEW stored \in ProfileSet, NEW form \in Forms
    PROVE  BuildFromRequest(stored, form) \in ProfileSet
<1> DEFINE base  == IF Validate(stored) THEN stored ELSE EmptySet
           slots == [s \in Slots |-> IF form[s] = Keep THEN base.slot[s] ELSE form[s]]
           built == [base EXCEPT !.slot = slots, !.preferred = 0]
<1>1. base \in ProfileSet
  BY EmptySetType
<1>2. slots \in [Slots -> Contents]
  BY <1>1 DEF Forms, ProfileSet, Contents
<1>3. 0 \in Slots
  BY ProfileAssumption DEF ProfileAssumption, Slots
<1> HIDE DEF base, slots
<1>4. built \in ProfileSet
  BY <1>1, <1>2, <1>3 DEF ProfileSet
<1> HIDE DEF built
<1>5. WithLast(built, NoSlot) \in ProfileSet
  BY <1>4, WithLastFields
<1>6. BuildFromRequest(stored, form) \in {built, WithLast(built, NoSlot)}
  BY DEF BuildFromRequest, base, slots, built
<1> QED
  BY <1>4, <1>5, <1>6

\* The only form that POST /api/wifi/save refuses for its profiles is one that
\* leaves the device without a primary network, whatever the store held: an
\* invalid stored set is repaired, a forgotten slot never stays the one that
\* connected last.
THEOREM FormNeedsPrimary ==
    ASSUME NEW stored \in ProfileSet, NEW form \in Forms
    PROVE  Validate(BuildFromRequest(stored, form))
             <=> Enabled(BuildFromRequest(stored, form), 0)
<1> DEFINE base  == IF Validate(stored) THEN stored ELSE EmptySet
           slots == [s \in Slots |-> IF form[s] = Keep THEN base.slot[s] ELSE form[s]]
           built == [base EXCEPT !.slot = slots, !.preferred = 0]
           asked == BuildFromRequest(stored, form)
<1>1. base \in ProfileSet
  BY EmptySetType
<1>2. \A s \in Slots : base.slot[s] # Unterminated
  BY ProfileAssumption DEF ProfileAssumption, Validate, EmptySet
<1>3. \A s \in Slots : slots[s] # Unterminated
  <2>1. Unterminated \notin Network \cup {Disabled}
    BY ProfileAssumption DEF ProfileAssumption
  <2>2. \A s \in Slots : form[s] # Keep => form[s] \in Network \cup {Disabled}
    BY DEF Forms
  <2> QED
    BY <1>2, <2>1, <2>2
<1>4. 0 \in Slots
  BY ProfileAssumption DEF ProfileAssumption, Slots
<1> HIDE DEF base, slots
<1>5. built \in [slot : {slots}, preferred : {0}, last : Slots \cup {NoSlot}]
  BY <1>1 DEF ProfileSet
<1>6. asked \in {built, WithLast(built, NoSlot)}
  BY DEF BuildFromRequest, base, slots, built
<1>7. asked.slot = slots /\ asked.preferred = 0
  BY <1>5, <1>6 DEF WithLast
<1>8. asked.last = NoSlot \/ Enabled(asked, asked.last)
  <2>1. CASE Enabled(built, built.last)
    BY <2>1, <1>5 DEF BuildFromRequest, base, slots, built
  <2>2. CASE ~Enabled(built, built.last)
    <3>1. asked = WithLast(built, NoSlot)
      BY <2>2 DEF BuildFromRequest, base, slots, built
    <3> QED
      BY <3>1, <1>5 DEF WithLast
  <2> QED
    BY <2>1, <2>2
<1> QED
  BY <1>3, <1>4, <1>7, <1>8 DEF Validate

----
(* Type correctness                                                         *)

\* Counting a call keeps within the bound.
LEMMA CountTyping ==
    ASSUME calls \in 0 .. MaxCalls, Count
    PROVE  calls' \in 0 .. MaxCalls
BY PortalAssumption DEF PortalAssumption, Count

\* Where process() may be, and what a save may have come to.
LEMMA PositionsHave ==
    /\ {"loop", "station", "joined", "expired", "connect", "exit"} \subseteq Positions
    /\ Machine \subseteq Positions
    /\ {"kept", "delay", "start", "begin", "begun", "configured", "refused", "online",
        "addressed", "finalize", "shutdown"} \subseteq Machine
    /\ {"loop", "station", "joined", "expired", "connect", "exit"} \cap Machine = {}
BY DEF Positions, Machine, Reacting

LEMMA CpStatesHave ==
    {"idle", "queued", "delaying", "starting", "waiting", "success_waiting_close",
     "success", "failed"} \subseteq CpStates
BY DEF CpStates, InFlight

\* A step of the portal's own machine starts at "connect" or inside the machine
\* and stays in it until it is done.
LEMMA ConnectMoves ==
    ASSUME ConnectOwned \/ ProcessPortalConnect
    PROVE  /\ calls' = calls /\ opt' = opt
           /\ ConnectOwned \/ ConnectDecides => pc = "connect"
           /\ ConnectReacts => pc \in Machine
           /\ pc' \in Machine \cup {"exit"}
<1>1. CASE ConnectOwned \/ ConnectDecides
  BY <1>1, PositionsHave
     DEF ConnectOwned, ConnectDecides, ConnectRests, ConnectQueued, DelayEnds, ConnectBegins,
         ConnectJoins, ConnectGivesUp, HandoffEnds, Decide, ProcessStep, ConnectReacts,
         ConnectWrites, WriteKept, WriteDelay, WriteStart, WriteBegun, WriteConfigured,
         WriteRefused, WriteAddress, WriteHandoff, FinalizeSuccess, Write, BeginSucceeds,
         BeginFails, ConnectShutsDown
<1>2. CASE ConnectWrites
  BY <1>2, PositionsHave
     DEF ConnectWrites, WriteKept, WriteDelay, WriteStart, WriteBegun, WriteConfigured,
         WriteRefused, WriteAddress, WriteHandoff, FinalizeSuccess, Write, AfterEnd, ProcessStep,
         ConnectOwned, ConnectDecides, ConnectRests, ConnectQueued, DelayEnds, ConnectBegins,
         ConnectJoins, ConnectGivesUp, HandoffEnds, Decide
<1>3. CASE BeginSucceeds \/ BeginFails \/ ConnectShutsDown
  BY <1>3, PositionsHave
     DEF BeginSucceeds, BeginFails, ConnectShutsDown, ProcessStep, ConnectOwned, ConnectDecides,
         ConnectRests, ConnectQueued, DelayEnds, ConnectBegins, ConnectJoins, ConnectGivesUp,
         HandoffEnds, Decide
<1> QED
  BY <1>1, <1>2, <1>3 DEF ProcessPortalConnect, ConnectReacts

\* The switch only looks.
LEMMA DecidesLooks ==
    ASSUME ConnectOwned \/ ConnectDecides
    PROVE  UNCHANGED <<sessionVars, connectVars, radioVars>>
BY DEF ConnectOwned, ConnectDecides, ConnectRests, ConnectQueued, DelayEnds, ConnectBegins,
       ConnectJoins, ConnectGivesUp, HandoffEnds, Decide

\* A write gives the save a phase, and its report an address or none.
LEMMA WritesPhase ==
    ASSUME ConnectWrites
    PROVE  /\ UNCHANGED <<sessionVars, cpSsid, radioVars>>
           /\ cp' = cp \/ cp' \in {"delaying", "starting", "waiting", "success_waiting_close",
                                   "success", "failed"}
           /\ stationIp' = stationIp \/ stationIp' \in BOOLEAN
BY DEF ConnectWrites, WriteKept, WriteDelay, WriteStart, WriteBegun, WriteConfigured,
       WriteRefused, WriteAddress, WriteHandoff, FinalizeSuccess, Write

\* Steps of the portal, whoever takes them.
LEMMA PortalTyping ==
    ASSUME PortalTypeOK, RadioTypeOK, PortalStep \/ PortalCall
    PROVE  PortalTypeOK' /\ RadioTypeOK'
<1> USE DEF PortalTypeOK, StepTypeOK, SessionTypeOK, RadioTypeOK, sessionVars, connectVars,
            radioVars
<1> USE PositionsHave, CpStatesHave
<1>1. CASE BeginProcess
  <2>1. abort' \in BOOLEAN /\ abortScheduled' \in BOOLEAN
    BY <1>1 DEF BeginProcess
  <2>2. UNCHANGED <<opt, calls, configActive, webActive, server, captive, connectVars, radioVars>>
    BY <1>1 DEF BeginProcess, ProcessStep
  <2> QED
    BY <1>1, <2>1, <2>2 DEF BeginProcess, ProcessStep
<1>2. ASSUME ConnectOwned \/ ProcessPortalConnect
      PROVE  pc' \in Positions /\ UNCHANGED <<opt, calls>>
  BY <1>2, ConnectMoves
<1>3. CASE ConnectOwned \/ ConnectDecides
  BY <1>2, <1>3, DecidesLooks DEF ProcessPortalConnect
<1>4. CASE ConnectWrites
  <2>1. cp' \in CpStates /\ stationIp' \in BOOLEAN
    BY <1>4, WritesPhase
  <2> QED
    BY <1>2, <1>4, <2>1, WritesPhase DEF ProcessPortalConnect, ConnectReacts
<1>5. CASE BeginSucceeds \/ BeginFails
  <2>1. UNCHANGED <<sessionVars, connectVars>>
    BY <1>5 DEF BeginSucceeds, BeginFails
  <2>2. \/ WiFiBegin(cpSsid) \/ WiFiConfigure(cpSsid) \/ WiFiDisconnect \/ UNCHANGED radioVars
    BY <1>5 DEF BeginSucceeds, BeginFails
  <2>3. cpSsid \in Contents \cup {None}
    BY DEF Contents
  <2>4. RadioTypeOK'
    BY <2>2, <2>3 DEF WiFiBegin, WiFiConfigure, WiFiDisconnect
  <2> QED
    BY <1>2, <1>5, <2>1, <2>4 DEF ProcessPortalConnect, ConnectReacts
<1>6. CASE ConnectShutsDown
  BY <1>2, <1>6 DEF ConnectShutsDown, ProcessPortalConnect, ConnectReacts, Shutdown, CloseSession,
     WiFiReconnect, CpAfterShutdown
<1>7. CASE PortalExits
  BY <1>7 DEF PortalExits, ProcessStep, Shutdown, CloseSession, WiFiReconnect, CpAfterShutdown
<1>8. CASE PortalStays
  BY <1>8 DEF PortalStays, ProcessStep
<1>9. CASE StartConfigPortal
  BY <1>9, CountTyping DEF StartConfigPortal, ApplicationCall, OpenConfigPortal, OpenSession
<1>10. CASE StopConfigPortal
  BY <1>10, CountTyping DEF StopConfigPortal, ApplicationCall, Shutdown, CloseSession,
     WiFiReconnect, CpAfterShutdown
<1>11. CASE StartWebPortal
  BY <1>11, CountTyping DEF StartWebPortal, ApplicationCall
<1>12. CASE StopWebPortal
  BY <1>12, CountTyping DEF StopWebPortal, ApplicationCall, Shutdown, CloseSession, WiFiReconnect,
     CpAfterShutdown
<1>13. CASE RequestExit
  BY <1>13, CountTyping DEF RequestExit, Request
<1>14. CASE RequestClose
  <2>1. calls' \in 0 .. MaxCalls
    BY <1>14, CountTyping DEF RequestClose, Request
  <2>2. captive' \in BOOLEAN
    BY <1>14 DEF RequestClose
  <2>3. UNCHANGED <<opt, pc, configActive, webActive, server, abort, abortScheduled,
                    connectVars, radioVars>>
    BY <1>14 DEF RequestClose, Request
  <2> QED
    BY <2>1, <2>2, <2>3
<1>15. CASE QueuePortalConnect
  <2>1. calls' \in 0 .. MaxCalls
    BY <1>15, CountTyping DEF QueuePortalConnect, Request
  <2>2. cp' \in CpStates /\ cpSsid' \in Network \cup {None} /\ stationIp' \in BOOLEAN
    BY <1>15 DEF QueuePortalConnect
  <2>3. UNCHANGED <<opt, pc, sessionVars, radioVars>>
    BY <1>15 DEF QueuePortalConnect, Request
  <2> QED
    BY <2>1, <2>2, <2>3
<1> QED
  BY <1>1, <1>3, <1>4, <1>5, <1>6, <1>7, <1>8, <1>9, <1>10, <1>11, <1>12, <1>13, <1>14, <1>15
  DEF PortalStep, ConnectReacts, PortalCall, SessionCall

\* The position of the loop task and the count of calls.
LEMMA StepTyping ==
    ASSUME StepTypeOK,
           \/ ApplicationCall \/ Request
           \/ \E from \in Positions, to \in Positions : ProcessStep(from, to)
    PROVE  StepTypeOK'
<1>1. CASE ApplicationCall \/ Request
  <2>1. calls' \in 0 .. MaxCalls
    BY <1>1, CountTyping DEF StepTypeOK, ApplicationCall, Request
  <2> QED
    BY <1>1, <2>1 DEF StepTypeOK, ApplicationCall, Request
<1>2. CASE \E from \in Positions, to \in Positions : ProcessStep(from, to)
  BY <1>2 DEF StepTypeOK, ProcessStep
<1> QED
  BY <1>1, <1>2

\* Starting an attempt of a slot keeps the types.
LEMMA BeginTyping ==
    ASSUME NEW p \in ProfileSet, NEW slot \in Slots, NEW tried \in SUBSET Slots,
           BeginStationProfile(p, slot, tried)
    PROVE  CycleTypeOK' /\ RadioTypeOK'
<1>1. p.slot[slot] \in Contents
  BY DEF ProfileSet
<1> QED
  BY <1>1 DEF BeginStationProfile, CycleTypeOK, RadioTypeOK, WiFiBegin, States

\* ... and so does the first attempt of a cycle.
LEMMA BeginFreshTyping ==
    ASSUME NEW p \in ProfileSet, NEW slot \in Slots, BeginStationProfile(p, slot, {})
    PROVE  CycleTypeOK' /\ RadioTypeOK'
<1>1. {} \in SUBSET Slots
  OBVIOUS
<1> QED
  BY <1>1, BeginTyping

\* Opening the portal may disconnect the station.
LEMMA EnterTyping ==
    ASSUME SessionTypeOK, RadioTypeOK, EnterStationPortal
    PROVE  SessionTypeOK' /\ RadioTypeOK' /\ state' \in States
<1>1. CASE OpenConfigPortal
  BY <1>1 DEF OpenConfigPortal, OpenSession, SessionTypeOK, RadioTypeOK, CpStates,
     EnterStationPortal, States
<1>2. CASE UNCHANGED <<sessionVars, connectVars, radioVars>>
  BY <1>2 DEF sessionVars, connectVars, radioVars, SessionTypeOK, RadioTypeOK,
     EnterStationPortal, States
<1> QED
  BY <1>1, <1>2 DEF EnterStationPortal

\* Starting a cycle keeps the types, with a slot to try or without one.
LEMMA BeginCycleTyping ==
    ASSUME NEW p \in ProfileSet, NEW preferLast \in BOOLEAN,
           SessionTypeOK, RadioTypeOK, CycleTypeOK, BeginStationCycle(p, preferLast)
    PROVE  SessionTypeOK' /\ RadioTypeOK' /\ CycleTypeOK'
<1> DEFINE first == Choose(p, preferLast)
<1>1. CASE first = NoSlot
  <2>1. SessionTypeOK' /\ RadioTypeOK' /\ state' \in States
    BY <1>1, EnterTyping DEF BeginStationCycle
  <2> QED
    BY <1>1, <2>1 DEF BeginStationCycle, CycleTypeOK
<1>2. CASE first # NoSlot
  <2>1. first \in Slots
    BY <1>2, ChooseIsEnabled
  <2>2. CycleTypeOK' /\ RadioTypeOK'
    BY <1>2, <2>1, BeginTyping DEF BeginStationCycle
  <2> QED
    BY <1>2, <2>2 DEF BeginStationCycle, SessionTypeOK, sessionVars, connectVars
<1> QED
  BY <1>1, <1>2

\* Reporting an attempt to the browser keeps the types.
LEMMA CompleteTyping ==
    ASSUME SessionTypeOK, NEW success \in BOOLEAN, CompletePortalAttempt(success)
    PROVE  SessionTypeOK'
<1>1. cp' \in CpStates /\ stationIp' \in BOOLEAN
  BY DEF CompletePortalAttempt, SessionTypeOK, CpStates, InFlight
<1> QED
  BY <1>1 DEF CompletePortalAttempt, SessionTypeOK, sessionVars

\* Taking a valid candidate up keeps the types.
LEMMA AcceptTyping ==
    ASSUME TypeOK, NEW c \in ProfileSet, Validate(c), AcceptCandidate(c)
    PROVE  SessionTypeOK' /\ RadioTypeOK' /\ StationTypeOK'
<1>1. CycleTypeOK' /\ RadioTypeOK'
  <2>1. Choose(c, FALSE) \in Slots
    BY ValidSetStarts
  <2>2. BeginStationProfile(c, Choose(c, FALSE), {})
    BY DEF AcceptCandidate
  <2> QED
    BY <2>1, <2>2, BeginFreshTyping
<1>2. SessionTypeOK'
  BY DEF AcceptCandidate, TypeOK, PortalTypeOK, SessionTypeOK, sessionVars, CpStates, InFlight
<1>3. profiles' \in ProfileSet /\ loaded' \in BOOLEAN
  BY DEF AcceptCandidate, TypeOK, StationTypeOK
<1>4. fromPortal' \in BOOLEAN
  BY DEF AcceptCandidate, PortalUp
<1> QED
  BY <1>1, <1>2, <1>3, <1>4 DEF AcceptCandidate, TypeOK, StationTypeOK

\* A failed attempt keeps the types, whatever follows it.
LEMMA AttemptFailsTyping ==
    ASSUME TypeOK, AttemptFails
    PROVE  SessionTypeOK' /\ RadioTypeOK' /\ StationTypeOK'
<1> USE DEF TypeOK, PortalTypeOK, StationTypeOK
<1>1. UNCHANGED <<attached, store, profiles, loaded, active, saveFailed, everConnected>>
  BY DEF AttemptFails, storeVars
<1>2. CASE TryNextSlot
  <2>1. Untried(ForAttempt) \in SUBSET Slots
    BY DEF Untried, EnabledSlots
  <2>2. pending' \in Slots
    BY <1>2, <2>1, FirstOfIsIn DEF TryNextSlot
  <2>3. SessionTypeOK' /\ RadioTypeOK'
    BY <1>2 DEF TryNextSlot, WiFiDisconnect, SessionTypeOK, RadioTypeOK, sessionVars, connectVars
  <2>4. CycleTypeOK'
    BY <1>2, <2>2 DEF TryNextSlot, CycleTypeOK, States
  <2> QED
    BY <1>1, <1>2, <2>3, <2>4 DEF TryNextSlot
<1>3. CASE RefusePortalCandidate
  <2>1. SessionTypeOK'
    BY <1>3, CompleteTyping DEF RefusePortalCandidate
  <2>2. CycleTypeOK' /\ RadioTypeOK'
    BY <1>3 DEF RefusePortalCandidate, CycleTypeOK, RadioTypeOK, radioVars, States
  <2> QED
    BY <1>1, <1>3, <2>1, <2>2 DEF RefusePortalCandidate
<1>4. CASE FallBackToStored
  <2>1. SessionTypeOK' /\ RadioTypeOK' /\ CycleTypeOK'
    BY <1>4, BeginCycleTyping DEF FallBackToStored
  <2> QED
    BY <1>1, <1>4, <2>1 DEF FallBackToStored
<1>5. CASE GiveUp
  <2>1. SessionTypeOK' /\ RadioTypeOK' /\ state' \in States
    <3>1. CASE EnterStationPortal
      BY <3>1, EnterTyping
    <3>2. CASE ~EnterStationPortal
      BY <1>5, <3>2 DEF GiveUp, SessionTypeOK, RadioTypeOK, sessionVars, connectVars,
         radioVars, States
    <3> QED
      BY <3>1, <3>2
  <2>2. mask' \in SUBSET Slots /\ pending' \in Slots \cup {NoSlot}
    BY <1>5 DEF GiveUp, CycleTypeOK
  <2> QED
    BY <1>1, <1>5, <2>1, <2>2 DEF GiveUp, CycleTypeOK
<1> QED
  BY <1>2, <1>3, <1>4, <1>5 DEF AttemptFails

\* Every initial state is well typed.
LEMMA InitTyping == Init => TypeOK
<1> SUFFICES ASSUME Init PROVE TypeOK
  OBVIOUS
<1>1. StepTypeOK
  BY PortalAssumption DEF PortalAssumption, Init, PortalInit, StepTypeOK, Positions
<1>2. SessionTypeOK
  BY DEF Init, PortalInit, SessionTypeOK, CpStates
<1>3. RadioTypeOK
  BY DEF Init, RadioInit, RadioTypeOK
<1>4. StationTypeOK
  BY EmptySetType, ControllerAssumption
  DEF ControllerAssumption, Init, StationTypeOK, CycleTypeOK, States
<1> QED
  BY <1>1, <1>2, <1>3, <1>4 DEF TypeOK, PortalTypeOK

\* Application calls and requests keep the types.
LEMMA CallTyping ==
    ASSUME TypeOK, StationCall \/ StationRequest
    PROVE  SessionTypeOK' /\ RadioTypeOK' /\ StationTypeOK'
<1> USE DEF TypeOK, PortalTypeOK, StationTypeOK
<1>1. CASE StartStationConnection
  <2>1. Choose(store, TRUE) \in Slots
    BY <1>1, ValidSetStarts DEF StartStationConnection
  <2>2. CycleTypeOK' /\ RadioTypeOK'
    BY <1>1, <2>1, BeginFreshTyping DEF StartStationConnection
  <2> QED
    BY <1>1, <2>2 DEF StartStationConnection, LoadThenConnect, SessionTypeOK, sessionVars,
       connectVars
<1>2. CASE StartStationUnconfigured
  <2>1. SessionTypeOK'
    BY <1>2 DEF StartStationUnconfigured, OpenSession, SessionTypeOK, CpStates, sessionVars,
       connectVars
  <2>2. CycleTypeOK' /\ RadioTypeOK'
    BY <1>2 DEF StartStationUnconfigured, WiFiErase, CycleTypeOK, RadioTypeOK, States
  <2> QED
    BY <1>2, <2>1, <2>2 DEF StartStationUnconfigured, LoadThenConnect
<1>3. CASE StartStationCandidate
  <2>1. PICK c \in Proposals : IF Validate(c) THEN AcceptCandidate(c) ELSE RejectCandidate
    BY <1>3 DEF StartStationCandidate
  <2>2. c \in ProfileSet
    BY ControllerAssumption DEF ControllerAssumption
  <2>3. CASE Validate(c)
    BY <2>1, <2>2, <2>3, AcceptTyping
  <2>4. CASE ~Validate(c)
    BY <2>1, <2>4 DEF RejectCandidate, SessionTypeOK, RadioTypeOK, CycleTypeOK, States,
       storeVars, sessionVars, connectVars, radioVars
  <2> QED
    BY <2>3, <2>4
<1>4. CASE \E p \in ProfileSet : StoreDeliberately(p)
  <2>1. /\ store' \in ProfileSet /\ profiles' \in ProfileSet
        /\ loaded' \in BOOLEAN /\ saveFailed' \in BOOLEAN
    BY <1>4 DEF StoreDeliberately
  <2>2. UNCHANGED <<attached, candidate, fromPortal, cycleVars, active, everConnected,
                    sessionVars, connectVars, radioVars>>
    BY <1>4 DEF StoreDeliberately
  <2> QED
    BY <2>1, <2>2 DEF SessionTypeOK, RadioTypeOK, CycleTypeOK, cycleVars, sessionVars,
       connectVars, radioVars
<1>5. CASE SaveStationProfiles
  BY <1>4, <1>5, ControllerAssumption DEF ControllerAssumption, SaveStationProfiles
<1>6. CASE ClearFails
  BY <1>6 DEF ClearFails, SessionTypeOK, RadioTypeOK, CycleTypeOK, storeVars, cycleVars,
     sessionVars, connectVars, radioVars
<1>7. CASE ClearStationProfiles
  BY <1>7, EmptySetType DEF ClearStationProfiles, SessionTypeOK, RadioTypeOK, CycleTypeOK,
     WiFiErase, States, sessionVars, connectVars
<1>8. \A form \in SavedForms : BuildFromRequest(profiles, form) \in ProfileSet
  BY BuildType, ControllerAssumption DEF ControllerAssumption
<1>9. CASE RequestCandidate
  BY <1>8, <1>9, AcceptTyping DEF RequestCandidate
<1>10. CASE RequestSaveForLater
  BY <1>4, <1>8, <1>10 DEF RequestSaveForLater
<1> QED
  BY <1>1, <1>2, <1>3, <1>5, <1>6, <1>7, <1>9, <1>10 DEF StationCall, StationRequest

\* The controller's step in process() keeps the types.
LEMMA ProcessTyping ==
    ASSUME TypeOK, ProcessStationController
    PROVE  SessionTypeOK' /\ RadioTypeOK' /\ StationTypeOK'
<1> USE DEF TypeOK, PortalTypeOK, StationTypeOK
<1>1. CASE Rests \/ JudgeJoined \/ JudgeExpired
  BY <1>1 DEF Rests, JudgeJoined, JudgeExpired, SessionTypeOK, RadioTypeOK, CycleTypeOK,
     stationVars, storeVars, cycleVars, sessionVars, connectVars, radioVars
<1>2. CASE Promote
  <2>1. CandidateActive /\ candidate \in ProfileSet
    BY <1>2 DEF Promote, CandidateActive
  <2>2. WithLast(candidate, attempted) \in ProfileSet
    BY <2>1, WithLastFields DEF CycleTypeOK
  <2>3. store' \in ProfileSet /\ profiles' \in ProfileSet
    BY <1>2, <2>2 DEF Promote
  <2>4. loaded' \in BOOLEAN /\ saveFailed' \in BOOLEAN
    BY <1>2 DEF Promote
  <2>5. SessionTypeOK'
    <3>1. CASE UNCHANGED <<sessionVars, connectVars>>
      BY <3>1 DEF SessionTypeOK, sessionVars, connectVars
    <3>2. CASE \E kept \in BOOLEAN : CompletePortalAttempt(kept)
      BY <3>2, CompleteTyping
    <3> QED
      BY <1>2, <3>1, <3>2 DEF Promote
  <2>6. RadioTypeOK' /\ CycleTypeOK'
    BY <1>2 DEF Promote, RadioTypeOK, radioVars, CycleTypeOK, States
  <2>7. /\ candidate' = NoCandidate /\ fromPortal' \in BOOLEAN
        /\ active' \in Slots \cup {NoSlot} /\ everConnected' \in BOOLEAN
        /\ attached' = attached
    BY <1>2 DEF Promote, CycleTypeOK
  <2> QED
    BY <2>3, <2>4, <2>5, <2>6, <2>7
<1>3. CASE RecordSuccess
  <2>1. WithLast(profiles, attempted) \in ProfileSet
    BY WithLastFields DEF CycleTypeOK
  <2>2. store' \in ProfileSet /\ profiles' \in ProfileSet /\ saveFailed' \in BOOLEAN
    BY <1>3, <2>1 DEF RecordSuccess
  <2>3. SessionTypeOK' /\ RadioTypeOK' /\ CycleTypeOK'
    BY <1>3 DEF RecordSuccess, SessionTypeOK, RadioTypeOK, CycleTypeOK, sessionVars,
       connectVars, radioVars, States
  <2> QED
    BY <1>3, <2>2, <2>3 DEF RecordSuccess, CycleTypeOK
<1>4. CASE AttemptExpires \/ SwitchLost
  BY <1>4, AttemptFailsTyping DEF AttemptExpires, SwitchLost
<1>5. ForAttempt \in ProfileSet
  BY DEF ForAttempt, CandidateActive
<1>6. CASE SwitchProfile
  <2>1. pending \in Slots /\ mask \in SUBSET Slots
    BY <1>6 DEF SwitchProfile, Enabled, CycleTypeOK
  <2>2. CycleTypeOK' /\ RadioTypeOK'
    BY <1>5, <1>6, <2>1, BeginTyping DEF SwitchProfile
  <2> QED
    BY <1>6, <2>2 DEF SwitchProfile, SessionTypeOK, storeVars, sessionVars, connectVars
<1>7. CASE SwitchRefused
  BY <1>7 DEF SwitchRefused, SessionTypeOK, RadioTypeOK, CycleTypeOK, storeVars, sessionVars,
     connectVars, radioVars
<1>8. CASE LinkLost
  <2> DEFINE again == IF Enabled(profiles, active) THEN active ELSE Choose(profiles, TRUE)
  <2>1. again = NoSlot \/ again \in Slots
    BY ChooseIsEnabled DEF Enabled
  <2>2. CASE again = NoSlot
    <3>1. EnterStationPortal /\ mask' = {} /\ pending' = NoSlot /\ attempted' = attempted
      BY <1>8, <2>2 DEF LinkLost
    <3>2. SessionTypeOK' /\ RadioTypeOK' /\ state' \in States
      BY <3>1, EnterTyping
    <3> QED
      BY <1>8, <3>1, <3>2 DEF LinkLost, CycleTypeOK, storeVars
  <2>3. CASE again # NoSlot
    <3>1. BeginStationProfile(ForAttempt, again, {}) /\ UNCHANGED <<sessionVars, connectVars>>
      BY <1>8, <2>3 DEF LinkLost
    <3>2. CycleTypeOK' /\ RadioTypeOK'
      BY <1>5, <2>1, <2>3, <3>1, BeginFreshTyping
    <3> QED
      BY <1>8, <3>1, <3>2 DEF LinkLost, SessionTypeOK, storeVars, sessionVars, connectVars
  <2> QED
    BY <2>2, <2>3
<1>9. CASE BackoffEnds
  <2>1. SessionTypeOK' /\ RadioTypeOK' /\ CycleTypeOK'
    BY <1>5, <1>9, BeginCycleTyping DEF BackoffEnds
  <2> QED
    BY <1>9, <2>1 DEF BackoffEnds, storeVars
<1> QED
  BY <1>1, <1>2, <1>3, <1>4, <1>6, <1>7, <1>8, <1>9 DEF ProcessStationController

\* The radio and a restart keep the types.
LEMMA EnvironmentTyping ==
    ASSUME TypeOK, RadioStep \/ Reboot
    PROVE  TypeOK'
<1> USE DEF TypeOK, PortalTypeOK
<1>1. CASE Associates
  <2>1. StepTypeOK' /\ SessionTypeOK' /\ StationTypeOK'
    BY <1>1 DEF Associates, RadioRuns, StepTypeOK, SessionTypeOK, StationTypeOK, CycleTypeOK,
       stationVars, storeVars, cycleVars, sessionVars, connectVars
  <2>2. RadioTypeOK'
    BY <1>1 DEF Associates, Join, RadioTypeOK
  <2> QED
    BY <2>1, <2>2
<1>2. CASE LosesLink
  <2>1. calls' \in 0 .. MaxCalls
    BY <1>2, CountTyping DEF LosesLink, StepTypeOK
  <2>2. StepTypeOK' /\ SessionTypeOK' /\ StationTypeOK'
    BY <1>2, <2>1 DEF LosesLink, RadioRuns, StepTypeOK, SessionTypeOK, StationTypeOK,
       CycleTypeOK, stationVars, storeVars, cycleVars, sessionVars, connectVars
  <2>3. RadioTypeOK'
    BY <1>2 DEF LosesLink, Drop, RadioTypeOK
  <2> QED
    BY <2>2, <2>3
<1>3. CASE Reboot
  <2>1. calls' \in 0 .. MaxCalls
    BY <1>3, CountTyping DEF Reboot, StepTypeOK
  <2>2. StepTypeOK' /\ SessionTypeOK' /\ RadioTypeOK'
    BY <1>3, <2>1 DEF Reboot, PortalBooted, StepTypeOK, SessionTypeOK, RadioTypeOK, Positions,
       CpStates
  <2>3. StationTypeOK'
    BY <1>3, EmptySetType DEF Reboot, StationTypeOK, CycleTypeOK, States
  <2> QED
    BY <2>2, <2>3
<1> QED
  BY <1>1, <1>2, <1>3 DEF RadioStep

\* process() and the callers only move between the positions of process().
LEMMA StationStepTyping ==
    ASSUME TypeOK, ProcessStationController \/ StationCall \/ StationRequest
    PROVE  StepTypeOK'
<1>1. CASE ProcessStationController
  <2>1. \E from \in Positions, to \in Positions : ProcessStep(from, to)
    BY <1>1 DEF ProcessStationController, Rests, JudgeJoined, JudgeExpired, Promote,
       RecordSuccess, AttemptExpires, SwitchProfile, SwitchRefused, SwitchLost, LinkLost,
       BackoffEnds, StationStep, Positions
  <2> QED
    BY <2>1, StepTyping DEF TypeOK, PortalTypeOK
<1>2. CASE StationCall \/ StationRequest
  <2>1. ApplicationCall \/ Request
    BY <1>2 DEF StationCall, StationRequest, StartStationConnection, StartStationUnconfigured,
       StartStationCandidate, SaveStationProfiles, ClearFails, ClearStationProfiles,
       RequestCandidate, RequestSaveForLater
  <2> QED
    BY <2>1, StepTyping DEF TypeOK, PortalTypeOK
<1> QED
  BY <1>1, <1>2

\* Every step keeps the types.
LEMMA TypingPreserved ==
    ASSUME TypeOK, [Next]_vars
    PROVE  TypeOK'
<1>1. CASE ProcessStationController
  BY <1>1, ProcessTyping, StationStepTyping DEF TypeOK, PortalTypeOK
<1>2. CASE StationCall \/ StationRequest
  BY <1>2, CallTyping, StationStepTyping DEF TypeOK, PortalTypeOK
<1>3. CASE PortalStep \/ PortalCall
  <2>1. PortalTypeOK' /\ RadioTypeOK'
    BY <1>3, PortalTyping DEF TypeOK
  <2>2. UNCHANGED stationVars
    BY <1>3 DEF PortalStep, PortalCall
  <2> QED
    BY <2>1, <2>2 DEF TypeOK, StationTypeOK, CycleTypeOK, stationVars, storeVars, cycleVars
<1>4. CASE RadioStep \/ Reboot
  BY <1>4, EnvironmentTyping
<1>5. CASE UNCHANGED vars
  BY <1>5 DEF vars, portalVars, radioVars, sessionVars, connectVars, stationVars, storeVars,
     cycleVars, TypeOK, PortalTypeOK, StepTypeOK, SessionTypeOK, RadioTypeOK, StationTypeOK,
     CycleTypeOK
<1> QED
  BY <1>1, <1>2, <1>3, <1>4, <1>5 DEF Next

\* Every variable of the controller, the portal and the radio keeps its type
\* over every operation, whatever sets, forms and options there are.
THEOREM TypeCorrect == Spec => []TypeOK
BY InitTyping, TypingPreserved, PTL DEF Spec

----
(* The controller's memory and the store                                    *)

\* Operations that leave both alone.
LEMMA StoreUntouched ==
    ASSUME \/ Rests \/ JudgeJoined \/ JudgeExpired \/ AttemptExpires
           \/ SwitchProfile \/ SwitchRefused \/ SwitchLost \/ LinkLost \/ BackoffEnds
           \/ PortalStep \/ PortalCall \/ RadioStep \/ RejectCandidate \/ ClearFails
           \/ UNCHANGED vars
    PROVE  UNCHANGED storeVars
BY DEF Rests, JudgeJoined, JudgeExpired, AttemptExpires, AttemptFails, SwitchProfile,
   SwitchRefused, SwitchLost, LinkLost, BackoffEnds, PortalStep, PortalCall, RadioStep,
   Associates, LosesLink, RadioRuns, RejectCandidate, ClearFails, vars, stationVars

\* No step lets the memory and the store drift apart.
LEMMA MemoryPreserved ==
    ASSUME TypeOK, StoreMatchesMemory, [Next]_vars
    PROVE  StoreMatchesMemory'
<1> USE DEF StoreMatchesMemory
<1>1. CASE UNCHANGED storeVars
  BY <1>1 DEF storeVars
<1>2. CASE StartStationConnection \/ StartStationUnconfigured
  BY <1>2 DEF StartStationConnection, StartStationUnconfigured, LoadThenConnect
<1>3. CASE \E c \in ProfileSet : AcceptCandidate(c)
  <2>1. UNCHANGED <<attached, store>>
    BY <1>3 DEF AcceptCandidate
  <2>2. \/ profiles' = store
        \/ ~(attached /\ ~loaded) /\ UNCHANGED <<profiles, loaded>>
    BY <1>3 DEF AcceptCandidate
  <2> QED
    BY <2>1, <2>2
<1>4. CASE StartStationCandidate
  <2>1. RejectCandidate \/ \E c \in ProfileSet : AcceptCandidate(c)
    BY <1>4, ControllerAssumption DEF ControllerAssumption, StartStationCandidate
  <2> QED
    BY <1>1, <1>3, <2>1, StoreUntouched
<1>5. CASE SaveStationProfiles \/ RequestSaveForLater
  BY <1>5 DEF SaveStationProfiles, RequestSaveForLater, StoreDeliberately
<1>6. CASE ClearStationProfiles \/ Reboot
  BY <1>6 DEF ClearStationProfiles, Reboot
<1>7. CASE RequestCandidate
  <2>1. \A form \in SavedForms : BuildFromRequest(profiles, form) \in ProfileSet
    BY BuildType, ControllerAssumption DEF ControllerAssumption, TypeOK, StationTypeOK
  <2> QED
    BY <1>3, <1>7, <2>1 DEF RequestCandidate
<1>8. CASE Promote
  BY <1>8 DEF Promote
<1>9. CASE RecordSuccess
  <2>1. /\ WithLast(profiles, attempted).slot = profiles.slot
        /\ WithLast(profiles, attempted).preferred = profiles.preferred
    BY WithLastFields DEF TypeOK, StationTypeOK, CycleTypeOK
  <2>2. /\ profiles' = WithLast(profiles, attempted)
        /\ store' \in {store, WithLast(profiles, attempted)}
        /\ UNCHANGED <<attached, loaded>>
    BY <1>9 DEF RecordSuccess
  <2> QED
    BY <2>1, <2>2
<1> QED
  BY <1>1, <1>2, <1>4, <1>5, <1>6, <1>7, <1>8, <1>9, StoreUntouched
  DEF Next, ProcessStationController, StationCall, StationRequest

\* The profile set the controller works with and the one that survives a
\* restart differ at most in the slot that connected last, whether or not the
\* store accepts what it is given.
THEOREM MemoryFollowsStore == Spec => []StoreMatchesMemory
<1>1. Init => StoreMatchesMemory
  BY DEF Init, StoreMatchesMemory
<1> QED
  BY <1>1, MemoryPreserved, TypeCorrect, PTL DEF Spec

----
(* The order of attempts                                                    *)

\* A new attempt marks its slot, and nothing waits behind it.
LEMMA BeginTriesOnce ==
    ASSUME NEW p, NEW slot, NEW tried, BeginStationProfile(p, slot, tried)
    PROVE  OneTryPerSlot'
BY DEF BeginStationProfile, OneTryPerSlot

\* A step that starts no attempt keeps the order if it keeps the mask, or if
\* no slot waits after it.
LEMMA NoAttemptTriesOnce ==
    ASSUME OneTryPerSlot, state' # "ATTEMPTING",
           pending' = NoSlot \/ UNCHANGED <<mask, pending>>
    PROVE  OneTryPerSlot'
BY DEF OneTryPerSlot

\* What follows a failed attempt tries an untried slot or starts a cycle.
LEMMA AttemptFailsTriesOnce ==
    ASSUME TypeOK, OneTryPerSlot, AttemptFails
    PROVE  OneTryPerSlot'
<1>1. CASE TryNextSlot
  <2>1. Untried(ForAttempt) \in SUBSET Slots
    BY DEF Untried, EnabledSlots
  <2>2. pending' \in Untried(ForAttempt)
    BY <1>1, <2>1, FirstOfIsIn DEF TryNextSlot
  <2> QED
    BY <1>1, <2>2 DEF TryNextSlot, OneTryPerSlot, Untried
<1>2. CASE RefusePortalCandidate
  BY <1>2, NoAttemptTriesOnce DEF RefusePortalCandidate
<1>3. CASE FallBackToStored
  BY <1>3, NoAttemptTriesOnce, BeginTriesOnce
  DEF FallBackToStored, BeginStationCycle, EnterStationPortal
<1>4. CASE GiveUp
  BY <1>4, NoAttemptTriesOnce DEF GiveUp, EnterStationPortal
<1> QED
  BY <1>1, <1>2, <1>3, <1>4 DEF AttemptFails

\* No step breaks the order of attempts.
LEMMA OncePreserved ==
    ASSUME TypeOK, OneTryPerSlot, [Next]_vars
    PROVE  OneTryPerSlot'
<1>1. CASE UNCHANGED cycleVars
  BY <1>1 DEF cycleVars, OneTryPerSlot
<1>2. CASE \E c \in ProfileSet : AcceptCandidate(c)
  BY <1>2, BeginTriesOnce DEF AcceptCandidate
<1>3. CASE StartStationConnection
  BY <1>3, BeginTriesOnce DEF StartStationConnection
<1>4. CASE RejectCandidate \/ StartStationUnconfigured \/ ClearStationProfiles \/ Reboot
  BY <1>4, NoAttemptTriesOnce DEF RejectCandidate, StartStationUnconfigured,
     ClearStationProfiles, Reboot
<1>5. CASE StationCall \/ StationRequest
  <2>1. \A form \in SavedForms : BuildFromRequest(profiles, form) \in ProfileSet
    BY BuildType, ControllerAssumption DEF ControllerAssumption, TypeOK, StationTypeOK
  <2>2. CASE SaveStationProfiles \/ RequestSaveForLater \/ ClearFails
    BY <1>1, <2>2 DEF SaveStationProfiles, RequestSaveForLater, StoreDeliberately, ClearFails
  <2>3. CASE RequestCandidate
    BY <1>2, <2>1, <2>3 DEF RequestCandidate
  <2>4. CASE StartStationCandidate
    BY <1>2, <1>4, <2>4, ControllerAssumption DEF ControllerAssumption, StartStationCandidate
  <2> QED
    BY <1>3, <1>4, <1>5, <2>2, <2>3, <2>4 DEF StationCall, StationRequest
<1>6. CASE Promote \/ RecordSuccess
  BY <1>6, NoAttemptTriesOnce DEF Promote, RecordSuccess
<1>7. CASE AttemptExpires \/ SwitchLost
  BY <1>7, AttemptFailsTriesOnce DEF AttemptExpires, SwitchLost
<1>8. CASE SwitchProfile
  BY <1>8, BeginTriesOnce DEF SwitchProfile
<1>9. CASE SwitchRefused
  BY <1>9, NoAttemptTriesOnce DEF SwitchRefused
<1>10. CASE LinkLost
  BY <1>10, NoAttemptTriesOnce, BeginTriesOnce DEF LinkLost, EnterStationPortal
<1>11. CASE BackoffEnds
  BY <1>11, NoAttemptTriesOnce, BeginTriesOnce
  DEF BackoffEnds, BeginStationCycle, EnterStationPortal
<1>12. CASE Rests \/ JudgeJoined \/ JudgeExpired \/ PortalStep \/ PortalCall \/ RadioStep
            \/ UNCHANGED vars
  BY <1>1, <1>12 DEF Rests, JudgeJoined, JudgeExpired, PortalStep, PortalCall, RadioStep,
     Associates, LosesLink, RadioRuns, vars, stationVars
<1> QED
  BY <1>4, <1>5, <1>6, <1>7, <1>8, <1>9, <1>10, <1>11, <1>12
  DEF Next, ProcessStationController

\* No slot is tried twice in a cycle and none waits that has been tried,
\* for any number of slots and any calls in between.
THEOREM EachSlotOnce == Spec => []OneTryPerSlot
<1>1. Init => OneTryPerSlot
  BY DEF Init, OneTryPerSlot
<1> QED
  BY <1>1, OncePreserved, TypeCorrect, PTL DEF Spec

----
(* An attempt the portal submitted                                          *)

\* ... and the machine is at rest by then: it cannot have been left half-way
\* by the request that brought the candidate.
AttemptOwned == OwnedAttemptUntouched /\ (pc \in Machine => ~fromPortal)

\* The controller's step comes before the machine's; its calls come between two
\* calls of process(), and so do its requests unless they preempt it.
LEMMA ControllerMoves ==
    /\ ProcessStationController => pc' \in {"connect", "joined", "expired"}
    /\ StationCall \/ StationRequest => pc' = pc /\ (pc = "loop" \/ Preemptive = TRUE)
<1>1. ASSUME ProcessStationController
      PROVE  pc' \in {"connect", "joined", "expired"}
  BY <1>1
     DEF ProcessStationController, Rests, JudgeJoined, JudgeExpired, Promote, RecordSuccess,
         AttemptExpires, SwitchProfile, SwitchRefused, SwitchLost, LinkLost, BackoffEnds,
         StationStep, ProcessStep
<1>2. ASSUME StationCall \/ StationRequest
      PROVE  pc' = pc /\ (pc = "loop" \/ Preemptive = TRUE)
  <2>1. StationCall => ApplicationCall
    BY DEF StationCall, StartStationConnection, StartStationUnconfigured,
       StartStationCandidate, SaveStationProfiles, ClearFails, ClearStationProfiles
  <2>2. StationRequest => Request
    BY DEF StationRequest, RequestCandidate, RequestSaveForLater
  <2>3. Request => pc' = pc /\ (pc = "loop" \/ Preemptive = TRUE)
    <3>1. Request => pc' = pc
      BY DEF Request
    <3>2. Request => pc = "loop" \/ Preemptive
      BY DEF Request
    <3>3. Preemptive => Preemptive = TRUE
      BY PortalAssumption DEF PortalAssumption
    <3> QED
      BY <3>1, <3>2, <3>3
  <2> QED
    BY <1>2, <2>1, <2>2, <2>3 DEF ApplicationCall
<1> QED
  BY <1>1, <1>2

\* No step brings the machine into its middle under the controller.
LEMMA MachinePreserved ==
    ASSUME Preemptive = FALSE, AttemptOwned, [Next]_vars
    PROVE  (pc \in Machine => ~fromPortal)'
<1>1. CASE ProcessStationController \/ StationCall \/ StationRequest
  BY <1>1, ControllerMoves, PositionsHave
<1>2. CASE PortalStep
  <2>1. fromPortal' = fromPortal
    BY <1>2 DEF PortalStep, stationVars
  <2>2. CASE fromPortal
    <3>1. \/ BeginProcess \/ ConnectOwned \/ PortalExits \/ PortalStays
      BY <1>2, <2>2, ConnectMoves DEF PortalStep, AttemptOwned, ProcessPortalConnect
    <3> QED
      BY <3>1, PositionsHave DEF BeginProcess, ConnectOwned, PortalExits, PortalStays, Decide,
         ProcessStep
  <2> QED
    BY <2>1, <2>2
<1>3. CASE PortalCall
  <2>1. pc' = pc /\ fromPortal' = fromPortal
    BY <1>3 DEF PortalCall, SessionCall, StartConfigPortal, StopConfigPortal, StartWebPortal,
       StopWebPortal, ApplicationCall, RequestExit, RequestClose, QueuePortalConnect, Request,
       stationVars
  <2> QED
    BY <2>1 DEF AttemptOwned
<1>4. CASE RadioStep \/ Reboot
  BY <1>4, PositionsHave DEF RadioStep, Associates, LosesLink, RadioRuns, Reboot, PortalBooted
<1>5. CASE UNCHANGED vars
  BY <1>5 DEF AttemptOwned, vars, portalVars, stationVars
<1> QED
  BY <1>1, <1>2, <1>3, <1>4, <1>5 DEF Next

\* No step moves the save-and-connect machine under the controller.
LEMMA OwnershipPreserved ==
    ASSUME TypeOK, AttemptOwned, [Next]_vars
    PROVE  OwnedAttemptUntouched'
<1> USE DEF OwnedAttemptUntouched, CandidateActive
<1>1. ASSUME UNCHANGED <<candidate, fromPortal>>, cp' = cp \/ cp' = "idle"
      PROVE  OwnedAttemptUntouched'
  BY <1>1 DEF AttemptOwned
<1>2. ASSUME fromPortal' = FALSE
      PROVE  OwnedAttemptUntouched'
  BY <1>2
<1>3. CASE PortalStep
  <2>1. UNCHANGED <<candidate, fromPortal>>
    BY <1>3 DEF PortalStep, stationVars
  <2>2. CASE fromPortal
    <3>1. \/ BeginProcess \/ ConnectOwned \/ PortalExits \/ PortalStays
      BY <1>3, <2>2, ConnectMoves DEF PortalStep, AttemptOwned, ProcessPortalConnect
    <3>2. cp' = cp \/ cp' = "idle"
      BY <3>1, DecidesLooks DEF BeginProcess, PortalExits, PortalStays, CpAfterShutdown,
         connectVars
    <3> QED
      BY <1>1, <2>1, <3>2
  <2>3. CASE ~fromPortal
    BY <2>1, <2>3
  <2> QED
    BY <2>2, <2>3
<1>4. CASE PortalCall
  <2>1. UNCHANGED <<candidate, fromPortal>>
    BY <1>4 DEF PortalCall, stationVars
  <2>2. cp' = cp \/ cp' = "idle" \/ cp' = "queued"
    BY <1>4 DEF PortalCall, SessionCall, StartConfigPortal, OpenConfigPortal, OpenSession,
       StopConfigPortal, StartWebPortal, StopWebPortal, RequestExit, RequestClose,
       QueuePortalConnect, CpAfterShutdown, connectVars
  <2> QED
    BY <2>1, <2>2 DEF AttemptOwned
<1>5. ASSUME NEW c \in ProfileSet, AcceptCandidate(c)
      PROVE  OwnedAttemptUntouched'
  BY <1>5, ControllerAssumption DEF AcceptCandidate, ControllerAssumption
<1>6. CASE StationCall \/ StationRequest
  <2>1. \A form \in SavedForms : BuildFromRequest(profiles, form) \in ProfileSet
    BY BuildType, ControllerAssumption DEF ControllerAssumption, TypeOK, StationTypeOK
  <2>2. CASE SaveStationProfiles \/ RequestSaveForLater \/ ClearFails
    BY <1>1, <2>2 DEF SaveStationProfiles, RequestSaveForLater, StoreDeliberately,
       ClearFails, connectVars
  <2>3. CASE RequestCandidate
    BY <1>5, <2>1, <2>3 DEF RequestCandidate
  <2>4. CASE StartStationCandidate
    BY <1>1, <1>5, <2>4, ControllerAssumption
    DEF ControllerAssumption, StartStationCandidate, RejectCandidate, connectVars
  <2>5. CASE StartStationConnection \/ StartStationUnconfigured \/ ClearStationProfiles
    BY <1>2, <2>5 DEF StartStationConnection, StartStationUnconfigured, LoadThenConnect,
       ClearStationProfiles
  <2> QED
    BY <1>6, <2>2, <2>3, <2>4, <2>5 DEF StationCall, StationRequest
<1>7. ASSUME EnterStationPortal
      PROVE  cp' = cp \/ cp' = "idle"
  BY <1>7 DEF EnterStationPortal, OpenConfigPortal, OpenSession, connectVars
<1>8. CASE AttemptFails
  <2>1. CASE TryNextSlot
    BY <1>1, <2>1 DEF TryNextSlot, connectVars
  <2>2. CASE RefusePortalCandidate
    BY <1>2, <2>2 DEF RefusePortalCandidate
  <2>3. CASE FallBackToStored \/ GiveUp
    BY <1>2, <2>3, TypeOK DEF FallBackToStored, GiveUp, TypeOK, StationTypeOK, AttemptOwned
  <2> QED
    BY <1>8, <2>1, <2>2, <2>3 DEF AttemptFails
<1>9. CASE ProcessStationController
  <2>1. CASE Rests \/ JudgeJoined \/ JudgeExpired
    BY <1>1, <2>1 DEF Rests, JudgeJoined, JudgeExpired, stationVars, connectVars
  <2>2. CASE Promote
    BY <1>2, <2>2 DEF Promote
  <2>3. CASE RecordSuccess \/ SwitchProfile \/ SwitchRefused
    BY <1>1, <2>3 DEF RecordSuccess, SwitchProfile, SwitchRefused, connectVars
  <2>4. CASE AttemptExpires \/ SwitchLost
    BY <1>8, <2>4 DEF AttemptExpires, SwitchLost
  <2>5. CASE LinkLost \/ BackoffEnds
    BY <1>1, <1>7, <2>5 DEF LinkLost, BackoffEnds, BeginStationCycle, connectVars
  <2> QED
    BY <1>9, <2>1, <2>2, <2>3, <2>4, <2>5 DEF ProcessStationController
<1>10. CASE RadioStep \/ UNCHANGED vars
  BY <1>1, <1>10 DEF RadioStep, Associates, LosesLink, RadioRuns, vars, portalVars,
     stationVars, connectVars
<1>11. CASE Reboot
  BY <1>2, <1>11 DEF Reboot
<1> QED
  BY <1>3, <1>4, <1>6, <1>9, <1>10, <1>11 DEF Next

\* Whatever calls, requests, failures and restarts come in between, the
\* save-and-connect machine does not move while the controller owns the
\* attempt, as long as the handlers run in the loop task.
THEOREM PortalLeavesAttempt ==
    ASSUME Preemptive = FALSE
    PROVE  Spec => []OwnedAttemptUntouched
<1>1. Init => AttemptOwned
  BY DEF Init, PortalInit, AttemptOwned, OwnedAttemptUntouched
<1>2. TypeOK /\ AttemptOwned /\ [Next]_vars => AttemptOwned'
  BY OwnershipPreserved, MachinePreserved DEF AttemptOwned
<1>3. AttemptOwned => OwnedAttemptUntouched
  BY DEF AttemptOwned
<1> QED
  BY <1>1, <1>2, <1>3, TypeCorrect, PTL DEF Spec

====
