---- MODULE StationController ----
(***************************************************************************)
(* The station-profile controller of WiFiManager together with the portal  *)
(* session it falls back to and reports through: loading, choosing and     *)
(* trying profiles, the verified candidate, recovery after a lost link,    *)
(* and the application-owned store behind it.                              *)
(***************************************************************************)
EXTENDS StationProfiles, Portal

CONSTANTS
    InitialSets,    \* what the application's store may hold at power-on
    Proposals,      \* profile sets the application may propose or save
    SavedForms,     \* forms a browser may submit
    NoCandidate     \* no candidate is active

ASSUME ControllerAssumption ==
    /\ InitialSets \subseteq ProfileSet
    /\ Proposals \subseteq ProfileSet
    /\ SavedForms \subseteq Forms
    /\ NoCandidate \notin ProfileSet
    /\ Keep \notin Contents

VARIABLES
    attached,       \* a WiFiManagerStationProfileStore is attached
    store,          \* what that store holds (EmptySet: load() returns false)
    profiles,       \* _stationProfiles
    loaded,         \* _stationProfilesLoaded
    candidate,      \* _stationCandidate while _stationCandidateActive
    fromPortal,     \* _stationCandidateFromPortal
    mask,           \* slots in _stationAttemptMask
    pending,        \* _stationPendingSlot
    state,          \* _stationStatus.state
    attempted,      \* _stationStatus.attemptedSlot
    active,         \* _stationStatus.activeSlot
    saveFailed,     \* _stationStatus.storageSaveFailed
    everConnected   \* _stationEverConnected

storeVars == <<attached, store, profiles, loaded>>
cycleVars == <<mask, pending, state, attempted>>
stationVars ==
    <<storeVars, candidate, fromPortal, cycleVars, active, saveFailed, everConnected>>
vars == <<radioVars, portalVars, stationVars>>

\* LOADING is left again by the operation that enters it.
States == {"IDLE", "ATTEMPTING", "SWITCHING", "CONNECTED", "BACKOFF", "PORTAL"}

RadioTypeOK ==
    /\ target \in Contents \cup {None}
    /\ link \in Contents \cup {None}
    /\ config \in Contents \cup {None}

CycleTypeOK ==
    /\ mask \in SUBSET Slots
    /\ pending \in Slots \cup {NoSlot}
    /\ state \in States
    /\ attempted \in Slots \cup {NoSlot}

StationTypeOK ==
    /\ attached \in BOOLEAN
    /\ store \in ProfileSet
    /\ profiles \in ProfileSet
    /\ loaded \in BOOLEAN
    /\ candidate \in ProfileSet \cup {NoCandidate}
    /\ fromPortal \in BOOLEAN
    /\ active \in Slots \cup {NoSlot}
    /\ saveFailed \in BOOLEAN
    /\ everConnected \in BOOLEAN
    /\ CycleTypeOK

TypeOK == PortalTypeOK /\ RadioTypeOK /\ StationTypeOK

Init ==
    /\ RadioInit
    /\ PortalInit
    /\ attached \in BOOLEAN
    /\ store \in InitialSets
    /\ profiles = EmptySet /\ loaded = FALSE
    /\ candidate = NoCandidate /\ fromPortal = FALSE
    /\ mask = {} /\ pending = NoSlot
    /\ state = "IDLE" /\ attempted = NoSlot /\ active = NoSlot
    /\ saveFailed = FALSE /\ everConnected = FALSE

----
(* Steps that several operations share                                      *)

CandidateActive == candidate # NoCandidate

\* stationProfilesForAttempt
ForAttempt == IF CandidateActive THEN candidate ELSE profiles

\* Mutant: every enabled slot counts as untried.
UntriedAll(p) == EnabledSlots(p)

Untried(p) == EnabledSlots(p) \ mask

\* Mutant: the slot is not marked as tried.
BeginUnmarked(p, slot, tried) ==
    /\ mask' = tried
    /\ pending' = NoSlot
    /\ state' = "ATTEMPTING"
    /\ attempted' = slot
    /\ WiFiBegin(p.slot[slot])

\* beginStationProfile on an enabled slot of p, the slots of tried before it.
BeginStationProfile(p, slot, tried) ==
    /\ mask' = tried \cup {slot}
    /\ pending' = NoSlot
    /\ state' = "ATTEMPTING"
    /\ attempted' = slot
    /\ WiFiBegin(p.slot[slot])

\* enterStationPortal, the cycle being over with the slots of tried.
EnterStationPortal ==
    /\ state' = "PORTAL"
    /\ IF configActive \/ ~opt.enableConfigPortal
         THEN UNCHANGED <<sessionVars, connectVars, radioVars>>
         ELSE OpenConfigPortal

\* beginStationCycle over p
BeginStationCycle(p, preferLast) ==
    LET first == Choose(p, preferLast) IN
    IF first = NoSlot
      THEN /\ mask' = {} /\ pending' = NoSlot
           /\ EnterStationPortal
           /\ UNCHANGED attempted
      ELSE /\ BeginStationProfile(p, first, {})
           /\ UNCHANGED <<sessionVars, connectVars>>

\* completePortalStationAttempt, after the controller has let go of the
\* candidate: no portal, no report.
CompletePortalAttempt(success) ==
    /\ IF PortalUp
         THEN /\ stationIp' = success
              /\ cp' = IF ~success THEN "failed"
                       ELSE IF opt.disableConfigPortal THEN "success_waiting_close"
                       ELSE "success"
         ELSE UNCHANGED <<cp, stationIp>>
    /\ UNCHANGED <<sessionVars, cpSsid>>

----
(* The public operations                                                    *)

\* startStationConnection.  An unusable set ends the station and its SDK
\* credentials before the portal opens.
LoadThenConnect ==
    /\ candidate' = NoCandidate /\ fromPortal' = FALSE
    /\ profiles' = store /\ loaded' = TRUE
    /\ active' = NoSlot /\ saveFailed' = FALSE
    /\ UNCHANGED <<attached, store, everConnected>>

StartStationConnection ==
    /\ ApplicationCall
    /\ attached
    /\ LoadThenConnect
    /\ Validate(store)
    /\ BeginStationProfile(store, Choose(store, TRUE), {})
    /\ UNCHANGED <<sessionVars, connectVars>>

StartStationUnconfigured ==
    /\ ApplicationCall
    /\ attached
    /\ LoadThenConnect
    /\ ~Validate(store)
    /\ WiFiErase
    /\ mask' = {} /\ pending' = NoSlot /\ attempted' = NoSlot
    /\ state' = "PORTAL"
    /\ IF configActive \/ ~opt.enableConfigPortal
         THEN UNCHANGED <<sessionVars, connectVars>>
         ELSE OpenSession

\* startStationCandidate with a valid set c.
AcceptCandidate(c) ==
    /\ candidate' = c
    /\ fromPortal' = PortalUp
    /\ IF attached /\ ~loaded THEN profiles' = store /\ loaded' = TRUE
                              ELSE UNCHANGED <<profiles, loaded>>
    /\ active' = NoSlot /\ saveFailed' = FALSE
    /\ IF PortalUp THEN cp' = "queued" /\ stationIp' = FALSE
                   ELSE UNCHANGED <<cp, stationIp>>
    /\ BeginStationProfile(c, Choose(c, FALSE), {})
    /\ UNCHANGED <<attached, store, everConnected, sessionVars, cpSsid>>

\* startStationCandidate with an invalid set.
RejectCandidate ==
    /\ state' = "IDLE"
    /\ UNCHANGED <<storeVars, candidate, fromPortal, mask, pending, attempted, active,
                   saveFailed, everConnected, sessionVars, connectVars, radioVars>>

StartStationCandidate ==
    /\ ApplicationCall
    /\ \E c \in Proposals : IF Validate(c) THEN AcceptCandidate(c) ELSE RejectCandidate

\* saveStationProfiles with a valid set p, while a store is attached.
StoreDeliberately(p) ==
    /\ attached /\ Validate(p)
    /\ \/ /\ store' = p /\ profiles' = p
          /\ loaded' = TRUE /\ saveFailed' = FALSE
       \/ saveFailed' = TRUE /\ UNCHANGED <<store, profiles, loaded>>
    /\ UNCHANGED <<attached, candidate, fromPortal, cycleVars, active, everConnected,
                   sessionVars, connectVars, radioVars>>

SaveStationProfiles ==
    /\ ApplicationCall
    /\ \E p \in Proposals : StoreDeliberately(p)

\* clearStationProfiles
ClearFails ==
    /\ ApplicationCall
    /\ attached
    /\ saveFailed' = TRUE
    /\ UNCHANGED <<storeVars, candidate, fromPortal, cycleVars, active, everConnected,
                   sessionVars, connectVars, radioVars>>

ClearStationProfiles ==
    /\ ApplicationCall
    /\ store' = IF attached THEN EmptySet ELSE store
    /\ profiles' = EmptySet /\ loaded' = FALSE
    /\ candidate' = NoCandidate /\ fromPortal' = FALSE
    /\ mask' = {} /\ pending' = NoSlot
    /\ state' = "IDLE" /\ attempted' = NoSlot /\ active' = NoSlot
    /\ saveFailed' = FALSE /\ everConnected' = FALSE
    /\ WiFiErase
    /\ UNCHANGED <<attached, sessionVars, connectVars>>

\* POST /api/wifi/save in profile mode: verify the submitted set, ...
RequestCandidate ==
    /\ Request
    /\ attached
    /\ \E form \in SavedForms :
         LET c == BuildFromRequest(profiles, form)
         IN  Validate(c) /\ AcceptCandidate(c)

\* ... or, with stationAction=save, store it for later.
RequestSaveForLater ==
    /\ Request
    /\ attached
    /\ \E form \in SavedForms : StoreDeliberately(BuildFromRequest(profiles, form))

----
(* process(): the controller's step                                         *)

StationStep == ProcessStep("station", "connect")

ControllerRuns == attached \/ CandidateActive

Rests ==
    /\ StationStep
    /\ \/ ~ControllerRuns
       \/ state \in {"IDLE", "PORTAL"}
       \/ state = "CONNECTED" /\ Usable
       \/ state \in {"SWITCHING", "BACKOFF"}            \* its timer is not due
       \/ state = "ATTEMPTING" /\ ~Usable               \* nor is this one
    /\ UNCHANGED <<stationVars, sessionVars, connectVars, radioVars>>

\* Mutant: an attempt counts as joined without a usable address.
JudgeJoinedWithoutAddress ==
    /\ ProcessStep("station", "joined")
    /\ ControllerRuns
    /\ state = "ATTEMPTING"
    /\ UNCHANGED <<stationVars, sessionVars, connectVars, radioVars>>

\* The attempt is judged here and acted upon in the next step.
JudgeJoined ==
    /\ ProcessStep("station", "joined")
    /\ ControllerRuns
    /\ state = "ATTEMPTING" /\ Usable
    /\ UNCHANGED <<stationVars, sessionVars, connectVars, radioVars>>

JudgeExpired ==
    /\ ProcessStep("station", "expired")
    /\ ControllerRuns
    /\ state = "ATTEMPTING" /\ ~Usable
    /\ UNCHANGED <<stationVars, sessionVars, connectVars, radioVars>>

\* Mutant: the candidate is the set in memory even if the store refuses it.
PromoteUnsaved ==
    /\ ProcessStep("joined", "connect")
    /\ CandidateActive
    /\ \E kept \in BOOLEAN :
         /\ store' = IF attached /\ kept THEN WithLast(candidate, attempted) ELSE store
         /\ profiles' = WithLast(candidate, attempted)
         /\ loaded' = (kept \/ loaded)
         /\ saveFailed' = ~kept
         /\ IF fromPortal THEN CompletePortalAttempt(kept)
                          ELSE UNCHANGED <<sessionVars, connectVars>>
    /\ candidate' = NoCandidate /\ fromPortal' = FALSE
    /\ state' = "CONNECTED" /\ active' = attempted /\ everConnected' = TRUE
    /\ UNCHANGED <<attached, mask, pending, attempted, radioVars>>

\* handleStationConnectionSuccess for a candidate: it is the profile set from
\* now on if the store keeps it.
Promote ==
    /\ ProcessStep("joined", "connect")
    /\ CandidateActive
    /\ \E kept \in BOOLEAN :
         LET won == WithLast(candidate, attempted) IN
         /\ ~attached => kept
         /\ store' = IF attached /\ kept THEN won ELSE store
         /\ profiles' = IF kept THEN won ELSE profiles
         /\ loaded' = (kept \/ loaded)
         /\ saveFailed' = ~kept
         /\ IF fromPortal THEN CompletePortalAttempt(kept)
                          ELSE UNCHANGED <<sessionVars, connectVars>>
    /\ candidate' = NoCandidate /\ fromPortal' = FALSE
    /\ state' = "CONNECTED" /\ active' = attempted /\ everConnected' = TRUE
    /\ UNCHANGED <<attached, mask, pending, attempted, radioVars>>

\* Mutant: the slot that connected becomes the preferred one.
RecordPrefers ==
    LET won == [WithLast(profiles, attempted) EXCEPT !.preferred = attempted] IN
    /\ ProcessStep("joined", "connect")
    /\ ~CandidateActive
    /\ profiles' = won
    /\ \E kept \in BOOLEAN :
         LET written == attached /\ profiles.last # attempted IN
         /\ ~written => kept
         /\ store' = IF written /\ kept THEN won ELSE store
         /\ saveFailed' = ~kept
    /\ state' = "CONNECTED" /\ active' = attempted /\ everConnected' = TRUE
    /\ UNCHANGED <<attached, loaded, candidate, fromPortal, mask, pending, attempted,
                   sessionVars, connectVars, radioVars>>

\* handleStationConnectionSuccess for the stored set: only a change of the
\* last successful slot is written.
RecordSuccess ==
    /\ ProcessStep("joined", "connect")
    /\ ~CandidateActive
    /\ profiles' = WithLast(profiles, attempted)
    /\ \E kept \in BOOLEAN :
         LET written == attached /\ profiles.last # attempted IN
         /\ ~written => kept
         /\ store' = IF written /\ kept THEN WithLast(profiles, attempted) ELSE store
         /\ saveFailed' = ~kept
    /\ state' = "CONNECTED" /\ active' = attempted /\ everConnected' = TRUE
    /\ UNCHANGED <<attached, loaded, candidate, fromPortal, mask, pending, attempted,
                   sessionVars, connectVars, radioVars>>

\* handleStationAttemptFailure: queueStationProfile for the next slot, ...
TryNextSlot ==
    /\ Untried(ForAttempt) # {}
    /\ pending' = FirstOf(Untried(ForAttempt))
    /\ state' = "SWITCHING"
    /\ WiFiDisconnect
    /\ UNCHANGED <<mask, attempted, candidate, fromPortal, sessionVars, connectVars>>

\* Mutant: the refused candidate keeps its mark as the portal's.
RefuseKeepsOwner ==
    /\ Untried(ForAttempt) = {}
    /\ CandidateActive /\ fromPortal
    /\ candidate' = NoCandidate
    /\ mask' = {} /\ pending' = NoSlot
    /\ state' = "PORTAL"
    /\ CompletePortalAttempt(FALSE)
    /\ UNCHANGED <<fromPortal, attempted, radioVars>>

\* ... or the portal's candidate is refused, ...
RefusePortalCandidate ==
    /\ Untried(ForAttempt) = {}
    /\ CandidateActive /\ fromPortal
    /\ candidate' = NoCandidate /\ fromPortal' = FALSE
    /\ mask' = {} /\ pending' = NoSlot
    /\ state' = "PORTAL"
    /\ CompletePortalAttempt(FALSE)
    /\ UNCHANGED <<attempted, radioVars>>

\* ... or the application's candidate gives way to the stored set, ...
FallBackToStored ==
    /\ Untried(ForAttempt) = {}
    /\ CandidateActive /\ ~fromPortal
    /\ Validate(profiles)
    /\ candidate' = NoCandidate
    /\ BeginStationCycle(profiles, TRUE)
    /\ UNCHANGED fromPortal

\* Mutant: a station that was once connected asks for help like a new one.
GiveUpForGood ==
    /\ Untried(ForAttempt) = {}
    /\ CandidateActive => ~fromPortal /\ ~Validate(profiles)
    /\ candidate' = NoCandidate
    /\ mask' = IF CandidateActive THEN {} ELSE mask
    /\ pending' = IF CandidateActive THEN NoSlot ELSE pending
    /\ EnterStationPortal
    /\ UNCHANGED <<attempted, fromPortal>>

\* ... or nothing is left: wait and retry, or ask for help.
GiveUp ==
    /\ Untried(ForAttempt) = {}
    /\ CandidateActive => ~fromPortal /\ ~Validate(profiles)
    /\ candidate' = NoCandidate
    /\ mask' = IF CandidateActive THEN {} ELSE mask
    /\ pending' = IF CandidateActive THEN NoSlot ELSE pending
    /\ IF everConnected
         THEN state' = "BACKOFF" /\ UNCHANGED <<sessionVars, connectVars, radioVars>>
         ELSE EnterStationPortal
    /\ UNCHANGED <<attempted, fromPortal>>

AttemptFails ==
    /\ TryNextSlot \/ RefusePortalCandidate \/ FallBackToStored \/ GiveUp
    /\ UNCHANGED <<storeVars, active, saveFailed, everConnected>>

AttemptExpires == ProcessStep("expired", "connect") /\ AttemptFails

\* Mutant: the switch takes the network from the stored set.
SwitchToStored ==
    /\ StationStep
    /\ ControllerRuns
    /\ state = "SWITCHING"
    /\ Enabled(ForAttempt, pending)
    /\ BeginStationProfile(profiles, pending, mask)
    /\ UNCHANGED <<storeVars, candidate, fromPortal, active, saveFailed, everConnected,
                   sessionVars, connectVars>>

\* The switch delay is over.
SwitchProfile ==
    /\ StationStep
    /\ ControllerRuns
    /\ state = "SWITCHING"
    /\ Enabled(ForAttempt, pending)
    /\ BeginStationProfile(ForAttempt, pending, mask)
    /\ UNCHANGED <<storeVars, candidate, fromPortal, active, saveFailed, everConnected,
                   sessionVars, connectVars>>

\* The profile to switch to is gone: beginStationProfile refuses it.
SwitchRefused ==
    /\ StationStep
    /\ ControllerRuns
    /\ state = "SWITCHING"
    /\ pending # NoSlot /\ ~Enabled(ForAttempt, pending)
    /\ pending' = NoSlot
    /\ UNCHANGED <<storeVars, candidate, fromPortal, mask, state, attempted, active,
                   saveFailed, everConnected, sessionVars, connectVars, radioVars>>

\* A switch without a target counts as a failed attempt.
SwitchLost ==
    /\ StationStep
    /\ ControllerRuns
    /\ state = "SWITCHING"
    /\ pending = NoSlot
    /\ AttemptFails

\* An established link is gone: the active slot first, if it still exists.
LinkLost ==
    /\ StationStep
    /\ ControllerRuns
    /\ state = "CONNECTED" /\ ~Usable
    /\ LET again == IF Enabled(profiles, active) THEN active ELSE Choose(profiles, TRUE) IN
       IF again = NoSlot
         THEN /\ mask' = {} /\ pending' = NoSlot
              /\ EnterStationPortal
              /\ UNCHANGED attempted
         ELSE /\ BeginStationProfile(ForAttempt, again, {})
              /\ UNCHANGED <<sessionVars, connectVars>>
    /\ UNCHANGED <<storeVars, candidate, fromPortal, active, saveFailed, everConnected>>

\* The recovery interval is over.
BackoffEnds ==
    /\ StationStep
    /\ ControllerRuns
    /\ state = "BACKOFF"
    /\ BeginStationCycle(ForAttempt, TRUE)
    /\ UNCHANGED <<storeVars, candidate, fromPortal, active, saveFailed, everConnected>>

ProcessStationController ==
    \/ Rests \/ JudgeJoined \/ JudgeExpired \/ Promote \/ RecordSuccess \/ AttemptExpires
    \/ SwitchProfile \/ SwitchRefused \/ SwitchLost \/ LinkLost \/ BackoffEnds

\* processPortalConnect is left out while the controller owns the attempt.
ConnectOwned == fromPortal /\ Decide("exit")

\* Mutant: the legacy machine also runs during the controller's attempt.
PortalStepUnowned ==
    /\ BeginProcess \/ ProcessPortalConnect \/ PortalExits \/ PortalStays
    /\ UNCHANGED stationVars

PortalStep ==
    /\ \/ BeginProcess
       \/ ConnectOwned
       \/ ~fromPortal /\ ConnectDecides
       \/ ConnectReacts
       \/ PortalExits \/ PortalStays
    /\ UNCHANGED stationVars

PortalCall ==
    /\ \/ SessionCall
       \/ RequestExit
       \/ RequestClose
       \/ ~attached /\ QueuePortalConnect
    /\ UNCHANGED stationVars

StationCall ==
    \/ StartStationConnection \/ StartStationUnconfigured
    \/ StartStationCandidate \/ SaveStationProfiles
    \/ ClearFails \/ ClearStationProfiles

StationRequest == RequestCandidate \/ RequestSaveForLater

\* A call of process() that looks at the link once sees what it was when the
\* call began.
RadioRuns ==
    /\ pc = "loop"
    /\ UNCHANGED <<opt, pc, sessionVars, connectVars, stationVars>>

Associates == RadioRuns /\ Join /\ UNCHANGED calls
LosesLink == RadioRuns /\ Drop /\ Count

RadioStep == Associates \/ LosesLink

\* Power loss or a restart at any point: only the store survives.
Reboot ==
    /\ Count
    /\ PortalBooted
    /\ target' = None /\ link' = None /\ config' = None
    /\ profiles' = EmptySet /\ loaded' = FALSE
    /\ candidate' = NoCandidate /\ fromPortal' = FALSE
    /\ mask' = {} /\ pending' = NoSlot
    /\ state' = "IDLE" /\ attempted' = NoSlot /\ active' = NoSlot
    /\ saveFailed' = FALSE /\ everConnected' = FALSE
    /\ UNCHANGED <<opt, attached, store>>

Next ==
    \/ ProcessStationController \/ PortalStep
    \/ StationCall \/ StationRequest \/ PortalCall
    \/ RadioStep \/ Reboot

Spec == Init /\ [][Next]_vars

(* Fairness.  The application calls process() as long as WiFiManager works, *)
(* so its next step is taken.  A timer that a poll may find due is found    *)
(* due eventually.  A network in range that is tried again and again joins  *)
(* at least once before the attempt's time-out.                             *)
Process == ProcessStationController \/ PortalStep

AttemptAssociates == state = "ATTEMPTING" /\ Associates

Fairness ==
    /\ WF_vars(Process)
    /\ SF_vars(JudgeExpired)
    /\ SF_vars(SwitchProfile)
    /\ SF_vars(SwitchRefused)
    /\ SF_vars(SwitchLost)
    /\ SF_vars(BackoffEnds)
    /\ SF_vars(AttemptAssociates)

FairSpec == Spec /\ Fairness

----
(* Safety                                                                   *)

\* What the store and the controller's copy of it agree on: everything but
\* the slot that connected last, whose write may have failed.  Every path
\* that loads, saves, promotes or clears has to keep them together, the
\* paths on which the store refuses included.
StoreMatchesMemory ==
    attached /\ loaded =>
        /\ profiles.slot = store.slot
        /\ profiles.preferred = store.preferred

\* Within a connection cycle no slot is tried twice, and a slot waiting for
\* its turn is not the one being tried: the mask, the pending slot and the
\* attempted slot stay consistent over failures, switches, refused switches
\* and calls that restart the cycle.
OneTryPerSlot ==
    /\ state = "ATTEMPTING" => attempted \in mask /\ pending = NoSlot
    /\ pending # NoSlot => pending \notin mask

\* While the controller owns an attempt that came from a portal, the legacy
\* save-and-connect machine has not moved: it neither starts a connection of
\* its own nor reports a result before the controller does.  It holds while
\* handlers do not preempt process(); a candidate that comes between the
\* machine's read of cp and its write is overwritten like any other save.
OwnedAttemptUntouched ==
    fromPortal => CandidateActive /\ cp \in {"queued", "idle"}

\* Between two handlers the link, the driver and the controller tell one story:
\* an address belongs to the network the driver was last told to join, that
\* network is the attempted slot of the set under verification, and no other
\* machine has started a connection.  It holds while handlers do not preempt
\* process().
LinkIsConfigured ==
    /\ link # None => link = target
    /\ attached => target \in {None, config}
NoLegacyAttempt ==
    attached =>
        /\ cpSsid = None
        /\ cp \notin {"delaying", "starting", "waiting"}
        /\ pc \notin Reacting \ {"kept", "finalize"}
JudgedIsAttempting == pc \in {"joined", "expired"} => state = "ATTEMPTING"
LinkStands == pc = "joined" => Usable
SetIsLoaded == attached /\ state # "IDLE" => loaded
AttemptIsConfigured ==
    /\ state = "CONNECTED" => ~CandidateActive
    /\ state = "ATTEMPTING" => attempted \in Slots
    /\ attached /\ state = "ATTEMPTING" /\ CandidateActive =>
         Enabled(candidate, attempted) /\ config = candidate.slot[attempted]

CandidatePursued ==
    /\ LinkIsConfigured
    /\ NoLegacyAttempt
    /\ JudgedIsAttempting
    /\ LinkStands
    /\ SetIsLoaded
    /\ AttemptIsConfigured

\* The store sees only verified candidates, deliberate writes and the slot
\* that connected, as long as handlers do not preempt process().
Durable == INSTANCE VerifiedStore WITH stored <- store, proposal <- candidate
CandidateVerified == Durable!VerifiedSpec

\* If they do, a candidate may be exchanged after the attempt was judged.  Still
\* the store sees only whole sets that were offered and are valid, with a slot
\* of theirs, deliberate writes, and the slot that connected.
OnlyOffered == Durable!Spec

----
(* Liveness                                                                 *)

Serviceable == \E s \in Slots : profiles.slot[s] \in Reachable

\* A connection cycle of an attached store ends: in a connection, in a pause,
\* with the portal, or by a call that stops the controller.
CycleEnds ==
    attached /\ state \in {"ATTEMPTING", "SWITCHING"}
        ~> state \notin {"ATTEMPTING", "SWITCHING"}

\* An attempt submitted through a portal is decided, unless the application
\* stops the controller with a candidate it rejects.
PortalAttemptDecided ==
    fromPortal /\ state \in {"ATTEMPTING", "SWITCHING"} ~> ~fromPortal \/ state = "IDLE"

\* A station that lost a working connection gets back on a stored network that
\* is in range, unless a call, a request or another loss intervenes.
RecoversFromLoss ==
    \A k \in 0 .. MaxCalls :
        (/\ attached /\ everConnected /\ ~CandidateActive /\ Serviceable
         /\ state \in {"ATTEMPTING", "SWITCHING", "BACKOFF"}
         /\ calls = k)
        ~> (state = "CONNECTED" \/ calls > k)

----
(* A claim of the source that the code does not keep                         *)

\* startStationCandidate's comment: a profile attempt is not reported as a
\* success before the controller has a usable station address.
SuccessHasAddress ==
    [][attached /\ cp = "queued" /\ cp' = "success" => Usable]_vars
====
