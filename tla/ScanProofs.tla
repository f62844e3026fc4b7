---- MODULE ScanProofs ----
(***************************************************************************)
(* The scan engine: type correctness, on both platforms and with any       *)
(* interleaving; and, where the event task is not interrupted (ESP8266,    *)
(* and ESP32 as long as the loop task does not run between the two steps   *)
(* of WiFi_scanComplete), that no storage outlives the portal, that the    *)
(* cache holds what one scan has found, and that a save goes before a      *)
(* scan.  Then the list made of the results: each loop of                  *)
(* collectVisibleScanResults by induction over the entries it has gone     *)
(* through, for lists of any length.                                       *)
(***************************************************************************)
EXTENDS ScanStatus, SequenceTheorems, FunctionTheorems, FiniteSetTheorems, TLAPS

\* Who a scan belongs to: a portal that is up and not being closed.
ScanOwned ==
    /\ event # None => state = "running"
    /\ state = "running" => PortalUp
    /\ blocked = "opening" => configActive
    /\ blocked = "closing" => configActive /\ ~webActive /\ ~held /\ state = "idle"

\* A count that is on its way is that of the results the driver keeps, or none.
CountsHaveResults ==
    /\ notice \/ event # None => esp32
    /\ event # None => event = Wrapped \/ (radio = "done" /\ event = Len(found))
    /\ completion # None =>
         \/ esp32 /\ completion.count = Wrapped
         \/ radio = "done" /\ completion.count = Len(found)

\* A save that the portal's machine has taken up has ended the scan.
TakenUpAlone == connect = "working" => state # "running"

ScanInv ==
    /\ ScanTypeOK
    /\ CompletionOfRunningScan
    /\ ScanOwned
    /\ StorageReleased
    /\ CountsHaveResults
    /\ ResultsAreReal
    /\ TakenUpAlone

----
(* Types                                                                    *)

\* cacheScanResults builds a list of entries, whatever the driver has.
LEMMA CollectedTypeOK ==
    ASSUME NEW n \in Nat, found \in Findings
    PROVE  Collected(n) \in Seq(Entry)
<1>1. found \in Seq(Entry)
  BY ScanAssumption DEF ScanAssumption
<1>2. \A i \in 1 .. n : radio = "done" /\ i <= Len(found) => found[i] \in Entry
  BY <1>1
<1>3. Blank \in Entry
  BY ScanAssumption DEF ScanAssumption, Entry, Blank
<1>4. Collected(n) \in [1 .. n -> Entry]
  BY <1>2, <1>3 DEF Collected
<1> QED
  BY <1>4

\* The engine's variables keep their types when nothing happens to it ...
LEMMA EngineUntouched ==
    ASSUME EngineTypeOK,
           UNCHANGED <<state, valid, pending, force, completion, running, finished>>,
           UNCHANGED <<cache, held, radio, handOff>>
    PROVE  EngineTypeOK'
BY DEF EngineTypeOK

\* ... and after each of its operations.
LEMMA FinalizeTypeOK ==
    ASSUME EngineTypeOK, NEW entries \in Seq(Entry), Finalize(entries)
    PROVE  EngineTypeOK'
<1>1. held' \in BOOLEAN
  BY DEF EngineTypeOK, Finalize
<1>2. radio' \in {"idle", "scanning", "done"}
  BY DEF EngineTypeOK, Finalize, DeleteResults
<1> QED
  BY <1>1, <1>2 DEF EngineTypeOK, Finalize, Resting

LEMMA FailTypeOK ==
    ASSUME EngineTypeOK, NEW as \in Resting, Fail(as)
    PROVE  EngineTypeOK'
<1>1. cache' \in Seq(Entry)
  BY DEF Fail
<1>2. radio' \in {"idle", "scanning", "done"}
  BY DEF EngineTypeOK, Fail, DeleteResults
<1> QED
  BY <1>1, <1>2 DEF EngineTypeOK, Fail, Resting

LEMMA ResetTypeOK ==
    ASSUME EngineTypeOK, gen \in Nat, NEW clear \in BOOLEAN, NEW to \in {"idle", "queued"},
           Reset(clear, to), held' \in BOOLEAN
    PROVE  EngineTypeOK' /\ gen' \in Nat
<1>1. cache' \in Seq(Entry)
  BY DEF EngineTypeOK, Reset
<1>2. state' \in Resting \cup {"queued", "running"}
  BY DEF Reset, Resting
<1>3. valid' \in BOOLEAN /\ pending' \in BOOLEAN
  BY DEF EngineTypeOK, Reset
<1>4. radio' \in {"idle", "scanning", "done"}
  BY DEF EngineTypeOK, Reset, DeleteResults
<1>5. running' \in Nat /\ gen' \in Nat
  BY DEF Reset
<1>6. completion' = None /\ finished' \in BOOLEAN /\ force' \in BOOLEAN
  BY DEF Reset
<1>7. handOff' \in BOOLEAN
  BY DEF EngineTypeOK, Reset
<1> QED
  BY <1>1, <1>2, <1>3, <1>4, <1>5, <1>6, <1>7 DEF EngineTypeOK

LEMMA StartRunsTypeOK ==
    ASSUME EngineTypeOK, gen \in Nat, StartRuns
    PROVE  EngineTypeOK'
<1>1. cache' \in Seq(Entry)
  BY DEF EngineTypeOK, StartRuns
<1>2. valid' \in BOOLEAN
  BY DEF EngineTypeOK, StartRuns
<1>3. radio' \in {"idle", "scanning", "done"}
  BY DEF StartRuns
<1>4. state' = "running" /\ running' \in Nat /\ completion' = None
  BY DEF StartRuns
<1> QED
  BY <1>1, <1>2, <1>3, <1>4 DEF EngineTypeOK, StartRuns

LEMMA InitTypeOK == Init => ScanTypeOK
<1> SUFFICES ASSUME Init PROVE ScanTypeOK
  OBVIOUS
<1>1. EngineTypeOK
  <2>1. cache \in Seq(Entry)
    BY DEF Init
  <2>2. state \in Resting /\ completion = None /\ running \in Nat
    BY DEF Init, Resting
  <2> QED
    BY <2>1, <2>2 DEF Init, EngineTypeOK
<1>2. PortalTypeOK
  <2>1. 0 \in 0 .. MaxCalls
    BY ScanAssumption DEF ScanAssumption
  <2> QED
    BY <2>1 DEF Init, PortalTypeOK
<1> QED
  BY <1>1, <1>2, ScanAssumption DEF ScanAssumption, Init, ScanTypeOK

LEMMA CountTypeOK ==
    ASSUME PortalTypeOK, Count
    PROVE  calls' \in 0 .. MaxCalls
BY ScanAssumption DEF ScanAssumption, PortalTypeOK, Count

\* Opening, closing, saves and exits.
LEMMA PortalStepTypeOK ==
    ASSUME ScanTypeOK, PortalStep
    PROVE  PortalTypeOK' /\ EngineTypeOK' /\ gen' \in Nat
<1> USE DEF ScanTypeOK
<1>1. CASE OpenConfigPortal
  <2>1. exiting' \in BOOLEAN
    BY <1>1 DEF OpenConfigPortal, PortalTypeOK
  <2> QED
    BY <1>1, <2>1, CountTypeOK, EngineUntouched
    DEF OpenConfigPortal, Call, LoopStep, PortalTypeOK, scanVars, cacheVars
<1>2. CASE SetupConfigPortal
  <2>1. EngineTypeOK' /\ gen' \in Nat
    BY <1>2, ResetTypeOK DEF SetupConfigPortal, EngineTypeOK
  <2> QED
    BY <1>2, <2>1 DEF SetupConfigPortal, LoopStep, PortalTypeOK
<1>3. CASE StartWebPortal
  <2>1. EngineTypeOK' /\ gen' \in Nat
    BY <1>3, ResetTypeOK DEF StartWebPortal, EngineTypeOK
  <2>2. exiting' \in BOOLEAN
    BY <1>3 DEF StartWebPortal, PortalTypeOK
  <2> QED
    BY <1>3, <2>1, <2>2, CountTypeOK DEF StartWebPortal, Call, LoopStep, PortalTypeOK
<1>4. CASE BeginClose
  <2>1. EngineTypeOK' /\ gen' \in Nat
    BY <1>4, ResetTypeOK DEF BeginClose
  <2>2. exiting' \in BOOLEAN
    BY <1>4 DEF BeginClose, PortalTypeOK
  <2> QED
    BY <1>4, <2>1, <2>2, CountTypeOK DEF BeginClose, Call, LoopStep, PortalTypeOK
<1>5. CASE CloseWebPortal
  <2>1. EngineTypeOK' /\ gen' \in Nat
    BY <1>5, ResetTypeOK DEF CloseWebPortal
  <2> QED
    BY <1>5, <2>1, CountTypeOK DEF CloseWebPortal, Call, LoopStep, PortalTypeOK
<1>6. CASE TakeConnect
  <2>1. EngineTypeOK' /\ gen' \in Nat
    BY <1>6, ResetTypeOK DEF TakeConnect, EngineTypeOK
  <2> QED
    BY <1>6, <2>1 DEF TakeConnect, LoopStep, PortalTypeOK
<1>7. CASE ScheduleExit \/ SubmitSave
  BY <1>7, CountTypeOK, EngineUntouched
  DEF ScheduleExit, SubmitSave, Call, LoopStep, PortalTypeOK, scanVars, cacheVars
<1>8. CASE EndClose \/ EndConnect
  BY <1>8, EngineUntouched
  DEF EndClose, EndConnect, LoopStep, PortalTypeOK, scanVars, cacheVars, driverVars
<1> QED
  BY <1>1, <1>2, <1>3, <1>4, <1>5, <1>6, <1>7, <1>8 DEF PortalStep

\* The scan machine of process().
LEMMA ProcessScanTypeOK ==
    ASSUME ScanTypeOK, ProcessScan
    PROVE  EngineTypeOK' /\ gen' \in Nat
<1> USE DEF ScanTypeOK
<1>1. CASE ScanCompletes
  <2>1. CASE completion.gen = running
    <3>1. completion.count \in Nat
      BY <1>1, ScanAssumption DEF ScanCompletes, EngineTypeOK, Counts, ScanAssumption
    <3> QED
      BY <1>1, <2>1, <3>1, CollectedTypeOK, FinalizeTypeOK DEF ScanCompletes
  <2>2. CASE completion.gen # running
    BY <1>1, <2>2 DEF ScanCompletes, cacheVars, EngineTypeOK
  <2> QED
    BY <2>1, <2>2
<1>2. CASE ScanCancelled
  BY <1>2, ResetTypeOK DEF ScanCancelled, EngineTypeOK
<1>3. CASE ScanRests
  BY <1>3 DEF ScanRests, EngineTypeOK, cacheVars
<1>4. CASE StartScan
  <2>1. \A entries \in Findings : entries \in Seq(Entry)
    BY ScanAssumption DEF ScanAssumption
  <2> QED
    BY <1>4, <2>1, StartRunsTypeOK, FailTypeOK, FinalizeTypeOK DEF StartScan, Resting
<1>5. CASE ScanTimesOut \/ ScanPolled
  <2>1. found \in Seq(Entry)
    BY ScanAssumption DEF ScanAssumption
  <2> QED
    BY <1>5, <2>1, FailTypeOK, FinalizeTypeOK DEF ScanTimesOut, ScanPolled, Resting
<1> QED
  BY <1>1, <1>2, <1>3, <1>4, <1>5 DEF ProcessScan

\* The driver, the event task and requests.
LEMMA DriverTypeOK ==
    ASSUME ScanTypeOK, ScanEnds \/ EventReads \/ EventStores \/ PauseEnds \/ RequestScan
    PROVE  ScanTypeOK'
<1> USE DEF ScanTypeOK
<1>1. CASE ScanEnds
  <2>1. found' \in Findings /\ radio' \in {"idle", "scanning", "done"} /\ notice' \in BOOLEAN
    BY <1>1 DEF ScanEnds
  <2>2. Len(found') \in Counts
    BY <2>1, ScanAssumption DEF ScanAssumption, Counts
  <2>3. completion' \in {None} \cup [count : Counts, gen : Nat]
    BY <1>1, <2>2 DEF ScanEnds, RecordCompletion, EngineTypeOK
  <2>4. EngineTypeOK'
    BY <1>1, <2>1, <2>3 DEF ScanEnds, EngineTypeOK, cacheVars
  <2>5. PortalTypeOK'
    BY <1>1 DEF ScanEnds, PortalTypeOK, portalVars
  <2> QED
    BY <1>1, <2>1, <2>4, <2>5 DEF ScanEnds
<1>2. CASE EventReads
  <2>1. Len(found) \in Counts /\ Wrapped \in Counts
    BY ScanAssumption DEF ScanAssumption, Counts
  <2>2. EngineTypeOK'
    BY <1>2, EngineUntouched DEF EventReads, scanVars, cacheVars
  <2>3. event' \in Counts \cup {None}
    BY <1>2, <2>1 DEF EventReads
  <2> QED
    BY <1>2, <2>2, <2>3 DEF EventReads, PortalTypeOK, portalVars, scanVars
<1>3. CASE EventStores
  <2>1. EngineTypeOK'
    BY <1>3 DEF EventStores, EngineTypeOK, cacheVars
  <2> QED
    BY <1>3, <2>1 DEF EventStores, PortalTypeOK, portalVars
<1>4. CASE PauseEnds
  <2>1. EngineTypeOK'
    BY <1>4 DEF PauseEnds, EngineTypeOK, scanVars, cacheVars, driverVars
  <2> QED
    BY <1>4, <2>1 DEF PauseEnds, PortalTypeOK, portalVars, scanVars, driverVars
<1>5. CASE RequestScan
  <2>1. force' \in BOOLEAN
    BY <1>5 DEF RequestScan, EngineTypeOK
  <2>2. EngineTypeOK'
    BY <1>5, <2>1 DEF RequestScan, EngineTypeOK, cacheVars
  <2> QED
    BY <1>5, <2>2, CountTypeOK DEF RequestScan, Call, LoopStep, PortalTypeOK, portalVars
<1> QED
  BY <1>1, <1>2, <1>3, <1>4, <1>5

LEMMA NextTypeOK ==
    ASSUME ScanTypeOK, [Next]_vars
    PROVE  ScanTypeOK'
<1>1. CASE PortalStep
  <2>1. UNCHANGED <<found, notice, event>>
    BY <1>1 DEF PortalStep, OpenConfigPortal, SetupConfigPortal, StartWebPortal, BeginClose,
       EndClose, CloseWebPortal, ScheduleExit, SubmitSave, TakeConnect, EndConnect, Call,
       LoopStep, driverVars
  <2> QED
    BY <1>1, <2>1, PortalStepTypeOK DEF ScanTypeOK
<1>2. CASE ProcessScan
  <2>1. UNCHANGED <<esp32, calls, portalVars, found, notice, event>>
    BY <1>2 DEF ProcessScan, ScanCompletes, ScanCancelled, ScanRests, StartScan, ScanTimesOut,
       ScanPolled, ProcessStep, LoopStep
  <2> QED
    BY <1>2, <2>1, ProcessScanTypeOK DEF ScanTypeOK, PortalTypeOK, portalVars
<1>3. CASE UNCHANGED vars
  <2>1. EngineTypeOK'
    BY <1>3, EngineUntouched DEF ScanTypeOK, vars, scanVars, cacheVars, driverVars
  <2> QED
    BY <1>3, <2>1 DEF ScanTypeOK, PortalTypeOK, vars, portalVars, scanVars, driverVars
<1> QED
  BY <1>1, <1>2, <1>3, DriverTypeOK DEF Next

\* Every variable of the scan engine keeps its type, on both platforms and
\* with any interleaving of the event task.
THEOREM ScanTypeCorrect == Spec => []ScanTypeOK
BY InitTypeOK, NextTypeOK, PTL DEF Spec

----
(* What nothing leaves behind                                               *)

\* Resetting the engine ends the scan and forgets its completion.
LEMMA ResetForgets ==
    ASSUME NEW clear, NEW to \in {"idle", "queued"}, Reset(clear, to)
    PROVE  state' = to /\ state' # "running" /\ running' = 0 /\ completion' = None
BY DEF Reset

\* So does everything that finishes or fails it.
LEMMA EndForgets ==
    ASSUME \/ \E entries : Finalize(entries)
           \/ Fail("failed") \/ Fail("timeout")
    PROVE  state' # "running" /\ running' = 0 /\ completion' = None
BY DEF Finalize, Fail

LEMMA InitScanInv == Init => ScanInv
<1> SUFFICES ASSUME Init PROVE ScanInv
  OBVIOUS
<1>1. CompletionOfRunningScan /\ ScanOwned /\ StorageReleased
  BY DEF Init, ScanOwned, CompletionOfRunningScan, StorageReleased, PortalUp
<1>2. ResultsAreReal
  BY ScanAssumption DEF ScanAssumption, Init, ResultsAreReal
<1>3. CountsHaveResults /\ TakenUpAlone
  BY DEF Init, CountsHaveResults, TakenUpAlone
<1> QED
  BY <1>1, <1>2, <1>3, InitTypeOK DEF ScanInv

\* A step of the loop task finds the event task idle.
LEMMA PortalStepKeeps ==
    ASSUME ScanInv, PortalStep, Preemptive = FALSE
    PROVE  CompletionOfRunningScan' /\ ScanOwned' /\ StorageReleased'
<1> USE DEF ScanInv, ScanOwned, CompletionOfRunningScan, StorageReleased, PortalUp
<1>1. CASE OpenConfigPortal
  BY <1>1 DEF OpenConfigPortal, Call, LoopStep, scanVars, cacheVars
<1>2. CASE SetupConfigPortal
  <2>1. state' # "running" /\ running' = 0 /\ completion' = None
    BY <1>2, ResetForgets DEF SetupConfigPortal
  <2> QED
    BY <1>2, <2>1 DEF SetupConfigPortal, LoopStep, EventTaskIdle
<1>3. CASE TakeConnect
  <2>1. state' = "idle" /\ running' = 0 /\ completion' = None
    BY <1>3, ResetForgets DEF TakeConnect
  <2> QED
    BY <1>3, <2>1 DEF TakeConnect, LoopStep, EventTaskIdle
<1>4. CASE ScheduleExit
  BY <1>4 DEF ScheduleExit, Call, LoopStep, scanVars, cacheVars
<1>5. CASE SubmitSave
  BY <1>5 DEF SubmitSave, Call, LoopStep, scanVars, cacheVars
<1>6. CASE EndConnect
  BY <1>6 DEF EndConnect, LoopStep, scanVars, cacheVars
<1>7. CASE StartWebPortal
  BY <1>7, ResetForgets DEF StartWebPortal, Call, LoopStep, EventTaskIdle
<1>8. CASE BeginClose \/ CloseWebPortal
  BY <1>8, ResetForgets DEF BeginClose, CloseWebPortal, Call, LoopStep, EventTaskIdle
<1>9. CASE EndClose
  BY <1>9 DEF EndClose, EventTaskIdle, scanVars, cacheVars, driverVars
<1> QED
  BY <1>1, <1>2, <1>3, <1>4, <1>5, <1>6, <1>7, <1>8, <1>9 DEF PortalStep

LEMMA ProcessScanKeeps ==
    ASSUME ScanInv, ProcessScan, Preemptive = FALSE
    PROVE  CompletionOfRunningScan' /\ ScanOwned' /\ StorageReleased'
<1> USE DEF ScanInv, ScanOwned, CompletionOfRunningScan, StorageReleased, PortalUp
<1>0. /\ event = None /\ UNCHANGED <<event, portalVars>>
      /\ blocked # "closing"
  BY DEF ProcessScan, ScanCompletes, ScanCancelled, ScanRests, StartScan, ScanTimesOut,
     ScanPolled, ProcessStep, LoopStep, EventTaskIdle
<1>1. CASE ScanCompletes
  <2>1. completion # None /\ completion.gen = running /\ PortalUp
    BY <1>1 DEF ScanCompletes
  <2> QED
    BY <1>0, <1>1, <2>1, EndForgets DEF ScanCompletes, portalVars
<1>2. CASE ScanCancelled
  BY <1>0, <1>2, ResetForgets DEF ScanCancelled, portalVars
<1>3. CASE ScanRests
  BY <1>0, <1>3 DEF ScanRests, Resting, portalVars, cacheVars
<1>4. CASE StartScan
  <2>1. PortalUp /\ connect = "no"
    BY <1>4 DEF StartScan, CanRun
  <2>2. CASE StartRuns
    <3>1. state' = "running" /\ running' = gen + 1 /\ completion' = None
      BY <2>2 DEF StartRuns
    <3>2. running' # 0
      BY <3>1 DEF ScanTypeOK
    <3> QED
      BY <1>0, <2>1, <3>1, <3>2 DEF portalVars
  <2>3. CASE Fail("failed") \/ \E entries \in Findings : Finalize(entries)
    BY <1>0, <2>1, <2>3, EndForgets DEF portalVars
  <2> QED
    BY <1>4, <2>2, <2>3 DEF StartScan
<1>5. CASE ScanTimesOut \/ ScanPolled
  BY <1>0, <1>5, EndForgets DEF ScanTimesOut, ScanPolled, CanRun, portalVars
<1> QED
  BY <1>1, <1>2, <1>3, <1>4, <1>5 DEF ProcessScan

LEMMA DriverKeeps ==
    ASSUME ScanInv,
           RequestScan \/ ScanEnds \/ EventReads \/ EventStores \/ PauseEnds \/ UNCHANGED vars,
           Preemptive = FALSE
    PROVE  CompletionOfRunningScan' /\ ScanOwned' /\ StorageReleased'
<1> USE DEF ScanInv, ScanOwned, CompletionOfRunningScan, StorageReleased, PortalUp
<1>1. CASE RequestScan
  BY <1>1 DEF RequestScan, Call, LoopStep, EventTaskIdle, portalVars, cacheVars
<1>2. CASE ScanEnds
  BY <1>2 DEF ScanEnds, RecordCompletion, EventTaskIdle, portalVars, cacheVars
<1>3. CASE EventReads
  BY <1>3 DEF EventReads, portalVars, scanVars, cacheVars
<1>4. CASE EventStores
  BY <1>4 DEF EventStores, portalVars, cacheVars
<1>5. CASE PauseEnds \/ UNCHANGED vars
  BY <1>5 DEF PauseEnds, vars, portalVars, scanVars, cacheVars, driverVars
<1> QED
  BY <1>1, <1>2, <1>3, <1>4, <1>5

----
(* What the cache holds                                                     *)

\* The cache stays what it is, is emptied, or takes the results of a scan over.
LEMMA CacheHasResults ==
    ASSUME ResultsAreReal, esp32' = esp32,
           cache' = cache \/ cache' = <<>> \/ cache' \in Findings
    PROVE  ResultsAreReal'
<1>1. CASE cache' = cache
  BY <1>1 DEF ResultsAreReal, PaddedList
<1>2. CASE cache' \in Findings
  BY <1>2 DEF ResultsAreReal
<1> QED
  BY <1>1, <1>2, ScanAssumption DEF ScanAssumption

\* As many entries as the driver has results: those results, in their order.
LEMMA CollectedWhole ==
    ASSUME found \in Findings, radio = "done"
    PROVE  Collected(Len(found)) = found
<1>1. found \in Seq(Entry)
  BY ScanAssumption DEF ScanAssumption
<1>2. \A i \in 1 .. Len(found) : i <= Len(found)
  BY <1>1
<1>3. Collected(Len(found)) = [i \in 1 .. Len(found) |-> found[i]]
  BY <1>2 DEF Collected
<1> QED
  BY <1>1, <1>3

\* With a wrapped count, the results the driver has are followed by entries
\* without a name.
LEMMA CollectedPadded ==
    ASSUME found \in Findings, esp32, esp32' = esp32, cache' = Collected(Wrapped)
    PROVE  ResultsAreReal'
<1> DEFINE f == IF radio = "done" THEN found ELSE <<>>
<1>1. f \in Findings /\ Wrapped \in Nat
  BY ScanAssumption DEF ScanAssumption
<1>2. f \in Seq(Entry)
  BY <1>1, ScanAssumption DEF ScanAssumption
<1>3. Len(cache') = Wrapped /\ DOMAIN cache' = 1 .. Wrapped
  <2>1. cache' = [i \in 1 .. Wrapped |-> IF radio = "done" /\ i <= Len(found)
                                           THEN found[i] ELSE Blank]
    BY DEF Collected
  <2> QED
    BY <1>1, <2>1
<1>4. \A i \in 1 .. Wrapped : cache'[i] = IF i <= Len(f) THEN f[i] ELSE Blank
  <2> SUFFICES ASSUME NEW i \in 1 .. Wrapped
               PROVE  cache'[i] = IF i <= Len(f) THEN f[i] ELSE Blank
    OBVIOUS
  <2>1. cache'[i] = IF radio = "done" /\ i <= Len(found) THEN found[i] ELSE Blank
    BY DEF Collected
  <2>2. CASE radio = "done"
    BY <2>1, <2>2
  <2>3. CASE radio # "done"
    <3>1. Len(f) = 0 /\ ~(i <= 0)
      BY <1>1, <2>3
    <3> QED BY <2>1, <2>3, <3>1
  <2> QED BY <2>2, <2>3
<1>5. \A i \in DOMAIN f : i <= Len(f) /\ i \in 1 .. Len(f)
  BY <1>2
<1> HIDE DEF f
<1>6. \A i \in DOMAIN cache' : cache'[i] = IF i <= Len(f) THEN f[i] ELSE Blank
  BY <1>3, <1>4
<1> QED
  BY <1>1, <1>3, <1>6 DEF ResultsAreReal, PaddedList

LEMMA PortalStepKeepsResults ==
    ASSUME ScanInv, PortalStep, Preemptive = FALSE
    PROVE  CountsHaveResults' /\ ResultsAreReal' /\ TakenUpAlone'
<1> USE DEF ScanInv
<1>1. UNCHANGED <<esp32, found, notice, event>> /\ event = None
  BY DEF PortalStep, OpenConfigPortal, SetupConfigPortal, StartWebPortal, BeginClose, EndClose,
     CloseWebPortal, ScheduleExit, SubmitSave, TakeConnect, EndConnect, Call, LoopStep,
     EventTaskIdle, driverVars
<1>2. CASE OpenConfigPortal \/ ScheduleExit \/ SubmitSave \/ EndConnect \/ EndClose
  <2>1. /\ UNCHANGED <<scanVars, cacheVars, radio>>
        /\ connect' \in {"no", "queued", "candidate", connect}
    BY <1>2 DEF OpenConfigPortal, ScheduleExit, SubmitSave, EndConnect, EndClose, driverVars
  <2>2. ResultsAreReal'
    BY <1>1, <2>1, CacheHasResults DEF cacheVars
  <2> QED
    BY <1>1, <2>1, <2>2 DEF CountsHaveResults, TakenUpAlone, scanVars
<1>3. CASE SetupConfigPortal \/ StartWebPortal \/ BeginClose \/ CloseWebPortal \/ TakeConnect
  <2>1. completion' = None /\ state' # "running" /\ (cache' = cache \/ cache' = <<>>)
    BY <1>3 DEF SetupConfigPortal, StartWebPortal, BeginClose, CloseWebPortal, TakeConnect, Reset
  <2>2. ResultsAreReal'
    BY <1>1, <2>1, CacheHasResults
  <2> QED
    BY <1>1, <2>1, <2>2 DEF CountsHaveResults, TakenUpAlone
<1> QED
  BY <1>2, <1>3 DEF PortalStep

LEMMA ProcessScanKeepsResults ==
    ASSUME ScanInv, ProcessScan, Preemptive = FALSE
    PROVE  CountsHaveResults' /\ ResultsAreReal' /\ TakenUpAlone'
<1> USE DEF ScanInv
<1>1. UNCHANGED <<esp32, found, notice, event, connect>> /\ event = None
  BY DEF ProcessScan, ScanCompletes, ScanCancelled, ScanRests, StartScan, ScanTimesOut,
     ScanPolled, ProcessStep, LoopStep, EventTaskIdle, portalVars
<1>2. completion' = None
  <2>1. CASE ScanCompletes
    BY <2>1 DEF ScanCompletes, Finalize
  <2>2. CASE ScanRests
    BY <2>2 DEF ScanRests
  <2>3. CASE ScanCancelled \/ StartScan \/ ScanTimesOut \/ ScanPolled
    BY <2>3 DEF ScanCancelled, StartScan, ScanTimesOut, ScanPolled, Reset, StartRuns, Fail,
       Finalize
  <2> QED BY <2>1, <2>2, <2>3 DEF ProcessScan
<1>3. CountsHaveResults'
  BY <1>1, <1>2 DEF CountsHaveResults
<1>4. TakenUpAlone'
  <2>1. CASE ScanCompletes
    BY <1>1, <2>1 DEF ScanCompletes, Finalize, TakenUpAlone
  <2>2. CASE StartScan
    BY <1>1, <2>2 DEF StartScan, CanRun, TakenUpAlone
  <2>3. CASE ScanRests
    BY <1>1, <2>3 DEF ScanRests, Resting, TakenUpAlone
  <2>4. CASE ScanCancelled \/ ScanTimesOut \/ ScanPolled
    BY <2>4 DEF ScanCancelled, ScanTimesOut, ScanPolled, Reset, Fail, Finalize, TakenUpAlone
  <2> QED BY <2>1, <2>2, <2>3, <2>4 DEF ProcessScan
<1>5. ResultsAreReal'
  <2>1. found \in Findings
    BY DEF ScanTypeOK
  <2>2. CASE ScanCompletes
    <3>1. completion # None /\ completion.gen = running
      BY <2>2 DEF ScanCompletes, CompletionOfRunningScan
    <3>2. cache' = Collected(completion.count)
      BY <2>2, <3>1 DEF ScanCompletes, Finalize
    <3>3. CASE esp32 /\ completion.count = Wrapped
      BY <1>1, <2>1, <3>2, <3>3, CollectedPadded
    <3>4. CASE radio = "done" /\ completion.count = Len(found)
      BY <1>1, <2>1, <3>2, <3>4, CollectedWhole, CacheHasResults
    <3> QED BY <3>1, <3>3, <3>4 DEF CountsHaveResults
  <2>3. CASE ScanCancelled \/ ScanRests \/ ScanTimesOut \/ ScanPolled
    <3>1. cache' = cache \/ cache' = <<>> \/ cache' \in Findings
      BY <2>1, <2>3 DEF ScanCancelled, ScanRests, ScanTimesOut, ScanPolled, Reset, Fail,
         Finalize, cacheVars
    <3> QED BY <1>1, <3>1, CacheHasResults
  <2>4. CASE StartScan
    <3>1. cache' = cache \/ cache' = <<>> \/ cache' \in Findings
      BY <2>4 DEF StartScan, StartRuns, Fail, Finalize
    <3> QED BY <1>1, <3>1, CacheHasResults
  <2> QED BY <2>2, <2>3, <2>4 DEF ProcessScan
<1> QED
  BY <1>3, <1>4, <1>5

LEMMA DriverKeepsResults ==
    ASSUME ScanInv,
           RequestScan \/ ScanEnds \/ EventReads \/ EventStores \/ PauseEnds \/ UNCHANGED vars,
           Preemptive = FALSE
    PROVE  CountsHaveResults' /\ ResultsAreReal' /\ TakenUpAlone'
<1> USE DEF ScanInv
<1>1. ResultsAreReal'
  <2>1. esp32' = esp32 /\ cache' = cache
    BY DEF RequestScan, Call, LoopStep, ScanEnds, EventReads, EventStores, PauseEnds, vars,
           cacheVars
  <2> QED BY <2>1, CacheHasResults
<1>2. TakenUpAlone'
  BY DEF RequestScan, ScanEnds, EventReads, EventStores, PauseEnds, vars, portalVars, scanVars,
     TakenUpAlone
<1>3. CountsHaveResults'
  <2>1. CASE RequestScan
    BY <2>1 DEF RequestScan, Call, LoopStep, CountsHaveResults
  <2>2. CASE ScanEnds
    <3>1. UNCHANGED <<esp32, event>> /\ event = None /\ radio = "scanning"
      BY <2>2 DEF ScanEnds, EventTaskIdle
    <3>2. CASE esp32
      BY <2>2, <3>1, <3>2 DEF ScanEnds, CountsHaveResults
    <3>3. CASE ~esp32
      <4>1. radio' = "done" /\ notice' = notice
            /\ (completion' # None => completion' = [count |-> Len(found'), gen |-> running]
                                      \/ completion' = completion)
        BY <2>2, <3>3 DEF ScanEnds, RecordCompletion
      <4>2. completion = None
        BY <3>1, <3>3 DEF CountsHaveResults
      <4> QED BY <3>1, <3>3, <4>1, <4>2 DEF CountsHaveResults
    <3> QED BY <3>2, <3>3
  <2>3. CASE EventReads
    BY <2>3 DEF EventReads, scanVars, CountsHaveResults
  <2>4. CASE EventStores
    BY <2>4 DEF EventStores, CountsHaveResults
  <2>5. CASE PauseEnds \/ UNCHANGED vars
    BY <2>5 DEF PauseEnds, vars, scanVars, driverVars, CountsHaveResults
  <2> QED BY <2>1, <2>2, <2>3, <2>4, <2>5
<1> QED
  BY <1>1, <1>2, <1>3

\* The inductive invariant: a scan and its completion belong to a portal that
\* is up, nothing survives the portal's end, and what is counted is there.
THEOREM ScanInvariant ==
    ASSUME Preemptive = FALSE
    PROVE  Spec => []ScanInv
<1>1. ScanInv /\ [Next]_vars => ScanInv'
  <2> SUFFICES ASSUME ScanInv, [Next]_vars PROVE ScanInv'
    OBVIOUS
  <2>1. ScanTypeOK'
    BY NextTypeOK DEF ScanInv
  <2>2. CompletionOfRunningScan' /\ ScanOwned' /\ StorageReleased'
    BY PortalStepKeeps, ProcessScanKeeps, DriverKeeps DEF Next
  <2>3. CountsHaveResults' /\ ResultsAreReal' /\ TakenUpAlone'
    BY PortalStepKeepsResults, ProcessScanKeepsResults, DriverKeepsResults DEF Next
  <2> QED
    BY <2>1, <2>2, <2>3 DEF ScanInv
<1> QED
  BY <1>1, InitScanInv, PTL DEF Spec

\* Without preemption of the event task the cache is released with the last
\* portal and stays released, whatever scans were requested, running or about
\* to complete.
THEOREM StorageIsReleased ==
    ASSUME Preemptive = FALSE
    PROVE  Spec => []StorageReleased
BY ScanInvariant, PTL DEF ScanInv

\* Without preemption the cache is always what one scan has found, whole and in
\* the driver's order, or such a list padded with entries without a name.
THEOREM ResultsAreOfOneScan ==
    ASSUME Preemptive = FALSE
    PROVE  Spec => []ResultsAreReal
BY ScanInvariant, PTL DEF ScanInv

\* Without preemption a pending save keeps scans from starting, in the driver and
\* in the engine, and one that the portal's machine has taken up meets none.
THEOREM SavesGoBeforeScans ==
    ASSUME Preemptive = FALSE
    PROVE  Spec => SaveGoesFirst
<1> DEFINE Step == /\ connect # "no" /\ radio # "scanning" => radio' # "scanning"
                   /\ connect # "no" /\ ProcessScan => state' # "running"
                   /\ connect = "working" => state # "running"
<1>1. ScanInv /\ [Next]_vars => [Step]_vars
  <2> SUFFICES ASSUME ScanInv, Next PROVE Step
    BY DEF vars
  <2> USE DEF ScanInv
  <2>1. connect = "working" => state # "running"
    BY DEF TakenUpAlone
  <2>2. ASSUME connect # "no", radio # "scanning" PROVE radio' # "scanning"
    <3>1. CASE PortalStep
      BY <2>2, <3>1 DEF PortalStep, OpenConfigPortal, SetupConfigPortal, StartWebPortal,
         BeginClose, EndClose, CloseWebPortal, ScheduleExit, SubmitSave, TakeConnect, EndConnect,
         Reset, DeleteResults, driverVars
    <3>2. CASE ProcessScan
      BY <2>2, <3>2 DEF ProcessScan, ScanCompletes, ScanCancelled, ScanRests, StartScan, CanRun,
         ScanTimesOut, ScanPolled, Reset, Finalize, Fail, DeleteResults
    <3>3. CASE RequestScan \/ ScanEnds \/ EventReads \/ EventStores \/ PauseEnds
      BY <2>2, <3>3 DEF RequestScan, ScanEnds, EventReads, EventStores, PauseEnds, driverVars
    <3> QED BY <3>1, <3>2, <3>3 DEF Next
  <2>3. ASSUME connect # "no", ProcessScan PROVE state' # "running"
    <3>1. CASE ScanCompletes
      BY <3>1 DEF ScanCompletes, CompletionOfRunningScan, Finalize
    <3>2. CASE ScanRests
      BY <3>2 DEF ScanRests, Resting
    <3>3. CASE ScanCancelled \/ ScanTimesOut \/ ScanPolled
      BY <3>3 DEF ScanCancelled, ScanTimesOut, ScanPolled, Reset, Fail, Finalize
    <3>4. CASE StartScan
      BY <2>3, <3>4 DEF StartScan, CanRun
    <3> QED BY <2>3, <3>1, <3>2, <3>3, <3>4 DEF ProcessScan
  <2> QED BY <2>1, <2>2, <2>3
<1> QED
  BY <1>1, ScanInvariant, PTL DEF Spec, SaveGoesFirst

----
(* Counting up, and computations that count up                              *)

\* A set that has 0 and the successor of each of its numbers has them all: the
\* least of 1 .. n, for n that are missing, would have a smaller one.
LEMMA NatSetInduction ==
    ASSUME NEW T, 0 \in T, \A n \in Nat : n \in T => n + 1 \in T
    PROVE  Nat \subseteq T
<1> SUFFICES ASSUME NEW b \in Nat, b \notin T PROVE FALSE
  OBVIOUS
<1> DEFINE R == StrictSubsetOrdering(Nat)
<1> DEFINE F == FiniteSubsetsOf(Nat)
<1> DEFINE U == {A \in F : \E n \in Nat \ T : A = 1 .. n}
<1>1. IsWellFoundedOn(R, F)
  BY FS_StrictSubsetOrderingWellFounded
<1>2. U # {} /\ U \subseteq F
  <2>1. 1 .. b \in F
    BY FS_Interval DEF FiniteSubsetsOf
  <2> QED
    BY <2>1
<1>3. PICK A \in U : \A B \in U : ~(<<B, A>> \in R)
  <2> HIDE DEF R, F, U
  <2> QED BY <1>1, <1>2, WFMin
<1>4. PICK n \in Nat \ T : A = 1 .. n
  OBVIOUS
<1>5. n # 0 /\ n - 1 \in Nat /\ n - 1 \notin T
  <2>1. n # 0 /\ n - 1 \in Nat
    OBVIOUS
  <2>2. n = (n - 1) + 1
    BY <2>1
  <2> QED BY <2>1, <2>2
<1>6. 1 .. (n - 1) \in U
  <2>1. IsFiniteSet(1 .. (n - 1)) /\ 1 .. (n - 1) \subseteq Nat
    BY <1>5, FS_Interval
  <2> QED
    BY <1>5, <2>1 DEF FiniteSubsetsOf
<1>7. <<1 .. (n - 1), 1 .. n>> \in R
  <2>1. /\ 1 .. (n - 1) \subseteq Nat /\ 1 .. n \subseteq Nat
        /\ 1 .. (n - 1) \subseteq 1 .. n /\ n \in 1 .. n /\ n \notin 1 .. (n - 1)
    BY <1>5
  <2> QED
    BY <2>1 DEF StrictSubsetOrdering
<1> QED
  BY <1>3, <1>4, <1>6, <1>7

\* The same for the numbers up to n: what holds at 0 and survives each step of
\* a loop of n steps holds all along.
LEMMA CountTo ==
    ASSUME NEW n \in Nat, NEW T, 0 \in T, \A i \in 1 .. n : i - 1 \in T => i \in T
    PROVE  0 .. n \subseteq T
<1> DEFINE U == {k \in Nat : k <= n => k \in T}
<1>1. 0 \in U
  OBVIOUS
<1>2. \A k \in Nat : k \in U => k + 1 \in U
  <2> SUFFICES ASSUME NEW k \in Nat, k \in U, k + 1 <= n PROVE k + 1 \in T
    OBVIOUS
  <2>1. k \in T /\ k + 1 \in 1 .. n /\ (k + 1) - 1 = k
    OBVIOUS
  <2> QED
    BY <2>1
<1>3. Nat \subseteq U
  <2> HIDE DEF U
  <2> QED BY <1>1, <1>2, NatSetInduction
<1> QED
  BY <1>3

\* A computation in n steps can be carried out.
Carries(f, n, S, s0, step) ==
    /\ f \in [0 .. n -> S]
    /\ f[0] = s0
    /\ \A i \in 1 .. n : f[i] = step[<<i, f[i - 1]>>]

LEMMA StepsExist ==
    ASSUME NEW n \in Nat, NEW S, NEW s0 \in S, NEW step \in [(1 .. n) \X S -> S]
    PROVE  \E f : Carries(f, n, S, s0, step)
<1> DEFINE T == {k \in 0 .. n : \E f \in [0 .. k -> S] :
                    f[0] = s0 /\ \A i \in 1 .. k : f[i] = step[<<i, f[i - 1]>>]}
<1>1. 0 \in T
  <2> DEFINE h == [i \in 0 .. 0 |-> s0]
  <2>1. h \in [0 .. 0 -> S] /\ h[0] = s0 /\ \A i \in 1 .. 0 : h[i] = step[<<i, h[i - 1]>>]
    OBVIOUS
  <2> HIDE DEF h
  <2>2. \E f \in [0 .. 0 -> S] :
            f[0] = s0 /\ \A i \in 1 .. 0 : f[i] = step[<<i, f[i - 1]>>]
    BY <2>1
  <2> QED
    BY <2>2
<1>2. \A k \in 1 .. n : k - 1 \in T => k \in T
  <2> SUFFICES ASSUME NEW k \in 1 .. n, k - 1 \in T PROVE k \in T
    OBVIOUS
  <2>1. PICK f \in [0 .. k - 1 -> S] :
              f[0] = s0 /\ \A i \in 1 .. k - 1 : f[i] = step[<<i, f[i - 1]>>]
    OBVIOUS
  <2> DEFINE g == [i \in 0 .. k |-> IF i = k THEN step[<<k, f[k - 1]>>] ELSE f[i]]
  <2>2. f[k - 1] \in S /\ step[<<k, f[k - 1]>>] \in S
    OBVIOUS
  <2>3. g \in [0 .. k -> S]
    BY <2>2
  <2>4. g[0] = s0
    BY <2>1
  <2>5. \A i \in 1 .. k : g[i] = step[<<i, g[i - 1]>>]
    <3> SUFFICES ASSUME NEW i \in 1 .. k PROVE g[i] = step[<<i, g[i - 1]>>]
      OBVIOUS
    <3>1. i - 1 \in 0 .. k /\ i - 1 # k /\ i \in 0 .. k
      OBVIOUS
    <3>2. g[i - 1] = f[i - 1]
      BY <3>1
    <3>3. CASE i = k
      <4>1. g[i] = step[<<k, f[k - 1]>>]
        BY <3>1, <3>3
      <4> QED BY <4>1, <3>2, <3>3
    <3>4. CASE i # k
      <4>1. g[i] = f[i] /\ i \in 1 .. k - 1
        BY <3>1, <3>4
      <4>2. f[i] = step[<<i, f[i - 1]>>]
        BY <4>1, <2>1
      <4> HIDE DEF g
      <4> QED BY <4>1, <4>2, <3>2
    <3> QED BY <3>3, <3>4
  <2> HIDE DEF g
  <2>6. \E h \in [0 .. k -> S] :
            h[0] = s0 /\ \A i \in 1 .. k : h[i] = step[<<i, h[i - 1]>>]
    BY <2>3, <2>4, <2>5
  <2> QED
    BY <2>6
<1>3. 0 .. n \subseteq T
  <2> HIDE DEF T
  <2> QED BY <1>1, <1>2, CountTo
<1> QED
  BY <1>3 DEF Carries

----
(* The loops do what their definitions say                                  *)

LEMMA ShownUpToSteps ==
    ASSUME NEW minimum, NEW s \in Seq(Entry)
    PROVE  LET upTo == ShownUpTo(minimum, s)
           IN /\ upTo[0] = <<>>
              /\ \A i \in 1 .. Len(s) :
                     upTo[i] = IF Presentable(minimum, s[i]) THEN Append(upTo[i - 1], s[i])
                               ELSE upTo[i - 1]
<1> DEFINE Def(f) == [i \in 0 .. Len(s) |->
                         IF i = 0 THEN <<>>
                         ELSE IF Presentable(minimum, s[i]) THEN Append(f[i - 1], s[i])
                         ELSE f[i - 1]]
<1> DEFINE step == [p \in (1 .. Len(s)) \X Seq(Entry) |->
                       IF Presentable(minimum, s[p[1]]) THEN Append(p[2], s[p[1]]) ELSE p[2]]
<1>1. ShownUpTo(minimum, s) = CHOOSE f : f = Def(f)
  BY DEF ShownUpTo
<1>2. PICK f : Carries(f, Len(s), Seq(Entry), <<>>, step)
  <2>1. step \in [(1 .. Len(s)) \X Seq(Entry) -> Seq(Entry)]
    OBVIOUS
  <2>2. <<>> \in Seq(Entry) /\ Len(s) \in Nat
    OBVIOUS
  <2> HIDE DEF step
  <2> QED BY <2>1, <2>2, StepsExist
<1>3. f = Def(f)
  <2>1. \A i \in 0 .. Len(s) : f[i] = Def(f)[i]
    <3> SUFFICES ASSUME NEW i \in 0 .. Len(s) PROVE f[i] = Def(f)[i]
      OBVIOUS
    <3>1. CASE i = 0
      BY <1>2, <3>1 DEF Carries
    <3>2. CASE i # 0
      <4>1. i \in 1 .. Len(s) /\ i - 1 \in 0 .. Len(s)
        BY <3>2
      <4>2. <<i, f[i - 1]>> \in (1 .. Len(s)) \X Seq(Entry)
        BY <1>2, <4>1 DEF Carries
      <4>3. f[i] = IF Presentable(minimum, s[i]) THEN Append(f[i - 1], s[i]) ELSE f[i - 1]
        BY <1>2, <4>1, <4>2 DEF Carries
      <4> QED BY <4>3, <3>2
    <3> QED BY <3>1, <3>2
  <2>2. DOMAIN f = 0 .. Len(s) /\ DOMAIN Def(f) = 0 .. Len(s)
    BY <1>2 DEF Carries
  <2>3. f = [i \in 0 .. Len(s) |-> f[i]] /\ Def(f) = [i \in 0 .. Len(s) |-> Def(f)[i]]
    BY <1>2 DEF Carries
  <2> HIDE DEF Def
  <2> QED BY <2>1, <2>3
<1>4. ShownUpTo(minimum, s) = Def(ShownUpTo(minimum, s))
  <2> HIDE DEF Def
  <2> QED BY <1>1, <1>3
<1> HIDE DEF step
<1> QED
  <2> DEFINE g == ShownUpTo(minimum, s)
  <2>1. g = Def(g)
    BY <1>4
  <2> HIDE DEF g
  <2>2. g[0] = <<>>
    BY <2>1
  <2>3. \A i \in 1 .. Len(s) :
            g[i] = IF Presentable(minimum, s[i]) THEN Append(g[i - 1], s[i]) ELSE g[i - 1]
    <3> SUFFICES ASSUME NEW i \in 1 .. Len(s)
                 PROVE  g[i] = IF Presentable(minimum, s[i]) THEN Append(g[i - 1], s[i])
                               ELSE g[i - 1]
      OBVIOUS
    <3>1. i \in 0 .. Len(s) /\ i # 0
      OBVIOUS
    <3>2. g[i] = Def(g)[i]
      BY <2>1
    <3> QED BY <3>1, <3>2
  <2> QED BY <2>2, <2>3 DEF g

\* Lists of the length of s.
Alike(s) == {t \in Seq(Entry) : Len(t) = Len(s)}

\* One comparison of the exchange sort puts the stronger entry first.
LEMMA ExchangeSorts ==
    ASSUME NEW s \in Seq(Entry), NEW i \in 1 .. Len(s), NEW j \in 1 .. Len(s), i # j
    PROVE  LET t == Exchange(s, i, j)
           IN /\ t \in Alike(s)
              /\ \A k \in 1 .. Len(s) : k \notin {i, j} => t[k] = s[k]
              /\ \/ t[i] = s[i] /\ t[j] = s[j] /\ s[i].rssi >= s[j].rssi
                 \/ t[i] = s[j] /\ t[j] = s[i] /\ s[j].rssi > s[i].rssi
<1>1. s[i] \in Entry /\ s[j] \in Entry
  OBVIOUS
<1>2. s[i].rssi \in Int /\ s[j].rssi \in Int
  BY <1>1, ScanAssumption DEF ScanAssumption, Entry
<1>3. CASE s[j].rssi > s[i].rssi
  <2> DEFINE u == [s EXCEPT ![i] = s[j]]
             t == [u EXCEPT ![j] = s[i]]
  <2>1. /\ u \in Seq(Entry) /\ Len(u) = Len(s)
        /\ u[i] = s[j] /\ \A k \in 1 .. Len(s) : k # i => u[k] = s[k]
    BY <1>1, ExceptSeq
  <2> HIDE DEF u
  <2>2. t \in Seq(Entry) /\ Len(t) = Len(s)
    BY <1>1, <2>1, ExceptSeq
  <2>3. t[j] = s[i] /\ \A k \in 1 .. Len(s) : k # j => t[k] = u[k]
    BY <1>1, <2>1, ExceptSeq
  <2>4. Exchange(s, i, j) = t
    BY <1>3 DEF Exchange, u
  <2> HIDE DEF t
  <2> QED
    BY <1>3, <2>1, <2>2, <2>3, <2>4 DEF Alike
<1>4. CASE ~(s[j].rssi > s[i].rssi)
  BY <1>2, <1>4 DEF Exchange, Alike
<1> QED
  BY <1>3, <1>4

LEMMA SettledUpToSteps ==
    ASSUME NEW s \in Seq(Entry), NEW i \in 1 .. Len(s)
    PROVE  LET upTo == SettledUpTo(s, i)
           IN /\ upTo[0] = s
              /\ \A j \in 1 .. Len(s) :
                     upTo[j] = IF j <= i THEN s ELSE Exchange(upTo[j - 1], i, j)
<1> DEFINE Def(f) == [j \in 0 .. Len(s) |-> IF j <= i THEN s ELSE Exchange(f[j - 1], i, j)]
<1> DEFINE step == [p \in (1 .. Len(s)) \X Alike(s) |->
                       IF p[1] <= i THEN s ELSE Exchange(p[2], i, p[1])]
<1>1. SettledUpTo(s, i) = CHOOSE f : f = Def(f)
  BY DEF SettledUpTo
<1>2. PICK f : Carries(f, Len(s), Alike(s), s, step)
  <2>1. step \in [(1 .. Len(s)) \X Alike(s) -> Alike(s)]
    <3>1. \A j \in 1 .. Len(s), t \in Alike(s) : j > i => Exchange(t, i, j) \in Alike(s)
      BY ExchangeSorts DEF Alike
    <3> QED BY <3>1 DEF Alike
  <2>2. s \in Alike(s) /\ Len(s) \in Nat
    BY DEF Alike
  <2> HIDE DEF step
  <2> QED BY <2>1, <2>2, StepsExist
<1>3. f = Def(f)
  <2>1. \A j \in 0 .. Len(s) : f[j] = Def(f)[j]
    <3> SUFFICES ASSUME NEW j \in 0 .. Len(s) PROVE f[j] = Def(f)[j]
      OBVIOUS
    <3>1. CASE j = 0
      BY <1>2, <3>1 DEF Carries
    <3>2. CASE j # 0
      <4>1. j \in 1 .. Len(s) /\ j - 1 \in 0 .. Len(s)
        BY <3>2
      <4>2. <<j, f[j - 1]>> \in (1 .. Len(s)) \X Alike(s)
        BY <1>2, <4>1 DEF Carries
      <4>3. f[j] = IF j <= i THEN s ELSE Exchange(f[j - 1], i, j)
        BY <1>2, <4>1, <4>2 DEF Carries
      <4> QED BY <4>3, <3>2
    <3> QED BY <3>1, <3>2
  <2>3. f = [j \in 0 .. Len(s) |-> f[j]] /\ Def(f) = [j \in 0 .. Len(s) |-> Def(f)[j]]
    BY <1>2 DEF Carries
  <2> HIDE DEF Def
  <2> QED BY <2>1, <2>3
<1>4. SettledUpTo(s, i) = Def(SettledUpTo(s, i))
  <2> HIDE DEF Def
  <2> QED BY <1>1, <1>3
<1> HIDE DEF step
<1> QED
  <2> DEFINE g == SettledUpTo(s, i)
  <2>1. g = Def(g)
    BY <1>4
  <2> HIDE DEF g
  <2>2. g[0] = s
    BY <2>1
  <2>3. \A j \in 1 .. Len(s) : g[j] = IF j <= i THEN s ELSE Exchange(g[j - 1], i, j)
    <3> SUFFICES ASSUME NEW j \in 1 .. Len(s)
                 PROVE  g[j] = IF j <= i THEN s ELSE Exchange(g[j - 1], i, j)
      OBVIOUS
    <3>1. j \in 0 .. Len(s)
      OBVIOUS
    <3>2. g[j] = Def(g)[j]
      BY <2>1
    <3> QED BY <3>1, <3>2
  <2> QED BY <2>2, <2>3 DEF g

----
(* The sort                                                                 *)

\* t has the entries of s, in another order.
Rearranges(t, s) ==
    /\ t \in Alike(s)
    /\ \E p \in Bijection(1 .. Len(s), 1 .. Len(s)) : \A k \in 1 .. Len(s) : t[k] = s[p[k]]

LEMMA RearrangesItself ==
    ASSUME NEW s \in Seq(Entry)
    PROVE  Rearranges(s, s)
<1> DEFINE p == [k \in 1 .. Len(s) |-> k]
<1>1. p \in Bijection(1 .. Len(s), 1 .. Len(s))
  BY Fun_IsBij
<1>2. \A k \in 1 .. Len(s) : s[k] = s[p[k]]
  OBVIOUS
<1> HIDE DEF p
<1> QED
  BY <1>1, <1>2 DEF Rearranges, Alike

LEMMA RearrangesTransitively ==
    ASSUME NEW s \in Seq(Entry), NEW t, NEW u, Rearranges(t, s), Rearranges(u, t)
    PROVE  Rearranges(u, s)
<1> DEFINE I == 1 .. Len(s)
<1>1. t \in Alike(s) /\ u \in Alike(s) /\ Len(t) = Len(s)
  BY DEF Rearranges, Alike
<1>2. PICK p \in Bijection(I, I) : \A k \in I : t[k] = s[p[k]]
  BY DEF Rearranges
<1>3. PICK q \in Bijection(I, I) : \A k \in I : u[k] = t[q[k]]
  BY <1>1 DEF Rearranges
<1> DEFINE r == [k \in I |-> p[q[k]]]
<1>4. r \in Bijection(I, I)
  <2> HIDE DEF I
  <2> QED BY Fun_BijTransitive
<1>5. \A k \in I : u[k] = s[r[k]]
  <2> SUFFICES ASSUME NEW k \in I PROVE u[k] = s[r[k]]
    OBVIOUS
  <2>1. q[k] \in I
    <3> HIDE DEF I
    <3>1. q \in [I -> I]
      BY Fun_BijectionProperties
    <3> QED BY <3>1
  <2>2. u[k] = t[q[k]] /\ t[q[k]] = s[p[q[k]]] /\ r[k] = p[q[k]]
    BY <1>2, <1>3, <2>1
  <2> QED BY <2>2
<1> HIDE DEF r
<1> QED
  BY <1>1, <1>4, <1>5 DEF Rearranges

LEMMA ExchangeRearranges ==
    ASSUME NEW s \in Seq(Entry), NEW i \in 1 .. Len(s), NEW j \in 1 .. Len(s), i # j
    PROVE  Rearranges(Exchange(s, i, j), s)
<1> DEFINE t == Exchange(s, i, j)
           I == 1 .. Len(s)
<1>1. /\ t \in Alike(s)
      /\ \A k \in I : k \notin {i, j} => t[k] = s[k]
      /\ \/ t[i] = s[i] /\ t[j] = s[j]
         \/ t[i] = s[j] /\ t[j] = s[i]
  BY ExchangeSorts
<1> HIDE DEF t
<1>2. CASE t[i] = s[i] /\ t[j] = s[j]
  <2> DEFINE p == [k \in I |-> k]
  <2>1. p \in Bijection(I, I)
    BY Fun_IsBij
  <2>2. \A k \in I : t[k] = s[p[k]]
    BY <1>1, <1>2
  <2> HIDE DEF p
  <2> QED BY <1>1, <2>1, <2>2 DEF Rearranges, t
<1>3. CASE t[i] = s[j] /\ t[j] = s[i]
  <2> DEFINE p == [k \in I |-> IF k = i THEN j ELSE IF k = j THEN i ELSE k]
  <2>0. p \in [I -> I] /\ (\A a, b \in I : p[a] = p[b] => a = b)
    OBVIOUS
  <2>1. \A b \in I : \E a \in I : p[a] = b
    <3> SUFFICES ASSUME NEW b \in I PROVE \E a \in I : p[a] = b
      OBVIOUS
    <3>1. p[p[b]] = b /\ p[b] \in I
      OBVIOUS
    <3> HIDE DEF p
    <3> QED BY <3>1
  <2>2. \A k \in I : t[k] = s[p[k]]
    BY <1>1, <1>3
  <2> HIDE DEF p
  <2>3. p \in Bijection(I, I)
    BY <2>0, <2>1, Fun_IsBij
  <2> QED BY <1>1, <2>2, <2>3 DEF Rearranges, t
<1> QED
  BY <1>1, <1>2, <1>3

\* t has the strongest entries of its list in its first i places, in order.
SettledBelow(t, i) ==
    \A a, b \in 1 .. Len(t) : a <= i /\ a < b => t[a].rssi >= t[b].rssi

\* Place i of u has nothing stronger behind it, as far as place j.
SettledAt(u, i, j) == \A k \in 1 .. Len(u) : i < k /\ k <= j => u[i].rssi >= u[k].rssi

\* One comparison: what is settled stays settled, and place i is up to j.
LEMMA ExchangeSettles ==
    ASSUME NEW u \in Seq(Entry), NEW i \in 1 .. Len(u), NEW j \in 1 .. Len(u), i < j,
           SettledBelow(u, i - 1), SettledAt(u, i, j - 1)
    PROVE  SettledBelow(Exchange(u, i, j), i - 1) /\ SettledAt(Exchange(u, i, j), i, j)
<1> DEFINE t == Exchange(u, i, j)
<1>1. /\ t \in Seq(Entry) /\ Len(t) = Len(u)
      /\ \A k \in 1 .. Len(u) : k \notin {i, j} => t[k] = u[k]
      /\ \/ t[i] = u[i] /\ t[j] = u[j] /\ u[i].rssi >= u[j].rssi
         \/ t[i] = u[j] /\ t[j] = u[i] /\ u[j].rssi > u[i].rssi
  BY ExchangeSorts DEF Alike
<1>2. \A k \in 1 .. Len(u) : u[k].rssi \in Int
  <2> SUFFICES ASSUME NEW k \in 1 .. Len(u) PROVE u[k].rssi \in Int
    OBVIOUS
  <2>1. u[k] \in Entry
    OBVIOUS
  <2> QED BY <2>1, ScanAssumption DEF ScanAssumption, Entry
<1> HIDE DEF t
<1>3. SettledBelow(t, i - 1)
  <2> SUFFICES ASSUME NEW a \in 1 .. Len(u), NEW b \in 1 .. Len(u), a <= i - 1, a < b
               PROVE  t[a].rssi >= t[b].rssi
    BY <1>1 DEF SettledBelow
  <2>1. t[a] = u[a]
    BY <1>1
  <2>2. u[a].rssi >= u[b].rssi /\ u[a].rssi >= u[i].rssi /\ u[a].rssi >= u[j].rssi
    BY DEF SettledBelow
  <2>3. t[b] \in {u[b], u[i], u[j]}
    BY <1>1
  <2> QED BY <2>1, <2>2, <2>3
<1>4. SettledAt(t, i, j)
  <2> SUFFICES ASSUME NEW k \in 1 .. Len(u), i < k, k <= j
               PROVE  t[i].rssi >= t[k].rssi
    BY <1>1 DEF SettledAt
  <2>1. CASE k = j
    BY <1>1, <1>2, <2>1
  <2>2. CASE k # j
    <3>1. t[k] = u[k]
      BY <1>1, <2>2
    <3>2. u[i].rssi >= u[k].rssi
      BY <2>2 DEF SettledAt
    <3> QED BY <1>1, <1>2, <3>1, <3>2
  <2> QED BY <2>1, <2>2
<1> QED
  BY <1>3, <1>4 DEF t

\* The inner loop rearranges the list, and settles place i after the ones before.
LEMMA SettleSettles ==
    ASSUME NEW s \in Seq(Entry), NEW i \in 1 .. Len(s)
    PROVE  /\ Rearranges(Settle(s, i), s)
           /\ SettledBelow(s, i - 1) => SettledBelow(Settle(s, i), i)
<1> DEFINE upTo == SettledUpTo(s, i)
           Settled(j) == SettledBelow(upTo[j], i - 1) /\ SettledAt(upTo[j], i, j)
           Right(j) == /\ Rearranges(upTo[j], s)
                       /\ SettledBelow(s, i - 1) => Settled(j)
           T == {j \in 0 .. Len(s) : Right(j)}
<1>1. /\ upTo[0] = s
      /\ \A j \in 1 .. Len(s) : upTo[j] = IF j <= i THEN s ELSE Exchange(upTo[j - 1], i, j)
  BY SettledUpToSteps
<1> HIDE DEF upTo
<1>2. \A j \in 0 .. Len(s) : j <= i => SettledAt(s, i, j)
  BY DEF SettledAt
<1>3. 0 \in T
  <2>1. 0 \in 0 .. Len(s) /\ 0 <= i
    OBVIOUS
  <2> QED BY <1>1, <1>2, <2>1, RearrangesItself
<1>4. \A j \in 1 .. Len(s) : j - 1 \in T => j \in T
  <2> SUFFICES ASSUME NEW j \in 1 .. Len(s), Right(j - 1) PROVE Right(j)
    OBVIOUS
  <2>1. CASE j <= i
    <3>1. upTo[j] = s
      BY <1>1, <2>1
    <3> QED BY <1>2, <2>1, <3>1, RearrangesItself
  <2>2. CASE ~(j <= i)
    <3> DEFINE u == upTo[j - 1]
    <3>1. upTo[j] = Exchange(u, i, j)
      BY <1>1, <2>2
    <3>2. u \in Seq(Entry) /\ Len(u) = Len(s) /\ i < j /\ i # j
      BY <2>2 DEF Rearranges, Alike
    <3>3. Rearranges(Exchange(u, i, j), s)
      <4>1. Rearranges(u, s)
        OBVIOUS
      <4> HIDE DEF u
      <4>2. Rearranges(Exchange(u, i, j), u)
        BY <3>2, ExchangeRearranges
      <4> QED BY <4>1, <4>2, RearrangesTransitively
    <3>4. ASSUME SettledBelow(s, i - 1)
          PROVE  SettledBelow(Exchange(u, i, j), i - 1) /\ SettledAt(Exchange(u, i, j), i, j)
      <4>1. SettledBelow(u, i - 1) /\ SettledAt(u, i, j - 1)
        BY <3>4
      <4> HIDE DEF u
      <4> QED BY <3>2, <4>1, ExchangeSettles
    <3> QED BY <3>1, <3>3, <3>4
  <2> QED BY <2>1, <2>2
<1>5. Right(Len(s))
  <2>1. Len(s) \in Nat
    OBVIOUS
  <2>2. 0 .. Len(s) \subseteq T
    <3> HIDE DEF T
    <3> QED BY <1>3, <1>4, <2>1, CountTo
  <2> QED BY <2>1, <2>2
<1>6. ASSUME SettledBelow(s, i - 1) PROVE SettledBelow(upTo[Len(s)], i)
  <2>1. Len(upTo[Len(s)]) = Len(s)
    BY <1>5 DEF Rearranges, Alike
  <2> SUFFICES ASSUME NEW a \in 1 .. Len(s), NEW b \in 1 .. Len(s), a <= i, a < b
               PROVE  upTo[Len(s)][a].rssi >= upTo[Len(s)][b].rssi
    BY <2>1 DEF SettledBelow
  <2> QED BY <1>5, <1>6, <2>1 DEF SettledBelow, SettledAt
<1> QED
  BY <1>5, <1>6 DEF Settle, upTo

LEMMA OrderedUpToSteps ==
    ASSUME NEW s \in Seq(Entry)
    PROVE  LET upTo == OrderedUpTo(s)
           IN /\ upTo[0] = s
              /\ \A i \in 1 .. Len(s) : upTo[i] = Settle(upTo[i - 1], i)
<1> DEFINE Def(f) == [i \in 0 .. Len(s) |-> IF i = 0 THEN s ELSE Settle(f[i - 1], i)]
<1> DEFINE step == [p \in (1 .. Len(s)) \X Alike(s) |-> Settle(p[2], p[1])]
<1>1. OrderedUpTo(s) = CHOOSE f : f = Def(f)
  BY DEF OrderedUpTo
<1>2. PICK f : Carries(f, Len(s), Alike(s), s, step)
  <2>1. step \in [(1 .. Len(s)) \X Alike(s) -> Alike(s)]
    <3>1. \A i \in 1 .. Len(s), t \in Alike(s) : Settle(t, i) \in Alike(s)
      BY SettleSettles DEF Alike, Rearranges
    <3> QED BY <3>1
  <2>2. s \in Alike(s) /\ Len(s) \in Nat
    BY DEF Alike
  <2> HIDE DEF step
  <2> QED BY <2>1, <2>2, StepsExist
<1>3. f = Def(f)
  <2>1. \A i \in 0 .. Len(s) : f[i] = Def(f)[i]
    <3> SUFFICES ASSUME NEW i \in 0 .. Len(s) PROVE f[i] = Def(f)[i]
      OBVIOUS
    <3>1. CASE i = 0
      BY <1>2, <3>1 DEF Carries
    <3>2. CASE i # 0
      <4>1. i \in 1 .. Len(s) /\ i - 1 \in 0 .. Len(s)
        BY <3>2
      <4>2. <<i, f[i - 1]>> \in (1 .. Len(s)) \X Alike(s)
        BY <1>2, <4>1 DEF Carries
      <4>3. f[i] = Settle(f[i - 1], i)
        BY <1>2, <4>1, <4>2 DEF Carries
      <4> QED BY <4>3, <3>2
    <3> QED BY <3>1, <3>2
  <2>2. f = [i \in 0 .. Len(s) |-> f[i]] /\ Def(f) = [i \in 0 .. Len(s) |-> Def(f)[i]]
    BY <1>2 DEF Carries
  <2> HIDE DEF Def
  <2> QED BY <2>1, <2>2
<1>4. OrderedUpTo(s) = Def(OrderedUpTo(s))
  <2> HIDE DEF Def
  <2> QED BY <1>1, <1>3
<1> HIDE DEF step
<1> QED
  <2> DEFINE g == OrderedUpTo(s)
  <2>1. g = Def(g)
    BY <1>4
  <2> HIDE DEF g
  <2>2. g[0] = s
    BY <2>1
  <2>3. \A i \in 1 .. Len(s) : g[i] = Settle(g[i - 1], i)
    <3> SUFFICES ASSUME NEW i \in 1 .. Len(s) PROVE g[i] = Settle(g[i - 1], i)
      OBVIOUS
    <3>1. i \in 0 .. Len(s) /\ i # 0
      OBVIOUS
    <3>2. g[i] = Def(g)[i]
      BY <2>1
    <3> QED BY <3>1, <3>2
  <2> QED BY <2>2, <2>3 DEF g

\* The exchange sort rearranges the list and puts it in order.
LEMMA StrongestFirstSorts ==
    ASSUME NEW s \in Seq(Entry)
    PROVE  Rearranges(StrongestFirst(s), s) /\ Ordered(StrongestFirst(s))
<1> DEFINE upTo == OrderedUpTo(s)
           Right(i) == Rearranges(upTo[i], s) /\ SettledBelow(upTo[i], i)
           T == {i \in 0 .. Len(s) : Right(i)}
<1>1. upTo[0] = s /\ \A i \in 1 .. Len(s) : upTo[i] = Settle(upTo[i - 1], i)
  BY OrderedUpToSteps
<1> HIDE DEF upTo
<1>2. 0 \in T
  <2>1. 0 \in 0 .. Len(s) /\ SettledBelow(s, 0)
    BY DEF SettledBelow
  <2> QED BY <1>1, <2>1, RearrangesItself
<1>3. \A i \in 1 .. Len(s) : i - 1 \in T => i \in T
  <2> SUFFICES ASSUME NEW i \in 1 .. Len(s), Right(i - 1) PROVE Right(i)
    OBVIOUS
  <2> DEFINE u == upTo[i - 1]
  <2>1. upTo[i] = Settle(u, i) /\ Rearranges(u, s) /\ SettledBelow(u, i - 1)
    BY <1>1
  <2> HIDE DEF u
  <2>2. u \in Seq(Entry) /\ Len(u) = Len(s)
    BY <2>1 DEF Rearranges, Alike
  <2>3. Rearranges(Settle(u, i), u) /\ SettledBelow(Settle(u, i), i)
    BY <2>1, <2>2, SettleSettles
  <2> QED BY <2>1, <2>3, RearrangesTransitively
<1>4. Right(Len(s))
  <2>1. Len(s) \in Nat
    OBVIOUS
  <2>2. 0 .. Len(s) \subseteq T
    <3> HIDE DEF T
    <3> QED BY <1>2, <1>3, <2>1, CountTo
  <2> QED BY <2>1, <2>2
<1>5. Ordered(upTo[Len(s)])
  <2>1. upTo[Len(s)] \in Seq(Entry) /\ Len(upTo[Len(s)]) = Len(s)
    BY <1>4 DEF Rearranges, Alike
  <2> QED BY <1>4, <2>1 DEF SettledBelow, Ordered
<1> QED
  BY <1>4, <1>5 DEF StrongestFirst, upTo

----
(* The filter                                                               *)

Chosen(minimum, s, i) == {k \in 1 .. i : Presentable(minimum, s[k])}

\* v has the presentable entries among the first i of s, every one once.
Picks(minimum, s, i, v) ==
    /\ v \in Seq(Entry)
    /\ \E p \in Bijection(1 .. Len(v), Chosen(minimum, s, i)) :
           \A m \in 1 .. Len(v) : v[m] = s[p[m]]

LEMMA ShownPicks ==
    ASSUME NEW minimum, NEW s \in Seq(Entry)
    PROVE  Picks(minimum, s, Len(s), Shown(minimum, s))
<1> DEFINE upTo == ShownUpTo(minimum, s)
           To(i) == Chosen(minimum, s, i)
           T == {i \in 0 .. Len(s) : Picks(minimum, s, i, upTo[i])}
<1>1. /\ upTo[0] = <<>>
      /\ \A i \in 1 .. Len(s) :
             upTo[i] = IF Presentable(minimum, s[i]) THEN Append(upTo[i - 1], s[i])
                       ELSE upTo[i - 1]
  BY ShownUpToSteps
<1> HIDE DEF upTo
<1>2. 0 \in T
  <2> DEFINE p == [m \in 1 .. 0 |-> 0]
  <2>1. To(0) = {} /\ 1 .. 0 = {}
    BY DEF Chosen
  <2>2. p \in Bijection(1 .. 0, To(0))
    BY <2>1, Fun_IsBij
  <2>3. \A m \in 1 .. 0 : upTo[0][m] = s[p[m]]
    BY <2>1
  <2> HIDE DEF p
  <2>4. upTo[0] \in Seq(Entry) /\ Len(upTo[0]) = 0 /\ 0 \in 0 .. Len(s)
    BY <1>1
  <2> QED BY <2>2, <2>3, <2>4 DEF Picks
<1>3. \A i \in 1 .. Len(s) : i - 1 \in T => i \in T
  <2> SUFFICES ASSUME NEW i \in 1 .. Len(s), Picks(minimum, s, i - 1, upTo[i - 1])
               PROVE  Picks(minimum, s, i, upTo[i])
    OBVIOUS
  <2> DEFINE u == upTo[i - 1]
  <2>1. u \in Seq(Entry) /\ s[i] \in Entry
    BY DEF Picks
  <2>2. PICK p \in Bijection(1 .. Len(u), To(i - 1)) : \A m \in 1 .. Len(u) : u[m] = s[p[m]]
    BY DEF Picks
  <2>3. upTo[i] = IF Presentable(minimum, s[i]) THEN Append(u, s[i]) ELSE u
    BY <1>1
  <2> HIDE DEF u
  <2>4. CASE ~Presentable(minimum, s[i])
    <3>1. To(i) = To(i - 1)
      BY <2>4 DEF Chosen
    <3>2. \E q \in Bijection(1 .. Len(u), To(i)) : \A m \in 1 .. Len(u) : u[m] = s[q[m]]
      BY <3>1, <2>2
    <3> QED BY <2>1, <2>3, <2>4, <3>2 DEF Picks
  <2>5. CASE Presentable(minimum, s[i])
    <3> DEFINE v == Append(u, s[i])
               n == Len(u) + 1
               q == [m \in 1 .. n |-> IF m = n THEN i ELSE p[m]]
    <3>1. /\ v \in Seq(Entry) /\ Len(v) = n /\ v[n] = s[i]
          /\ \A m \in 1 .. Len(u) : v[m] = u[m]
      BY <2>1
    <3>2. To(i) = To(i - 1) \cup {i} /\ i \notin To(i - 1)
      BY <2>5 DEF Chosen
    <3>3. /\ p \in [1 .. Len(u) -> To(i - 1)]
          /\ \A a, b \in 1 .. Len(u) : p[a] = p[b] => a = b
          /\ \A k \in To(i - 1) : \E m \in 1 .. Len(u) : p[m] = k
      BY <2>2, Fun_BijectionProperties
    <3>4. Len(u) \in Nat /\ n \notin 1 .. Len(u) /\ 1 .. n = (1 .. Len(u)) \cup {n}
      BY <2>1
    <3> HIDE DEF v, n
    <3>5. q[n] = i /\ \A m \in 1 .. Len(u) : q[m] = p[m]
      BY <3>4
    <3>6. q \in [1 .. n -> To(i)]
      BY <3>2, <3>3, <3>4
    <3> HIDE DEF q
    <3>7. \A a, b \in 1 .. n : q[a] = q[b] => a = b
      BY <3>2, <3>3, <3>4, <3>5
    <3>8. \A k \in To(i) : \E m \in 1 .. n : q[m] = k
      BY <3>2, <3>3, <3>4, <3>5
    <3>9. q \in Bijection(1 .. n, To(i))
      BY <3>6, <3>7, <3>8, Fun_IsBij
    <3>10. \A m \in 1 .. n : v[m] = s[q[m]]
      BY <2>2, <3>1, <3>4, <3>5
    <3>11. \E r \in Bijection(1 .. Len(v), To(i)) : \A m \in 1 .. Len(v) : v[m] = s[r[m]]
      BY <3>1, <3>9, <3>10
    <3> QED BY <2>3, <2>5, <3>1, <3>11 DEF Picks, v
  <2> QED BY <2>4, <2>5
<1>4. Len(s) \in T
  <2>1. Len(s) \in Nat
    OBVIOUS
  <2>2. 0 .. Len(s) \subseteq T
    <3> HIDE DEF T
    <3> QED BY <1>2, <1>3, <2>1, CountTo
  <2> QED BY <2>1, <2>2
<1> QED
  BY <1>4 DEF Shown, upTo

----
(* The names                                                                *)

LEMMA KeptUpToSteps ==
    ASSUME NEW s \in Seq(Entry)
    PROVE  LET upTo == KeptUpTo(s)
           IN /\ upTo[0] = <<>>
              /\ \A i \in 1 .. Len(s) : upTo[i] = Keep(upTo[i - 1], s[i])
<1> DEFINE Def(f) == [i \in 0 .. Len(s) |-> IF i = 0 THEN <<>> ELSE Keep(f[i - 1], s[i])]
<1> DEFINE step == [p \in (1 .. Len(s)) \X Seq(Entry) |-> Keep(p[2], s[p[1]])]
<1>1. KeptUpTo(s) = CHOOSE f : f = Def(f)
  BY DEF KeptUpTo
<1>2. PICK f : Carries(f, Len(s), Seq(Entry), <<>>, step)
  <2>1. step \in [(1 .. Len(s)) \X Seq(Entry) -> Seq(Entry)]
    BY DEF Keep
  <2>2. <<>> \in Seq(Entry) /\ Len(s) \in Nat
    OBVIOUS
  <2> HIDE DEF step
  <2> QED BY <2>1, <2>2, StepsExist
<1>3. f = Def(f)
  <2>1. \A i \in 0 .. Len(s) : f[i] = Def(f)[i]
    <3> SUFFICES ASSUME NEW i \in 0 .. Len(s) PROVE f[i] = Def(f)[i]
      OBVIOUS
    <3>1. CASE i = 0
      BY <1>2, <3>1 DEF Carries
    <3>2. CASE i # 0
      <4>1. i \in 1 .. Len(s) /\ i - 1 \in 0 .. Len(s)
        BY <3>2
      <4>2. <<i, f[i - 1]>> \in (1 .. Len(s)) \X Seq(Entry)
        BY <1>2, <4>1 DEF Carries
      <4>3. f[i] = Keep(f[i - 1], s[i])
        BY <1>2, <4>1, <4>2 DEF Carries
      <4> QED BY <4>3, <3>2
    <3> QED BY <3>1, <3>2
  <2>2. f = [i \in 0 .. Len(s) |-> f[i]] /\ Def(f) = [i \in 0 .. Len(s) |-> Def(f)[i]]
    BY <1>2 DEF Carries
  <2> HIDE DEF Def
  <2> QED BY <2>1, <2>2
<1>4. KeptUpTo(s) = Def(KeptUpTo(s))
  <2> HIDE DEF Def
  <2> QED BY <1>1, <1>3
<1> HIDE DEF step
<1> QED
  <2> DEFINE g == KeptUpTo(s)
  <2>1. g = Def(g)
    BY <1>4
  <2> HIDE DEF g
  <2>2. g[0] = <<>>
    BY <2>1
  <2>3. \A i \in 1 .. Len(s) : g[i] = Keep(g[i - 1], s[i])
    <3> SUFFICES ASSUME NEW i \in 1 .. Len(s) PROVE g[i] = Keep(g[i - 1], s[i])
      OBVIOUS
    <3>1. i \in 0 .. Len(s) /\ i # 0
      OBVIOUS
    <3>2. g[i] = Def(g)[i]
      BY <2>1
    <3> QED BY <3>1, <3>2
  <2> QED BY <2>2, <2>3 DEF g

\* v has one entry for each name among the first i of s, none weaker than
\* another of its name, in order.
Leads(s, i, v) ==
    /\ v \in Seq(Entry)
    /\ \A k \in 1 .. Len(v) : \E m \in 1 .. i : v[k] = s[m]
    /\ \A m \in 1 .. i : \E k \in 1 .. Len(v) :
           v[k].ssid = s[m].ssid /\ v[k].rssi >= s[m].rssi
    /\ \A k, l \in 1 .. Len(v) : v[k].ssid = v[l].ssid => k = l
    /\ \A k, l \in 1 .. Len(v) : k < l => v[k].rssi >= v[l].rssi

LEMMA FirstOfEachNameLeads ==
    ASSUME NEW s \in Seq(Entry), Ordered(s)
    PROVE  Leads(s, Len(s), FirstOfEachName(s))
<1> DEFINE upTo == KeptUpTo(s)
           T == {i \in 0 .. Len(s) : Leads(s, i, upTo[i])}
<1>1. upTo[0] = <<>> /\ \A i \in 1 .. Len(s) : upTo[i] = Keep(upTo[i - 1], s[i])
  BY KeptUpToSteps
<1> HIDE DEF upTo
<1>2. 0 \in T
  <2>1. upTo[0] \in Seq(Entry) /\ Len(upTo[0]) = 0 /\ 0 \in 0 .. Len(s) /\ 1 .. 0 = {}
    BY <1>1
  <2> QED BY <2>1 DEF Leads
<1>3. \A i \in 1 .. Len(s) : i - 1 \in T => i \in T
  <2> SUFFICES ASSUME NEW i \in 1 .. Len(s), Leads(s, i - 1, upTo[i - 1])
               PROVE  Leads(s, i, upTo[i])
    OBVIOUS
  <2> DEFINE u == upTo[i - 1]
  <2>1. u \in Seq(Entry) /\ s[i] \in Entry /\ Leads(s, i - 1, u) /\ upTo[i] = Keep(u, s[i])
    BY <1>1 DEF Leads
  <2> HIDE DEF u
  <2>2. \A m \in 1 .. i - 1 : s[m].rssi >= s[i].rssi
    BY DEF Ordered
  <2>3. 1 .. i = (1 .. i - 1) \cup {i}
    OBVIOUS
  <2>4. DOMAIN u = 1 .. Len(u)
    BY <2>1
  <2>5. CASE \E k \in 1 .. Len(u) : u[k].ssid = s[i].ssid
    <3>1. upTo[i] = u
      BY <2>1, <2>4, <2>5 DEF Keep
    <3>2. PICK k \in 1 .. Len(u) : u[k].ssid = s[i].ssid
      BY <2>5
    <3>3. u[k].rssi >= s[i].rssi
      <4>1. PICK m \in 1 .. i - 1 : u[k] = s[m]
        BY <2>1 DEF Leads
      <4> QED BY <4>1, <2>2
    <3>4. \A m \in 1 .. i : \E l \in 1 .. Len(u) :
              u[l].ssid = s[m].ssid /\ u[l].rssi >= s[m].rssi
      BY <2>1, <2>3, <3>2, <3>3 DEF Leads
    <3>5. \A l \in 1 .. Len(u) : \E m \in 1 .. i : u[l] = s[m]
      BY <2>1, <2>3 DEF Leads
    <3> QED BY <2>1, <3>1, <3>4, <3>5 DEF Leads
  <2>6. CASE ~\E k \in 1 .. Len(u) : u[k].ssid = s[i].ssid
    <3> DEFINE v == Append(u, s[i])
               n == Len(u) + 1
    <3>1. upTo[i] = v
      BY <2>1, <2>4, <2>6 DEF Keep
    <3>2. /\ v \in Seq(Entry) /\ Len(v) = n /\ v[n] = s[i]
          /\ \A m \in 1 .. Len(u) : v[m] = u[m]
      BY <2>1
    <3>3. /\ Len(u) \in Nat /\ n \notin 1 .. Len(u) /\ 1 .. n = (1 .. Len(u)) \cup {n}
          /\ \A k \in 1 .. Len(u) : k < n
          /\ \A k, l \in 1 .. n : k < l => k \in 1 .. Len(u)
      BY <2>1
    <3>4. s[i].rssi \in Int
      BY <2>1, ScanAssumption DEF ScanAssumption, Entry
    <3> HIDE DEF v, n
    <3>5. /\ \A k \in 1 .. Len(u) : \E m \in 1 .. i - 1 : u[k] = s[m]
          /\ \A m \in 1 .. i - 1 : \E k \in 1 .. Len(u) :
                 u[k].ssid = s[m].ssid /\ u[k].rssi >= s[m].rssi
          /\ \A k, l \in 1 .. Len(u) : u[k].ssid = u[l].ssid => k = l
      BY <2>1 DEF Leads
    <3>6. \A k \in 1 .. n : \E m \in 1 .. i : v[k] = s[m]
      <4> SUFFICES ASSUME NEW k \in 1 .. n PROVE \E m \in 1 .. i : v[k] = s[m]
        OBVIOUS
      <4>1. CASE k = n
        BY <2>3, <3>2, <4>1
      <4>2. CASE k \in 1 .. Len(u)
        <5>1. PICK m \in 1 .. i - 1 : u[k] = s[m]
          BY <3>5, <4>2
        <5> QED BY <2>3, <3>2, <4>2, <5>1
      <4> QED BY <3>3, <4>1, <4>2
    <3>7. \A m \in 1 .. i : \E k \in 1 .. n :
              v[k].ssid = s[m].ssid /\ v[k].rssi >= s[m].rssi
      <4> SUFFICES ASSUME NEW m \in 1 .. i
                   PROVE  \E k \in 1 .. n : v[k].ssid = s[m].ssid /\ v[k].rssi >= s[m].rssi
        OBVIOUS
      <4>1. CASE m = i
        <5>1. n \in 1 .. n
          BY <3>3
        <5>2. v[n].ssid = s[i].ssid /\ v[n].rssi >= s[i].rssi
          BY <3>2, <3>4
        <5> QED BY <4>1, <5>1, <5>2
      <4>2. CASE m \in 1 .. i - 1
        BY <3>2, <3>3, <3>5, <4>2
      <4> QED BY <2>3, <4>1, <4>2
    <3>8. \A k, l \in 1 .. n : v[k].ssid = v[l].ssid => k = l
      <4> SUFFICES ASSUME NEW k \in 1 .. n, NEW l \in 1 .. n, v[k].ssid = v[l].ssid PROVE k = l
        OBVIOUS
      <4>1. CASE k = n /\ l \in 1 .. Len(u)
        BY <2>6, <3>2, <4>1
      <4>2. CASE l = n /\ k \in 1 .. Len(u)
        BY <2>6, <3>2, <4>2
      <4>3. CASE k \in 1 .. Len(u) /\ l \in 1 .. Len(u)
        BY <3>2, <3>5, <4>3
      <4> QED BY <3>3, <4>1, <4>2, <4>3
    <3>9. \A k \in 1 .. Len(u) : u[k].rssi >= s[i].rssi
      BY <2>1, <2>2 DEF Leads
    <3>10. \A k, l \in 1 .. n : k < l => v[k].rssi >= v[l].rssi
      BY <2>1, <3>2, <3>3, <3>9 DEF Leads
    <3> QED BY <3>1, <3>2, <3>6, <3>7, <3>8, <3>10 DEF Leads
  <2> QED BY <2>5, <2>6
<1>4. Len(s) \in T
  <2>1. Len(s) \in Nat
    OBVIOUS
  <2>2. 0 .. Len(s) \subseteq T
    <3> HIDE DEF T
    <3> QED BY <1>2, <1>3, <2>1, CountTo
  <2> QED BY <2>1, <2>2
<1> QED
  BY <1>4 DEF FirstOfEachName, upTo

----
(* The list                                                                 *)

\* The comparison in collectVisibleScanResults leaves out what is exactly at the
\* minimum.
LEMMA PresentableIsWorthShowing ==
    \A minimum, e : WorthShowing(FALSE, minimum, e) <=> Presentable(minimum, e)
BY DEF WorthShowing, Presentable

\* Every presentable entry is shown once, in order.
LEMMA OrderedShowsAll ==
    ASSUME NEW minimum, NEW s \in Seq(Entry)
    PROVE  LET v == StrongestFirst(Shown(minimum, s))
           IN v \in Seq(Entry) /\ Ordered(v) /\ ShowsAll(FALSE, minimum, s, v)
<1> DEFINE u == Shown(minimum, s)
           v == StrongestFirst(u)
           C == Chosen(minimum, s, Len(s))
<1>1. u \in Seq(Entry)
  BY ShownPicks DEF Picks
<1>2. PICK p \in Bijection(1 .. Len(u), C) : \A m \in 1 .. Len(u) : u[m] = s[p[m]]
  BY ShownPicks DEF Picks
<1> HIDE DEF u
<1>3. Rearranges(v, u) /\ Ordered(v)
  BY <1>1, StrongestFirstSorts
<1> HIDE DEF v
<1>4. v \in Seq(Entry) /\ Len(v) = Len(u) /\ DOMAIN v = 1 .. Len(u)
  BY <1>1, <1>3 DEF Rearranges, Alike
<1> DEFINE I == 1 .. Len(u)
<1>5. PICK q \in Bijection(I, I) : \A k \in I : v[k] = u[q[k]]
  BY <1>3 DEF Rearranges
<1> DEFINE r == [k \in I |-> p[q[k]]]
<1>6. r \in Bijection(I, C)
  <2> HIDE DEF I, C
  <2> QED BY <1>2, Fun_BijTransitive DEF I
<1>7. \A k \in I : v[k] = s[r[k]]
  <2> SUFFICES ASSUME NEW k \in I PROVE v[k] = s[r[k]]
    OBVIOUS
  <2>1. q[k] \in I
    <3> HIDE DEF I
    <3>1. q \in [I -> I]
      BY Fun_BijectionProperties
    <3> QED BY <3>1
  <2>2. v[k] = u[q[k]] /\ u[q[k]] = s[p[q[k]]] /\ r[k] = p[q[k]]
    BY <1>2, <1>5, <2>1
  <2> QED BY <2>2
<1> HIDE DEF r
<1>8. C = {i \in DOMAIN s : WorthShowing(FALSE, minimum, s[i])}
  <2>1. C = {i \in DOMAIN s : Presentable(minimum, s[i])}
    BY DEF Chosen
  <2> HIDE DEF C
  <2>2. \A i \in DOMAIN s : WorthShowing(FALSE, minimum, s[i]) <=> Presentable(minimum, s[i])
    BY PresentableIsWorthShowing
  <2> QED BY <2>1, <2>2
<1> HIDE DEF C
<1>9. ShowsAll(FALSE, minimum, s, v)
  BY <1>4, <1>6, <1>7, <1>8 DEF ShowsAll
<1> QED
  BY <1>3, <1>4, <1>9 DEF v, u

\* A list of all the presentable entries, put in order and reduced to the first
\* of each name, shows the strongest of each name.
LEMMA FirstsShowBest ==
    ASSUME NEW minimum, NEW s \in Seq(Entry), NEW o \in Seq(Entry),
           Ordered(o), ShowsAll(FALSE, minimum, s, o)
    PROVE  LET v == FirstOfEachName(o)
           IN Ordered(v) /\ ShowsBestOfEachName(FALSE, minimum, s, v)
<1> DEFINE v == FirstOfEachName(o)
           shown == {e \in Range(s) : WorthShowing(FALSE, minimum, e)}
           best == {e \in shown : \A x \in shown : x.ssid = e.ssid => x.rssi <= e.rssi}
<1>1. Leads(o, Len(o), v)
  BY FirstOfEachNameLeads
<1> HIDE DEF v
<1>2. v \in Seq(Entry) /\ DOMAIN v = 1 .. Len(v)
  BY <1>1 DEF Leads
<1>3. shown = {o[k] : k \in 1 .. Len(o)}
  <2> DEFINE C == {i \in DOMAIN s : WorthShowing(FALSE, minimum, s[i])}
  <2>1. DOMAIN o = 1 .. Len(o)
    OBVIOUS
  <2>2. PICK p \in Bijection(DOMAIN o, C) : \A i \in DOMAIN o : o[i] = s[p[i]]
    BY DEF ShowsAll
  <2>3. p \in [DOMAIN o -> C] /\ \A c \in C : \E i \in DOMAIN o : p[i] = c
    <3> HIDE DEF C
    <3> QED BY <2>2, Fun_BijectionProperties
  <2>4. shown = {s[c] : c \in C}
    BY DEF Range
  <2> HIDE DEF C, shown
  <2> QED BY <2>1, <2>2, <2>3, <2>4
<1>4. \A e \in shown : e \in Entry /\ e.rssi \in Int
  <2> SUFFICES ASSUME NEW k \in 1 .. Len(o) PROVE o[k] \in Entry /\ o[k].rssi \in Int
    BY <1>3
  <2>1. o[k] \in Entry
    OBVIOUS
  <2> QED BY <2>1, ScanAssumption DEF ScanAssumption, Entry
<1>5. \A k \in 1 .. Len(v) : v[k] \in shown
  BY <1>1, <1>3 DEF Leads
<1>6. \A e \in shown : \E k \in 1 .. Len(v) : v[k].ssid = e.ssid /\ v[k].rssi >= e.rssi
  <2>1. \A m \in 1 .. Len(o) : \E k \in 1 .. Len(v) :
            v[k].ssid = o[m].ssid /\ v[k].rssi >= o[m].rssi
    BY <1>1 DEF Leads
  <2> HIDE DEF shown
  <2> QED BY <1>3, <2>1
<1>7. \A k, l \in 1 .. Len(v) : v[k].ssid = v[l].ssid => k = l
  BY <1>1 DEF Leads
<1> HIDE DEF shown
<1>8. \A k \in 1 .. Len(v) : v[k] \in best
  <2> SUFFICES ASSUME NEW k \in 1 .. Len(v), NEW x \in shown, x.ssid = v[k].ssid
               PROVE  x.rssi <= v[k].rssi
    BY <1>5
  <2>1. PICK l \in 1 .. Len(v) : v[l].ssid = x.ssid /\ v[l].rssi >= x.rssi
    BY <1>6
  <2>2. l = k
    BY <1>7, <2>1
  <2>3. x.rssi \in Int /\ v[k].rssi \in Int
    BY <1>4, <1>5
  <2> QED BY <2>1, <2>2, <2>3
<1>9. \A e \in best : \E k \in 1 .. Len(v) : v[k] = e
  <2> SUFFICES ASSUME NEW e \in best PROVE \E k \in 1 .. Len(v) : v[k] = e
    OBVIOUS
  <2>1. PICK k \in 1 .. Len(v) : v[k].ssid = e.ssid /\ v[k].rssi >= e.rssi
    BY <1>6
  <2>2. v[k] \in shown /\ v[k] \in Entry /\ e \in Entry /\ v[k].rssi \in Int /\ e.rssi \in Int
    BY <1>4, <1>5
  <2>3. v[k].rssi <= e.rssi
    BY <2>1, <2>2
  <2>4. v[k].rssi = e.rssi
    BY <2>1, <2>2, <2>3
  <2>5. v[k] = e
    BY <2>1, <2>2, <2>4 DEF Entry
  <2> QED BY <2>5
<1> HIDE DEF best
<1>10. Range(v) = best
  BY <1>2, <1>8, <1>9 DEF Range
<1>11. ShowsBestOfEachName(FALSE, minimum, s, v)
  BY <1>2, <1>7, <1>10 DEF ShowsBestOfEachName, best, shown
<1>12. Ordered(v)
  BY <1>1, <1>2 DEF Leads, Ordered
<1> QED
  BY <1>11, <1>12 DEF v

\* Whatever was found, and whatever the minimum: collectVisibleScanResults makes
\* of it the list it should be.
THEOREM VisibleIsRight ==
    ASSUME NEW minimum, NEW distinct \in BOOLEAN, NEW s \in Seq(Entry)
    PROVE  IsListOf(minimum, distinct, s, Visible(minimum, distinct, s))
<1> DEFINE o == StrongestFirst(Shown(minimum, s))
<1>1. o \in Seq(Entry) /\ Ordered(o) /\ ShowsAll(FALSE, minimum, s, o)
  BY OrderedShowsAll
<1> HIDE DEF o
<1>2. /\ Ordered(FirstOfEachName(o))
      /\ ShowsBestOfEachName(FALSE, minimum, s, FirstOfEachName(o))
  BY <1>1, FirstsShowBest
<1>3. CASE distinct
  <2>1. Visible(minimum, distinct, s) = FirstOfEachName(o)
    BY <1>3 DEF Visible, o
  <2> QED BY <1>2, <1>3, <2>1 DEF IsListOf
<1>4. CASE ~distinct
  <2>1. Visible(minimum, distinct, s) = o
    BY <1>4 DEF Visible, o
  <2> QED BY <1>1, <1>4, <2>1 DEF IsListOf
<1> QED
  BY <1>3, <1>4

\* The portal's list is right for every cache that the engine can hold, on both
\* platforms and with any interleaving of the event task, in whatever order the
\* driver found its entries, and for every minimum.
THEOREM ListIsAlwaysRight ==
    Spec => []ListIsRight
<1>1. ScanTypeOK => ListIsRight
  <2> SUFFICES ASSUME cache \in Seq(Entry),
                      NEW order \in Bijection(DOMAIN cache, DOMAIN cache),
                      NEW minimum \in Minimums, NEW distinct \in BOOLEAN
               PROVE  LET s == [i \in DOMAIN cache |-> cache[order[i]]]
                      IN IsListOf(minimum, distinct, s, Visible(minimum, distinct, s))
    BY DEF ListIsRight, ScanTypeOK, EngineTypeOK
  <2> DEFINE s == [i \in DOMAIN cache |-> cache[order[i]]]
             I == 1 .. Len(cache)
  <2>1. DOMAIN cache = I /\ Len(cache) \in Nat /\ \A i \in I : cache[i] \in Entry
    OBVIOUS
  <2>2. order \in [I -> I]
    <3> HIDE DEF I
    <3> QED BY <2>1, Fun_BijectionProperties
  <2>3. s \in [I -> Entry]
    BY <2>1, <2>2
  <2>4. s \in Seq(Entry)
    BY <2>1, <2>3
  <2> HIDE DEF s
  <2>5. IsListOf(minimum, distinct, s, Visible(minimum, distinct, s))
    BY <2>4, VisibleIsRight
  <2> QED BY <2>5 DEF s
<1> QED
  BY <1>1, ScanTypeCorrect, PTL
====
