---- MODULE OtaProofs ----
(***************************************************************************)
(* Firmware uploads, for any number of them and any limits: the portal's   *)
(* time-out comes back after every upload, it is off while an upload is    *)
(* taken, and the device restarts for whole images only.                   *)
(***************************************************************************)
EXTENDS Ota, TLAPS

\* The limit that is put back is the application's, both where handleUpdating
\* says that it holds one and where an upload that is still going on will put it
\* back once more.
SavedLimit ==
    timeoutSaved \/ InProgress # {} => SAV = setting \/ disturbed

\* An upload that the Updater takes has the time-out off, unless it met another
\* one or the application set a limit.
TimeoutOff ==
    \A u \in Uploads : upload[u] = "arriving" => limit = 0 \/ crowded \/ disturbed

\* One upload at a time, between the first chunk and the answer.
OneAtATime ==
    \A u, v \in InProgress \cup Undecided : u # v => crowded

\* What the Updater knows of an upload that is alone: its image is the one that
\* is written, or there is an error.
ImageOfUpload ==
    \A u \in InProgress : crowded \/ IF updating THEN bytes = {u} ELSE hasError

\* An upload that may be answered with a restart was ended whole.
AnsweredWhole ==
    /\ \A u \in Undecided : crowded \/ hasError \/ u \in complete
    /\ \A u \in Uploads : upload[u] = "answered" => crowded \/ u \in complete

OtaInv ==
    /\ OtaTypeOK /\ LimitKept /\ SavedLimit /\ TimeoutOff
    /\ OneAtATime /\ ImageOfUpload /\ AnsweredWhole

----
(* Types                                                                    *)

LEMMA OtaInitTypeOK == Init => OtaTypeOK
<1> SUFFICES ASSUME Init PROVE OtaTypeOK
  OBVIOUS
<1>1. 0 \in 0 .. MaxCalls
  BY OtaAssumption
<1>2. upload \in [Uploads -> Stages]
  BY DEF Init, Stages
<1> QED
  BY <1>1, <1>2 DEF Init, OtaTypeOK

LEMMA CallTypeOK ==
    ASSUME calls \in 0 .. MaxCalls, Call
    PROVE  calls' \in 0 .. MaxCalls
BY OtaAssumption DEF OtaAssumption, Call

\* A chunk's handler keeps the types of the limits and of the Updater.
LEMMA UploadTypeOK ==
    ASSUME OtaTypeOK, NEW u \in Uploads, UploadNext(u)
    PROVE  OtaTypeOK'
<1> USE DEF OtaTypeOK, Stages
<1>1. CASE Begin(u)
  <2>1. calls' \in 0 .. MaxCalls
    BY <1>1, CallTypeOK DEF Begin
  <2>2. crowded' \in BOOLEAN
    BY <1>1 DEF Begin
  <2>3. SAV' \in Limits \cup {0} /\ limit' \in Limits \cup {0} /\ timeoutSaved' \in BOOLEAN
    BY <1>1 DEF Begin, Saves
  <2> QED
    BY <1>1, <2>1, <2>2, <2>3 DEF Begin, UpdateBegins
<1>2. CASE BeginFails(u)
  <2>1. updating' \in BOOLEAN /\ hasError' \in BOOLEAN
    BY <1>2 DEF BeginFails, UpdateRefused, UpdateBeginFails, UpdateBeginWriteFails
  <2>2. bytes' \in SUBSET Uploads /\ complete' \in SUBSET Uploads
    BY <1>2 DEF BeginFails, UpdateRefused, UpdateBeginFails, UpdateBeginWriteFails
  <2>3. calls' \in 0 .. MaxCalls
    BY <1>2, CallTypeOK DEF BeginFails
  <2>4. crowded' \in BOOLEAN
    BY <1>2 DEF BeginFails
  <2>5. SAV' \in Limits \cup {0} /\ limit' \in Limits \cup {0} /\ timeoutSaved' \in BOOLEAN
    BY <1>2 DEF BeginFails
  <2> QED
    BY <1>2, <2>1, <2>2, <2>3, <2>4, <2>5 DEF BeginFails
<1>3. CASE Chunk(u)
  BY <1>3 DEF Chunk, UpdateWrites, limitVars, history
<1>4. CASE Final(u)
  <2>1. /\ updating' \in BOOLEAN /\ hasError' \in BOOLEAN
        /\ bytes' \in SUBSET Uploads /\ complete' \in SUBSET Uploads
    BY <1>4 DEF Final, UpdateEnds, UpdateEndFails
  <2> QED
    BY <1>4, <2>1 DEF Final, Restores, history
<1>5. ASSUME NEW final \in BOOLEAN, ChunkFails(u, final) PROVE OtaTypeOK'
  BY <1>5 DEF ChunkFails, UpdateWriteFails, Restores, history
<1>6. CASE Done(u) \/ Disconnected(u) \/ Aborted(u)
  BY <1>6 DEF Done, Disconnected, Aborted, limitVars, updater, history
<1> QED
  BY <1>1, <1>2, <1>3, <1>4, <1>5, <1>6 DEF UploadNext

LEMMA PortalTypeOK ==
    ASSUME OtaTypeOK,
           TimesOut \/ Close \/ Open \/ (\E l \in Limits : SetConfigPortalTimeout(l))
    PROVE  OtaTypeOK'
<1> USE DEF OtaTypeOK, Stages
<1>1. CASE TimesOut \/ Close
  <2>1. calls' \in 0 .. MaxCalls
    BY <1>1, CallTypeOK DEF TimesOut, Close
  <2> QED
    BY <1>1, <2>1 DEF TimesOut, Close, Closes, limitVars, updater, history
<1>2. CASE Open
  <2>1. calls' \in 0 .. MaxCalls
    BY <1>2, CallTypeOK DEF Open
  <2> QED
    BY <1>2, <2>1 DEF Open, limitVars, updater, history
<1>3. ASSUME NEW l \in Limits, SetConfigPortalTimeout(l) PROVE OtaTypeOK'
  <2>1. calls' \in 0 .. MaxCalls
    BY <1>3, CallTypeOK DEF SetConfigPortalTimeout
  <2>2. disturbed' \in BOOLEAN
    BY <1>3 DEF SetConfigPortalTimeout
  <2> QED
    BY <1>3, <2>1, <2>2 DEF SetConfigPortalTimeout, updater
<1> QED
  BY <1>1, <1>2, <1>3

\* Every handler keeps every variable in its type, for any uploads and limits.
THEOREM OtaTypeCorrect == Spec => []OtaTypeOK
<1>1. OtaTypeOK /\ [Next]_vars => OtaTypeOK'
  <2> SUFFICES ASSUME OtaTypeOK, [Next]_vars PROVE OtaTypeOK'
    OBVIOUS
  <2>1. CASE Next
    BY <2>1, UploadTypeOK, PortalTypeOK DEF Next
  <2>2. CASE UNCHANGED vars
    BY <2>2 DEF vars, limitVars, updater, history, OtaTypeOK
  <2> QED
    BY <2>1, <2>2
<1> QED
  BY OtaInitTypeOK, <1>1, PTL DEF Spec

----
(* The limits                                                               *)

LEMMA LimitStep ==
    ASSUME OtaTypeOK, LimitKept, SavedLimit, [Next]_vars
    PROVE  LimitKept' /\ SavedLimit'
<1> USE DEF OtaTypeOK, LimitKept, SavedLimit, InProgress
<1>1. ASSUME NEW u \in Uploads, Begin(u) PROVE LimitKept' /\ SavedLimit'
  <2>1. timeoutSaved' /\ (SAV' = setting' \/ disturbed')
    BY <1>1 DEF Begin, Saves
  <2> QED
    BY <2>1
<1>2. ASSUME NEW u \in Uploads, BeginFails(u) PROVE LimitKept' /\ SavedLimit'
  <2>1. limit' = SAV' /\ (SAV' = setting' \/ disturbed')
    BY <1>2 DEF BeginFails
  <2> QED
    BY <2>1
<1>3. ASSUME NEW u \in Uploads, Chunk(u) PROVE LimitKept' /\ SavedLimit'
  BY <1>3 DEF Chunk, limitVars, history
<1>4. ASSUME NEW u \in InProgress, Restores, UNCHANGED history
      PROVE  LimitKept' /\ SavedLimit'
  BY <1>4 DEF Restores, history
<1>5. ASSUME NEW u \in Uploads, NEW final \in BOOLEAN, Final(u) \/ ChunkFails(u, final)
      PROVE  LimitKept' /\ SavedLimit'
  BY <1>4, <1>5 DEF Final, ChunkFails
<1>6. ASSUME NEW u \in Uploads, Done(u) \/ Disconnected(u) \/ Aborted(u)
      PROVE  LimitKept' /\ SavedLimit'
  <2>1. InProgress' \subseteq InProgress
    BY <1>6 DEF Done, Disconnected, Aborted
  <2> QED
    BY <1>6, <2>1 DEF Done, Disconnected, Aborted, limitVars, history
<1>7. CASE TimesOut \/ Close
  <2>1. InProgress' = {}
    BY <1>7 DEF TimesOut, Close, Closes
  <2> QED
    BY <1>7, <2>1 DEF TimesOut, Close, Closes, limitVars, history
<1>8. CASE Open
  BY <1>8 DEF Open, limitVars, history
<1>9. ASSUME NEW l \in Limits, SetConfigPortalTimeout(l) PROVE LimitKept' /\ SavedLimit'
  BY <1>9 DEF SetConfigPortalTimeout
<1>10. CASE UNCHANGED vars
  BY <1>10 DEF vars, limitVars, history
<1> QED
  BY <1>1, <1>2, <1>3, <1>5, <1>6, <1>7, <1>8, <1>9, <1>10 DEF Next, UploadNext

----
(* One upload at a time                                                     *)

\* An upload that moves on to stage s leaves the others where they are.
LEMMA UploadMoves ==
    ASSUME OtaTypeOK, NEW u \in Uploads, NEW s, upload' = [upload EXCEPT ![u] = s]
    PROVE  \A v \in Uploads : upload'[v] = IF v = u THEN s ELSE upload[v]
BY DEF OtaTypeOK

LEMMA AloneStep ==
    ASSUME OtaTypeOK, TimeoutOff, OneAtATime, [Next]_vars
    PROVE  TimeoutOff' /\ OneAtATime'
<1> USE DEF TimeoutOff, OneAtATime, InProgress, Undecided
<1>1. ASSUME NEW u \in Uploads, Begin(u) \/ BeginFails(u) PROVE TimeoutOff' /\ OneAtATime'
  <2>1. \A v \in Uploads : v # u => upload'[v] = upload[v]
    BY <1>1, UploadMoves DEF Begin, BeginFails
  <2>2. crowded' \/ InProgress \cup Undecided = {}
    BY <1>1 DEF Begin, BeginFails
  <2>3. upload'[u] = "arriving" => limit' = 0
    BY <1>1, UploadMoves DEF Begin, BeginFails, Saves
  <2>4. crowded => crowded'
    BY <1>1 DEF Begin, BeginFails
  <2> QED
    BY <2>1, <2>2, <2>3, <2>4
<1>2. ASSUME NEW u \in Uploads, Chunk(u) PROVE TimeoutOff' /\ OneAtATime'
  BY <1>2 DEF Chunk, limitVars, history
<1>3. ASSUME NEW u \in InProgress, NEW s \in {"arrived", "refused"},
             upload' = [upload EXCEPT ![u] = s], UNCHANGED history
      PROVE  TimeoutOff' /\ OneAtATime'
  <2>1. \A v \in Uploads : upload'[v] = IF v = u THEN s ELSE upload[v]
    BY <1>3, UploadMoves
  <2>2. (InProgress \cup Undecided)' \subseteq InProgress \cup Undecided
    BY <2>1
  <2>3. OneAtATime'
    BY <1>3, <2>2 DEF history
  <2>4. \A v \in Uploads : upload'[v] = "arriving" => v # u /\ v \in InProgress
    BY <2>1
  <2>5. TimeoutOff'
    BY <1>3, <2>4 DEF history
  <2> QED
    BY <2>3, <2>5
<1>4. ASSUME NEW u \in Uploads, NEW final \in BOOLEAN, Final(u) \/ ChunkFails(u, final)
      PROVE  TimeoutOff' /\ OneAtATime'
  BY <1>3, <1>4 DEF Final, ChunkFails
<1>5. ASSUME NEW u \in Uploads, Done(u) \/ Disconnected(u) \/ Aborted(u)
      PROVE  TimeoutOff' /\ OneAtATime'
  <2>1. PICK s \in {"none", "answered"} : upload' = [upload EXCEPT ![u] = s]
    BY <1>5 DEF Done, Disconnected, Aborted
  <2>2. \A v \in Uploads : upload'[v] = IF v = u THEN s ELSE upload[v]
    BY <2>1, UploadMoves
  <2>3. UNCHANGED <<limit, crowded, disturbed>>
    BY <1>5 DEF Done, Disconnected, Aborted, limitVars, history
  <2> QED
    BY <2>2, <2>3
<1>6. CASE TimesOut \/ Close
  <2>1. \A v \in Uploads : upload'[v] = "none"
    BY <1>6 DEF TimesOut, Close, Closes
  <2> QED
    BY <2>1
<1>7. CASE Open
  BY <1>7 DEF Open, limitVars, history
<1>8. ASSUME NEW l \in Limits, SetConfigPortalTimeout(l) PROVE TimeoutOff' /\ OneAtATime'
  BY <1>8 DEF SetConfigPortalTimeout
<1>9. CASE UNCHANGED vars
  BY <1>9 DEF vars, limitVars, history
<1> QED
  BY <1>1, <1>2, <1>4, <1>5, <1>6, <1>7, <1>8, <1>9 DEF Next, UploadNext

----
(* Images                                                                   *)

LEMMA ImageStep ==
    ASSUME OtaTypeOK, OneAtATime, ImageOfUpload, AnsweredWhole, [Next]_vars
    PROVE  ImageOfUpload' /\ AnsweredWhole'
<1> USE DEF OneAtATime, ImageOfUpload, AnsweredWhole, InProgress, Undecided
<1>1. ASSUME NEW u \in Uploads, Begin(u) PROVE ImageOfUpload' /\ AnsweredWhole'
  <2>1. \A v \in Uploads : upload'[v] = IF v = u THEN "arriving" ELSE upload[v]
    BY <1>1, UploadMoves DEF Begin
  <2>2. crowded' = (crowded \/ InProgress # {} \/ Undecided # {})
    BY <1>1 DEF Begin
  <2>3. updating' /\ bytes' = {u} /\ \A v \in Uploads : v # u /\ v \in complete => v \in complete'
    BY <1>1 DEF Begin, UpdateBegins
  <2>4. ImageOfUpload'
    BY <2>1, <2>2, <2>3
  <2>5. \A v \in Undecided' : crowded'
    BY <2>1, <2>2
  <2> QED
    BY <2>1, <2>2, <2>3, <2>4, <2>5
<1>2. ASSUME NEW u \in Uploads, BeginFails(u) PROVE ImageOfUpload' /\ AnsweredWhole'
  <2>1. \A v \in Uploads : upload'[v] = IF v = u THEN "refused" ELSE upload[v]
    BY <1>2, UploadMoves DEF BeginFails
  <2>2. crowded' = (crowded \/ updating \/ InProgress # {} \/ Undecided # {})
    BY <1>2 DEF BeginFails
  <2>3. \A v \in Uploads : v # u /\ v \in complete => v \in complete'
    BY <1>2 DEF BeginFails, UpdateRefused, UpdateBeginFails, UpdateBeginWriteFails
  <2>4. crowded' \/ IF updating' THEN bytes' = {u} ELSE hasError'
    <3>1. CASE UpdateRefused(u)
      BY <2>2, <3>1 DEF UpdateRefused
    <3>2. CASE UpdateBeginFails(u) \/ UpdateBeginWriteFails(u)
      BY <3>2 DEF UpdateBeginFails, UpdateBeginWriteFails
    <3> QED
      BY <1>2, <3>1, <3>2 DEF BeginFails
  <2>5. ImageOfUpload'
    BY <2>1, <2>2, <2>4
  <2>6. \A v \in Undecided' : crowded'
    BY <2>1, <2>2
  <2> QED
    BY <2>1, <2>2, <2>3, <2>5, <2>6
<1>3. ASSUME NEW u \in Uploads, Chunk(u) PROVE ImageOfUpload' /\ AnsweredWhole'
  <2>1. /\ updating /\ updating' /\ bytes' = bytes \cup {u}
        /\ UNCHANGED <<upload, crowded, hasError, complete>>
    BY <1>3 DEF Chunk, UpdateWrites, history
  <2>2. u \in InProgress
    BY <1>3 DEF Chunk
  <2>3. ImageOfUpload'
    BY <2>1, <2>2
  <2>4. AnsweredWhole'
    BY <2>1
  <2> QED
    BY <2>3, <2>4
<1>4. ASSUME NEW u \in Uploads, NEW final \in BOOLEAN, ChunkFails(u, final)
      PROVE  ImageOfUpload' /\ AnsweredWhole'
  <2> DEFINE s == IF final THEN "arrived" ELSE "refused"
  <2>1. u \in InProgress /\ \A v \in Uploads : upload'[v] = IF v = u THEN s ELSE upload[v]
    <3>1. upload' = [upload EXCEPT ![u] = s]
      BY <1>4 DEF ChunkFails
    <3> HIDE DEF s
    <3>2. \A v \in Uploads : upload'[v] = IF v = u THEN s ELSE upload[v]
      BY <3>1, UploadMoves
    <3> QED
      BY <1>4, <3>2 DEF ChunkFails
  <2>2. UNCHANGED <<crowded, complete>>
    BY <1>4 DEF ChunkFails, UpdateWriteFails, history
  <2>3. hasError' \/ crowded
    BY <1>4, <2>1 DEF ChunkFails, UpdateWriteFails
  <2>4. updating' => updating /\ bytes' = bytes
    BY <1>4 DEF ChunkFails, UpdateWriteFails
  <2>5. ImageOfUpload'
    BY <2>1, <2>2, <2>3, <2>4
  <2>6. AnsweredWhole'
    BY <2>1, <2>2, <2>3
  <2> QED
    BY <2>5, <2>6
<1>5. ASSUME NEW u \in Uploads, Final(u) PROVE ImageOfUpload' /\ AnsweredWhole'
  <2>1. /\ u \in InProgress
        /\ \A v \in Uploads : upload'[v] = IF v = u THEN "arrived" ELSE upload[v]
    BY <1>5, UploadMoves DEF Final
  <2>2. UNCHANGED crowded /\ complete \subseteq complete'
    BY <1>5 DEF Final, UpdateEnds, UpdateEndFails, history
  <2>3. crowded \/ hasError' \/ u \in complete'
    BY <1>5, <2>1 DEF Final, UpdateEnds, UpdateEndFails
  <2>4. \A v \in Uploads : v # u /\ (v \in InProgress \/ v \in Undecided) => crowded
    BY <2>1
  <2>5. ImageOfUpload'
    BY <2>1, <2>2, <2>4
  <2>6. AnsweredWhole'
    BY <2>1, <2>2, <2>3, <2>4
  <2> QED
    BY <2>5, <2>6
<1>6. ASSUME NEW u \in Uploads, Done(u) PROVE ImageOfUpload' /\ AnsweredWhole'
  <2> DEFINE s == IF hasError THEN "none" ELSE "answered"
  <2>1. u \in Undecided /\ \A v \in Uploads : upload'[v] = IF v = u THEN s ELSE upload[v]
    <3>1. upload' = [upload EXCEPT ![u] = s]
      BY <1>6 DEF Done
    <3> HIDE DEF s
    <3>2. \A v \in Uploads : upload'[v] = IF v = u THEN s ELSE upload[v]
      BY <3>1, UploadMoves
    <3> QED
      BY <1>6, <3>2 DEF Done
  <2>2. UNCHANGED <<crowded, updating, hasError, bytes, complete>>
    BY <1>6 DEF Done, updater, history
  <2> QED
    BY <2>1, <2>2
<1>7. ASSUME NEW u \in Uploads, Disconnected(u) \/ Aborted(u)
      PROVE  ImageOfUpload' /\ AnsweredWhole'
  <2>1. \A v \in Uploads : upload'[v] = IF v = u THEN "none" ELSE upload[v]
    BY <1>7, UploadMoves DEF Disconnected, Aborted
  <2>2. UNCHANGED <<crowded, updating, hasError, bytes, complete>>
    BY <1>7 DEF Disconnected, Aborted, updater, history
  <2> QED
    BY <2>1, <2>2
<1>8. CASE TimesOut \/ Close
  <2>1. \A v \in Uploads : upload'[v] = "none"
    BY <1>8 DEF TimesOut, Close, Closes
  <2> QED
    BY <2>1
<1>9. CASE Open \/ (\E l \in Limits : SetConfigPortalTimeout(l)) \/ UNCHANGED vars
  <2>1. UNCHANGED <<upload, crowded, updating, hasError, bytes, complete>>
    BY <1>9 DEF Open, SetConfigPortalTimeout, vars, updater, history
  <2> QED
    BY <2>1
<1> QED
  BY <1>1, <1>2, <1>3, <1>4, <1>5, <1>6, <1>7, <1>8, <1>9 DEF Next, UploadNext

----
(* The theorems                                                             *)

\* The inductive invariant: what handleUpdating has saved, what the Updater
\* holds, and how far each upload is, agree.
THEOREM OtaInvariant == Spec => []OtaInv
<1>1. Init => OtaInv
  <2> SUFFICES ASSUME Init PROVE OtaInv
    OBVIOUS
  <2>1. \A u \in Uploads : upload[u] = "none"
    BY DEF Init
  <2>2. InProgress = {} /\ Undecided = {}
    BY <2>1 DEF InProgress, Undecided
  <2>3. LimitKept /\ SavedLimit
    BY <2>2 DEF Init, LimitKept, SavedLimit
  <2>4. TimeoutOff /\ OneAtATime /\ ImageOfUpload /\ AnsweredWhole
    BY <2>1, <2>2 DEF TimeoutOff, OneAtATime, ImageOfUpload, AnsweredWhole
  <2> QED
    BY OtaInitTypeOK, <2>3, <2>4 DEF OtaInv
<1>2. OtaTypeOK /\ OtaTypeOK' /\ OtaInv /\ [Next]_vars => OtaInv'
  BY LimitStep, AloneStep, ImageStep DEF OtaInv
<1> QED
  BY OtaTypeCorrect, <1>1, <1>2, PTL DEF Spec

\* Whatever uploads come, fail or stop, and however many at a time: as soon as
\* handleUpdating holds no saved limit, the portal has the application's.
THEOREM LimitIsKept == Spec => []LimitKept
<1>1. OtaInv => LimitKept
  BY DEF OtaInv
<1> QED
  BY OtaInvariant, <1>1, PTL

\* The portal never times out under an upload that the Updater takes.
THEOREM UploadIsNotTimedOut == Spec => UploadNotTimedOut
<1>1. OtaInv /\ [Next]_vars =>
        [TimesOut => crowded \/ disturbed \/ \A u \in Uploads : upload[u] # "arriving"]_vars
  BY DEF OtaInv, TimeoutOff, TimesOut
<1> QED
  BY OtaInvariant, <1>1, PTL DEF Spec, UploadNotTimedOut

\* The device restarts only for an image that one upload wrote alone and ended.
THEOREM RestartsForWholeImages == Spec => RestartAfterUpdate
<1>1. OtaInv /\ [Next]_vars =>
        [\A u \in Uploads : Disconnected(u) => crowded \/ u \in complete]_vars
  BY DEF OtaInv, AnsweredWhole, Disconnected
<1> QED
  BY OtaInvariant, <1>1, PTL DEF Spec, RestartAfterUpdate
====
