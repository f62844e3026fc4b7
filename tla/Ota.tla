---- MODULE Ota ----
(***************************************************************************)
(* Firmware uploads to the portal (POST /u): what handleUpdating does with *)
(* the portal's time-out and with the one Updater of the core while chunks *)
(* of several uploads arrive, are refused or stop, and what                *)
(* handleUpdateDone makes of it.  The time-out itself is in PortalTimeout: *)
(* here a portal with a limit may time out at any moment.                  *)
(***************************************************************************)
EXTENDS Naturals, FiniteSets

CONSTANTS
    Uploads,    \* the requests that may upload at the same time
    Limits,     \* the portal's time-outs that the application sets; 0 for none
    MaxCalls    \* bound on uploads and calls in a behaviour

ASSUME OtaAssumption == 0 \notin Uploads /\ Limits \in SUBSET Nat /\ MaxCalls \in Nat

VARIABLES
    active,       \* the portal and its server are up
    limit,        \* _configPortalTimeout
    timeoutSaved, \* handleUpdating's static variables: the limit is saved ...
    SAV,          \* ... here (_configPortalTimeoutSAV)
    upload,       \* how far each upload is
    updating,     \* the Updater has begun and not ended
    hasError,     \* Update.hasError()
    reboot,       \* _rebootScheduled
    setting,      \* history: the limit that the application set last
    bytes,        \* history: the uploads whose data is in the Updater's image
    complete,     \* history: the uploads whose image was ended, theirs alone
    disturbed,    \* history: the application set a limit during an upload
    crowded,      \* history: an upload met another one, or what an aborted one left
    calls         \* uploads and calls so far (bounded by MaxCalls)

limitVars == <<limit, timeoutSaved, SAV>>
updater == <<updating, hasError, bytes, complete>>
history == <<setting, disturbed, crowded>>
vars == <<active, limitVars, upload, updater, reboot, history, calls>>

\* An upload arrives, whether it was refused or not, until its last chunk; then it
\* is asked for its outcome and its connection closes.
Stages == {"none", "arriving", "refused", "arrived", "answered"}

OtaTypeOK ==
    /\ active \in BOOLEAN
    /\ limit \in Limits \cup {0} /\ SAV \in Limits \cup {0} /\ setting \in Limits
    /\ timeoutSaved \in BOOLEAN
    /\ upload \in [Uploads -> Stages]
    /\ updating \in BOOLEAN /\ hasError \in BOOLEAN /\ reboot \in BOOLEAN
    /\ bytes \in SUBSET Uploads /\ complete \in SUBSET Uploads
    /\ disturbed \in BOOLEAN /\ crowded \in BOOLEAN
    /\ calls \in 0 .. MaxCalls

Init ==
    /\ active = TRUE
    /\ setting \in Limits /\ limit = setting
    /\ timeoutSaved = FALSE /\ SAV = 0
    /\ upload = [u \in Uploads |-> "none"]
    /\ updating = FALSE /\ hasError = FALSE /\ bytes = {} /\ complete = {}
    /\ reboot = FALSE
    /\ disturbed = FALSE /\ crowded = FALSE
    /\ calls = 0

Call == calls < MaxCalls /\ calls' = calls + 1

InProgress == {u \in Uploads : upload[u] \in {"arriving", "refused"}}
Undecided == {u \in Uploads : upload[u] = "arrived"}

----
(* The Updater of the core: begin is refused, without an error, while an    *)
(* update is under way, and may fail; a write or an end may fail, and a     *)
(* failed write may or may not give the update up.  An image has at least   *)
(* two chunks; data that comes with the last one is a chunk before it.      *)

UpdateBegins(u) ==
    /\ ~updating /\ updating' = TRUE
    /\ hasError' = FALSE /\ bytes' = {u} /\ complete' = complete \ {u}

UpdateRefused(u) ==
    /\ updating /\ complete' = complete \ {u}
    /\ UNCHANGED <<updating, hasError, bytes>>

UpdateBeginFails(u) ==
    /\ ~updating /\ hasError' = TRUE /\ complete' = complete \ {u}
    /\ UNCHANGED <<updating, bytes>>

UpdateBeginWriteFails(u) ==
    /\ ~updating /\ updating' \in BOOLEAN
    /\ hasError' = TRUE /\ bytes' = {u} /\ complete' = complete \ {u}

UpdateWrites(u) ==
    /\ updating /\ bytes' = bytes \cup {u}
    /\ UNCHANGED <<updating, hasError, complete>>

UpdateWriteFails ==
    /\ updating' \in {updating, FALSE}
    /\ hasError' = (updating \/ hasError)
    /\ UNCHANGED <<bytes, complete>>

UpdateEnds(u) ==
    /\ updating /\ updating' = FALSE
    /\ complete' = IF bytes = {u} THEN complete \cup {u} ELSE complete
    /\ UNCHANGED <<hasError, bytes>>

UpdateEndFails ==
    /\ updating' = FALSE
    /\ hasError' = (updating \/ hasError)
    /\ UNCHANGED <<bytes, complete>>

----
(* handleUpdating, once per chunk                                           *)

\* Mutant: the limit is taken away before it is saved.
SavesTooLate ==
    /\ timeoutSaved' = TRUE
    /\ limit' = 0
    /\ SAV' = IF timeoutSaved THEN SAV ELSE limit'

\* Mutant: the limit is saved and stays in force.
SavesOnly ==
    /\ timeoutSaved' = TRUE
    /\ SAV' = IF timeoutSaved THEN SAV ELSE limit
    /\ UNCHANGED limit

\* The portal must not time out while an upload arrives.
Saves ==
    /\ timeoutSaved' = TRUE
    /\ SAV' = IF timeoutSaved THEN SAV ELSE limit
    /\ limit' = 0

Restores == limit' = SAV /\ timeoutSaved' = FALSE /\ UNCHANGED SAV

\* The first chunk: the Updater begins and takes it ...
Begin(u) ==
    /\ active /\ upload[u] = "none" /\ Call
    /\ UpdateBegins(u)
    /\ Saves
    /\ upload' = [upload EXCEPT ![u] = "arriving"]
    /\ crowded' = (crowded \/ InProgress # {} \/ Undecided # {})
    /\ UNCHANGED <<active, reboot, setting, disturbed>>

\* ... or does not begin, or not take it: the browser is answered with an error,
\* and goes on sending.
BeginFails(u) ==
    /\ active /\ upload[u] = "none" /\ Call
    /\ UpdateRefused(u) \/ UpdateBeginFails(u) \/ UpdateBeginWriteFails(u)
    /\ timeoutSaved' = FALSE
    /\ SAV' = IF timeoutSaved THEN SAV ELSE limit
    /\ limit' = SAV'
    /\ upload' = [upload EXCEPT ![u] = "refused"]
    /\ crowded' = (crowded \/ updating \/ InProgress # {} \/ Undecided # {})
    /\ UNCHANGED <<active, reboot, setting, disturbed>>

\* A chunk is written, also one of an upload that was refused.
Chunk(u) ==
    /\ active /\ u \in InProgress
    /\ UpdateWrites(u)
    /\ UNCHANGED <<active, limitVars, upload, reboot, history, calls>>

ChunkFails(u, final) ==
    /\ active /\ u \in InProgress
    /\ UpdateWriteFails
    /\ Restores
    /\ upload' = [upload EXCEPT ![u] = IF final THEN "arrived" ELSE "refused"]
    /\ UNCHANGED <<active, reboot, history, calls>>

\* The last chunk.
Final(u) ==
    /\ active /\ u \in InProgress
    /\ UpdateEnds(u) \/ UpdateEndFails
    /\ Restores
    /\ upload' = [upload EXCEPT ![u] = "arrived"]
    /\ UNCHANGED <<active, reboot, history, calls>>

\* Mutant: the outcome of the Updater is not asked for.
DoneWhatever(u) ==
    /\ active /\ upload[u] = "arrived"
    /\ upload' = [upload EXCEPT ![u] = "answered"]
    /\ UNCHANGED <<active, limitVars, updater, reboot, history, calls>>

\* handleUpdateDone: an error is answered; else the restart waits for the
\* connection to close.
Done(u) ==
    /\ active /\ upload[u] = "arrived"
    /\ upload' = [upload EXCEPT ![u] = IF hasError THEN "none" ELSE "answered"]
    /\ UNCHANGED <<active, limitVars, updater, reboot, history, calls>>

Disconnected(u) ==
    /\ active /\ upload[u] = "answered"
    /\ reboot' = TRUE
    /\ upload' = [upload EXCEPT ![u] = "none"]
    /\ UNCHANGED <<active, limitVars, updater, history, calls>>

\* The connection breaks: no handler is called, and the Updater goes on waiting.
Aborted(u) ==
    /\ active /\ upload[u] \in {"arriving", "refused", "arrived"}
    /\ upload' = [upload EXCEPT ![u] = "none"]
    /\ UNCHANGED <<active, limitVars, updater, reboot, history, calls>>

----
(* The portal                                                               *)

\* Closing the portal ends its connections.
Closes ==
    /\ active /\ active' = FALSE
    /\ upload' = [u \in Uploads |-> "none"]
    /\ UNCHANGED <<limitVars, updater, reboot, history>>

TimesOut == limit # 0 /\ Closes /\ UNCHANGED calls
Close == Call /\ Closes

Open ==
    /\ ~active /\ Call /\ active' = TRUE
    /\ UNCHANGED <<limitVars, upload, updater, reboot, history>>

SetConfigPortalTimeout(l) ==
    /\ Call
    /\ limit' = l /\ setting' = l
    /\ disturbed' = (timeoutSaved \/ InProgress # {})
    /\ UNCHANGED <<active, timeoutSaved, SAV, upload, updater, reboot, crowded>>

UploadNext(u) ==
    \/ Begin(u) \/ BeginFails(u) \/ Chunk(u) \/ Final(u)
    \/ \E final \in BOOLEAN : ChunkFails(u, final)
    \/ Done(u) \/ Disconnected(u) \/ Aborted(u)

Next ==
    \/ \E u \in Uploads : UploadNext(u)
    \/ TimesOut \/ Close \/ Open
    \/ \E l \in Limits : SetConfigPortalTimeout(l)

Spec == Init /\ [][Next]_vars

----
(* Safety                                                                   *)

\* While handleUpdating holds no saved limit the portal has the one that the
\* application set last, whatever became of the uploads before and however many
\* there were at a time; one that is set during an upload is lost.
LimitKept == ~timeoutSaved => limit = setting \/ disturbed

\* A portal does not time out under an upload that the Updater takes, unless
\* another one meets it or the application sets a limit meanwhile.
UploadNotTimedOut ==
    [][TimesOut => crowded \/ disturbed \/ \A u \in Uploads : upload[u] # "arriving"]_vars

\* The device restarts for an upload only when the Updater has ended an image of
\* that upload alone, as long as no upload meets another one or what an aborted
\* one left.
RestartAfterUpdate ==
    [][\A u \in Uploads : Disconnected(u) => crowded \/ u \in complete]_vars
====
