---- MODULE PortalTimeout ----
(***************************************************************************)
(* The time-out of a configuration portal (configPortalHasTimeout) on the  *)
(* clock that wraps: what renews it - clients of the access point,         *)
(* requests, a reset from the page, a limit of 0 - and what the page is    *)
(* told of the time that is left.  Firmware uploads, which take the limit  *)
(* away for a while, are in Ota.                                           *)
(***************************************************************************)
EXTENDS Millis

CONSTANTS
    Limits,     \* the time-outs that the application sets; 0 for none
    Second,     \* the milliseconds of the second that the page counts in
    MaxCalls    \* bound on requests, clients and calls in a behaviour

ASSUME TimeoutAssumption ==
    /\ Limits \in SUBSET Nat
    /\ Second \in Nat \ {0}
    /\ MaxCalls \in Nat

VARIABLES
    now,          \* what millis() returns
    opts,         \* _apClientCheck, _webClientCheck
    active,       \* configPortalActive
    limit,        \* _configPortalTimeout
    start,        \* _configPortalStart
    accessed,     \* _webPortalAccessed
    clients,      \* a station is on the access point
    idle,         \* history: time since the time-out was last renewed, up to Wrap
    promised,     \* history: what is left of the time that a page was told
    wrapped,      \* history: the clock has started over
    calls         \* requests, clients and calls so far (bounded by MaxCalls)

vars == <<now, opts, active, limit, start, accessed, clients, idle, promised,
          wrapped, calls>>

Options == [apClientCheck : BOOLEAN, webClientCheck : BOOLEAN]

TimeoutTypeOK ==
    /\ now \in Instants /\ start \in Instants /\ accessed \in Instants
    /\ opts \in Options
    /\ limit \in Limits
    /\ active \in BOOLEAN /\ clients \in BOOLEAN /\ wrapped \in BOOLEAN
    /\ idle \in 0 .. Wrap /\ promised \in Nat
    /\ calls \in 0 .. MaxCalls

Init ==
    /\ now \in Instants
    /\ opts \in Options
    /\ limit \in Limits
    /\ active = FALSE /\ clients = FALSE /\ wrapped = FALSE
    /\ start = 0 /\ accessed = 0
    /\ idle = 0 /\ promised = 0
    /\ calls = 0

Call == calls < MaxCalls /\ calls' = calls + 1

----
\* Whole seconds, rounded up, in milliseconds.
SecondsUp(d) == ((d + Second - 1) \div Second) * Second

\* startConfigPortal.
Open ==
    /\ ~active /\ active' = TRUE
    /\ start' = now
    /\ idle' = 0 /\ promised' = 0
    /\ UNCHANGED <<now, opts, limit, accessed, clients, wrapped, calls>>

Down ==
    /\ active' = FALSE /\ clients' = FALSE
    /\ idle' = 0 /\ promised' = 0

\* The portal ends for another reason: an exit, a hand-off, the application.
Close ==
    /\ active /\ Call
    /\ Down
    /\ UNCHANGED <<now, opts, limit, start, accessed, wrapped>>

\* A station joins or leaves the access point.
Client ==
    /\ active /\ Call
    /\ clients' = ~clients
    /\ UNCHANGED <<now, opts, active, limit, start, accessed, idle, promised, wrapped>>

\* What every handler of a route does first (handleRequest); with checks of web
\* clients it is meant to renew the time-out.
Access ==
    /\ accessed' = now
    /\ idle' = IF opts.webClientCheck THEN 0 ELSE idle

Request ==
    /\ active /\ Call
    /\ Access
    /\ UNCHANGED <<now, opts, active, limit, start, clients, promised, wrapped>>

\* Mutant: a page is told the limit instead of what is left of it.
LeftWhole == limit

\* The remaining time in the page's bootstrap data.
Left ==
    LET timeoutAt == Plus(start, limit)
    IN IF limit > 0 /\ timeoutAt > now THEN timeoutAt - now ELSE 0

\* The page is loaded.
Load ==
    /\ active /\ Call
    /\ Access
    /\ promised' = SecondsUp(Left)
    /\ UNCHANGED <<now, opts, active, limit, start, clients, wrapped>>

\* POST /api/portal/timeout-reset; without a limit it is refused.
TimeoutReset ==
    /\ active /\ Call
    /\ accessed' = now
    /\ IF limit = 0 THEN UNCHANGED start ELSE start' = now
    /\ idle' = IF limit = 0 /\ ~opts.webClientCheck THEN idle ELSE 0
    /\ promised' = IF limit = 0 THEN promised ELSE SecondsUp(limit)
    /\ UNCHANGED <<now, opts, active, limit, clients, wrapped>>

\* setConfigPortalTimeout, setAPClientCheck, setWebPortalClientCheck: what a
\* page was told, and what renewed the time-out, before no longer counts.
Configure(l, o) ==
    /\ Call
    /\ limit' = l /\ opts' = o
    /\ promised' = 0
    /\ idle' = IF active THEN Wrap ELSE 0
    /\ UNCHANGED <<now, active, start, accessed, clients, wrapped>>

\* Time does not count while the portal has no limit or, if these are checked,
\* clients of its access point.
Held == limit = 0 \/ (opts.apClientCheck /\ clients)

\* Mutant: the last request is not looked at.
CountsFromUnrequested == IF Held THEN now ELSE start

\* The instant that configPortalHasTimeout counts from.
CountsFrom ==
    IF Held THEN now
    ELSE IF opts.webClientCheck /\ accessed > start THEN accessed
    ELSE start

\* Mutant: the deadline is computed wider than the clock.
ExpiredWide(s) == now > s + limit

Expired(s) == now > Plus(s, limit)

\* process() asks whether the portal has timed out ...
Check ==
    /\ active
    /\ start' = CountsFrom
    /\ Held \/ ~Expired(start')
    /\ idle' = IF Held THEN 0 ELSE idle
    /\ UNCHANGED <<now, opts, active, limit, accessed, clients, promised, wrapped,
                   calls>>

\* ... and closes it.
TimesOut ==
    /\ active /\ ~Held
    /\ start' = CountsFrom
    /\ Expired(start')
    /\ Down
    /\ UNCHANGED <<now, opts, limit, accessed, wrapped, calls>>

\* A millisecond passes.
Tick ==
    /\ now' = Plus(now, 1)
    /\ wrapped' = (wrapped \/ now' = 0)
    /\ idle' = IF active /\ idle < Wrap THEN idle + 1 ELSE idle
    /\ promised' = IF promised > 0 THEN promised - 1 ELSE 0
    /\ UNCHANGED <<opts, active, limit, start, accessed, clients, calls>>

Next ==
    \/ Open \/ Close \/ Client \/ Request \/ Load \/ TimeoutReset
    \/ \E l \in Limits, o \in Options : Configure(l, o)
    \/ Check \/ TimesOut \/ Tick

Spec == Init /\ [][Next]_vars

(* Fairness: time passes, and process() asks so often that it asks at an    *)
(* instant past the deadline if there is one.                               *)
Fairness == WF_vars(Tick) /\ WF_vars(Check) /\ SF_vars(TimesOut)

FairSpec == Spec /\ Fairness

----
(* Safety                                                                   *)

\* The portal closes by its time-out at a deadline that the clock could express.
TimesOutInRange == TimesOut /\ ~wrapped /\ start' + limit < Wrap

\* Before the clock first starts over, and with a deadline before that too, a
\* portal is closed by its time-out only when the whole limit has passed since
\* the last thing that renews it: its opening, a reset, a client of the access
\* point, a request.
NotCutShort == [][TimesOutInRange => idle > limit]_vars

\* The portal outlives the time that a page was told, but for the rounding to
\* seconds, unless the application changes the settings.
OutlivesReport == [][TimesOutInRange => promised < Second]_vars

----
(* Liveness                                                                 *)

\* No instant comes after the deadline.
Unreachable == Plus(CountsFrom, limit) = Wrap - 1

\* A portal with a limit ends, wherever in the clock's range it was opened, when
\* no client holds it and unless its deadline is the clock's last value.
PortalEnds == <>[](active /\ ~Held) => <>[]Unreachable
====
