---- MODULE PortalCountdown ----
(***************************************************************************)
(* The countdown on the page's home view over PortalTimeout: the intervals *)
(* that the page starts, the one that it can still stop, and the remaining *)
(* time of the bootstrap data, which the page keeps until it is reloaded.  *)
(* The page's seconds are the device's.                                    *)
(***************************************************************************)
EXTENDS PortalTimeout

CONSTANT MaxIntervals    \* bound on the intervals that a page starts

Intervals == 1 .. MaxIntervals

VARIABLES
    home,       \* the home view is shown
    boot,       \* boot.context.portalTimeoutSecondsRemaining, in milliseconds
    started,    \* the intervals started since the page was loaded
    running,    \* those of them that have not been cleared
    left,       \* remaining of each
    handle      \* _wmPortalTimeoutTimer, 0 if null

countVars == <<started, running, left, handle>>
pageVars == <<home, boot, countVars>>

PageInit ==
    /\ Init
    /\ home = FALSE /\ boot = 0
    /\ started = 0 /\ running = {} /\ handle = 0
    /\ left = [i \in Intervals |-> 0]

\* startPortalTimeoutCountdown, with the intervals r running.
Count(r, d) ==
    IF d = 0 THEN running' = r /\ UNCHANGED <<started, left>>
    ELSE /\ started < MaxIntervals /\ started' = started + 1
         /\ running' = r \cup {started'}
         /\ left' = [left EXCEPT ![started'] = d]

\* setView stops the countdown; viewHome starts it from the bootstrap data.
Show(h) ==
    /\ active /\ home' = h
    /\ Count(running \ {handle}, IF h THEN boot ELSE 0)
    /\ handle' = IF h /\ boot > 0 THEN started' ELSE 0
    /\ UNCHANGED <<vars, boot>>

PageLoad ==
    /\ Load
    /\ boot' = promised' /\ home' = TRUE
    /\ running' = IF boot' > 0 THEN {1} ELSE {}
    /\ started' = IF boot' > 0 THEN 1 ELSE 0
    /\ handle' = started'
    /\ left' = [i \in Intervals |-> IF i \in running' THEN boot' ELSE 0]

\* resetPortalTimeout, whose button is on a home view with a countdown: it
\* starts a countdown and stops none.
PageReset ==
    /\ home /\ boot > 0
    /\ TimeoutReset
    /\ IF limit = 0 THEN UNCHANGED countVars
       ELSE Count(running, promised') /\ handle' = started'
    /\ UNCHANGED <<home, boot>>

\* An interval that is at 0 stops the one of the handle, whichever that is.
PageTick ==
    /\ Tick
    /\ left' = [i \in Intervals |-> IF i \in running /\ left[i] > 0 THEN left[i] - 1 ELSE left[i]]
    /\ IF \E i \in running : left'[i] = 0
         THEN running' = running \ {handle} /\ handle' = 0
         ELSE UNCHANGED <<running, handle>>
    /\ UNCHANGED <<home, boot, started>>

PageNext ==
    \/ PageLoad \/ PageReset \/ PageTick
    \/ \E h \in BOOLEAN : Show(h)
    \/ (Open \/ Close \/ Client \/ Request \/ Check \/ TimesOut) /\ UNCHANGED pageVars
    \/ \E l \in Limits, o \in Options : Configure(l, o) /\ UNCHANGED pageVars

PageSpec == PageInit /\ [][PageNext]_<<vars, pageVars>>

----
\* After the page was told a remaining time, by its bootstrap data or by a reset,
\* no countdown on its home view reads 0:00 while that time is not over: a reset
\* restarts the countdown that is shown.
CountdownRestarts ==
    home /\ active /\ promised > 0 => \A i \in running : left[i] > 0
====
