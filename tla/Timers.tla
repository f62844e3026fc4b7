---- MODULE Timers ----
(***************************************************************************)
(* The timers of process() against a clock that wraps, in the three ways   *)
(* in which the code asks whether a time has passed:                       *)
(*   - Spans: the unsigned difference of now and a start is compared with  *)
(*     a length (an attempt, the backoff, a save, a scan, a pause);        *)
(*   - Delays: the sign of the difference of now and a deadline (the       *)
(*     switch to the next profile);                                        *)
(*   - Deadlines: now and a deadline are compared as they are (restart,    *)
(*     exit, the delay before a save's attempt, the end of a hand-off).    *)
(* age is the time that has really passed, which the code does not have.   *)
(***************************************************************************)
EXTENDS Millis

CONSTANTS
    Spans, Delays, Deadlines,  \* the timers of each kind
    Length,                    \* how long each runs
    Preemptive,                \* handlers may start one while process() looks at it
    MaxStarts                  \* bound on starts in a behaviour

Timer == Spans \cup Delays \cup Deadlines

\* The sign bit of a difference is set from here on.
Half == Wrap \div 2

ASSUME TimerAssumption ==
    /\ Spans \cap Delays = {} /\ Delays \cap Deadlines = {} /\ Spans \cap Deadlines = {}
    /\ Length \in [Timer -> Instants]
    /\ \A t \in Delays : Length[t] < Half
    /\ Preemptive \in BOOLEAN
    /\ MaxStarts \in Nat

VARIABLES
    now,     \* what millis() returns
    seen,    \* the value of millis() that process() looks at the timers with
    looking, \* process() has read it and not compared it yet
    armed,   \* the timers that run
    mark,    \* the instant that the code keeps for each that runs, else 0
    age,     \* history: time since each that runs was started, up to Wrap
    starts   \* starts so far (bounded by MaxStarts)

vars == <<now, seen, looking, armed, mark, age, starts>>

TimersTypeOK ==
    /\ now \in Instants /\ seen \in Instants
    /\ looking \in BOOLEAN
    /\ armed \in SUBSET Timer
    /\ mark \in [Timer -> Instants]
    /\ age \in [Timer -> 0 .. Wrap]
    /\ starts \in 0 .. MaxStarts

Init ==
    /\ now \in Instants
    /\ seen = 0 /\ looking = FALSE
    /\ armed = {}
    /\ mark = [t \in Timer |-> 0]
    /\ age = [t \in Timer |-> 0]
    /\ starts = 0

----
\* What is kept of a start: its instant, or the instant it ends.
StartMark(t) == IF t \in Spans THEN now ELSE Plus(now, Length[t])

\* A handler or an earlier step starts a timer, or starts it again.
Start(t) ==
    /\ ~looking \/ Preemptive
    /\ starts < MaxStarts /\ starts' = starts + 1
    /\ armed' = armed \cup {t}
    /\ mark' = [mark EXCEPT ![t] = StartMark(t)]
    /\ age' = [age EXCEPT ![t] = 0]
    /\ UNCHANGED <<now, seen, looking>>

\* Mutant: a span is over when its length has been exceeded.
DueLate(t, at) ==
    IF t \in Spans THEN Minus(at, mark[t]) > Length[t]
    ELSE IF t \in Delays THEN Minus(at, mark[t]) < Half
    ELSE at >= mark[t]

\* Mutant: a delay's deadline is compared as it is.
DueUnsigned(t, at) ==
    IF t \in Spans THEN Minus(at, mark[t]) >= Length[t] ELSE at >= mark[t]

\* Mutant: a span's end is computed wider than the clock.
DueWide(t, at) ==
    IF t \in Spans THEN at >= mark[t] + Length[t]
    ELSE IF t \in Delays THEN Minus(at, mark[t]) < Half
    ELSE at >= mark[t]

\* The comparison that process() makes at the instant at.
Due(t, at) ==
    IF t \in Spans THEN Minus(at, mark[t]) >= Length[t]
    ELSE IF t \in Delays THEN Minus(at, mark[t]) < Half
    ELSE at >= mark[t]

\* process() reads the clock ...
Look ==
    /\ ~looking /\ looking' = TRUE
    /\ seen' = now
    /\ UNCHANGED <<now, armed, mark, age, starts>>

\* ... and acts on the timers that it finds due.
Fires(t) ==
    /\ looking
    /\ t \in armed /\ Due(t, seen)
    /\ armed' = armed \ {t}
    /\ mark' = [mark EXCEPT ![t] = 0]
    /\ age' = [age EXCEPT ![t] = 0]
    /\ UNCHANGED <<now, seen, looking, starts>>

Looked ==
    /\ looking /\ looking' = FALSE
    /\ \A t \in armed : ~Due(t, seen)
    /\ seen' = 0
    /\ UNCHANGED <<now, armed, mark, age, starts>>

\* A millisecond passes; where handlers preempt process(), also while it looks.
Tick ==
    /\ ~looking \/ Preemptive
    /\ now' = Plus(now, 1)
    /\ age' = [t \in Timer |->
                  IF t \in armed /\ age[t] < Wrap THEN age[t] + 1 ELSE age[t]]
    /\ UNCHANGED <<seen, looking, armed, mark, starts>>

Next == (\E t \in Timer : Start(t) \/ Fires(t)) \/ Look \/ Looked \/ Tick

Spec == Init /\ [][Next]_vars

(* Fairness: time passes however often process() looks, and process() is    *)
(* called so often that it looks at a timer in an instant at which it is    *)
(* due.                                                                     *)
Fairness ==
    /\ SF_vars(Tick)
    /\ WF_vars(Looked)
    /\ \A t \in Timer : SF_vars(Fires(t)) /\ SF_vars(Look /\ Due(t, now))

FairSpec == Spec /\ Fairness

----
(* Safety                                                                   *)

\* While the comparison of t can be right: until the clock has gone round, or
\* half round after the deadline, or is back at 0.
InReach(t) ==
    IF t \in Spans THEN age[t] < Wrap
    ELSE IF t \in Delays THEN age[t] < Length[t] + Half
    ELSE Length[t] <= mark[t] /\ (mark[t] - Length[t]) + age[t] < Wrap

\* A timer is due exactly when its length has passed, at every instant at which
\* it may have been started: the clock starting over makes no span or delay
\* come early or late, but it does a deadline.
DueExactly == \A t \in armed : InReach(t) => (Due(t, now) <=> Length[t] <= age[t])

\* Nothing is done before its time, except at a deadline whose computation
\* wrapped.  (With handlers that start a timer between the reading of the clock
\* and the comparison a span may be over at once, see Preemptive.)
NotFiredEarly ==
    [][\A t \in armed \ armed' :
         Length[t] <= age[t] \/ (t \in Deadlines /\ mark[t] < Length[t])]_vars

----
(* Liveness                                                                 *)

\* Every timer that runs is acted on, wherever in the clock's range it started.
TimersFire == \A t \in Timer : t \in armed ~> t \notin armed
====
