---- MODULE TimersProofs ----
(***************************************************************************)
(* The timers on a clock of any width: the unsigned difference and the     *)
(* sign of a difference are right wherever the clock starts over, and      *)
(* nothing is done before its time where handlers do not preempt           *)
(* process().                                                              *)
(***************************************************************************)
EXTENDS Timers, TLAPS

\* The instant a timer was started at, from what the code keeps of it.
StartedAt(t) == IF t \in Spans THEN mark[t] ELSE Minus(mark[t], Length[t])

\* Until the clock has gone round, the difference of now and that instant is the
\* time that has passed.
AgeIsDifference ==
    \A t \in armed : age[t] < Wrap => Minus(now, StartedAt(t)) = age[t]

TimersInv == TimersTypeOK /\ AgeIsDifference

\* process() looks at the timers in the instant it has read.
SeenIsNow == looking => seen = now

----
(* The clock                                                                *)

LEMMA WrapType == Wrap \in Nat /\ Wrap > 1
BY MillisAssumption DEF MillisAssumption

LEMMA HalfFits == Half \in Nat /\ Half + Half <= Wrap
BY WrapType DEF Half

LEMMA PlusInstant ==
    ASSUME NEW t \in Instants, NEW d \in 0 .. Wrap
    PROVE  Plus(t, d) \in Instants
BY WrapType DEF Instants, Plus

LEMMA MinusInstant ==
    ASSUME NEW t \in Instants, NEW s \in Instants
    PROVE  Minus(t, s) \in Instants
BY WrapType DEF Instants, Minus

\* A deadline less its length is the start again, wherever the clock started over.
LEMMA MinusUndoesPlus ==
    ASSUME NEW t \in Instants, NEW d \in Instants
    PROVE  Minus(Plus(t, d), d) = t
BY WrapType DEF Instants, Plus, Minus

\* A tick makes every difference to the present one greater, up to the width.
LEMMA TickOfDifference ==
    ASSUME NEW t \in Instants, NEW s \in Instants, Minus(t, s) + 1 < Wrap
    PROVE  Minus(Plus(t, 1), s) = Minus(t, s) + 1
BY WrapType DEF Instants, Plus, Minus

----
(* Types                                                                    *)

LEMMA LengthType == \A t \in Timer : Length[t] \in Instants
BY TimerAssumption DEF TimerAssumption

LEMMA StartMarkType ==
    ASSUME TimersTypeOK, NEW t \in Timer
    PROVE  StartMark(t) \in Instants
<1>1. Length[t] \in 0 .. Wrap
  BY LengthType, WrapType DEF Instants
<1> QED
  BY <1>1, PlusInstant DEF StartMark, TimersTypeOK

LEMMA TypeStep ==
    ASSUME TimersTypeOK, [Next]_vars
    PROVE  TimersTypeOK'
<1> USE DEF TimersTypeOK
<1>1. 0 \in Instants /\ 0 \in 0 .. Wrap
  BY WrapType DEF Instants
<1>2. ASSUME NEW t \in Timer, Start(t) PROVE TimersTypeOK'
  <2>1. starts' \in 0 .. MaxStarts
    BY <1>2, TimerAssumption DEF Start, TimerAssumption
  <2>2. mark' \in [Timer -> Instants]
    BY <1>2, StartMarkType DEF Start
  <2>3. age' \in [Timer -> 0 .. Wrap]
    BY <1>1, <1>2 DEF Start
  <2> QED
    BY <1>2, <2>1, <2>2, <2>3 DEF Start
<1>3. ASSUME NEW t \in Timer, Fires(t) PROVE TimersTypeOK'
  BY <1>1, <1>3 DEF Fires
<1>4. CASE Look \/ Looked
  BY <1>1, <1>4 DEF Look, Looked
<1>5. CASE Tick
  <2>1. now' \in Instants
    <3>1. 1 \in 0 .. Wrap
      BY WrapType
    <3> QED
      BY <1>5, <3>1, PlusInstant DEF Tick
  <2>2. age' \in [Timer -> 0 .. Wrap]
    BY <1>5, WrapType DEF Tick
  <2> QED
    BY <1>5, <2>1, <2>2 DEF Tick
<1>6. CASE UNCHANGED vars
  BY <1>6 DEF vars
<1> QED
  BY <1>2, <1>3, <1>4, <1>5, <1>6 DEF Next

LEMMA InitTypeOK == Init => TimersTypeOK
<1>1. 0 \in Instants /\ 0 \in 0 .. Wrap
  BY WrapType DEF Instants
<1>2. 0 \in 0 .. MaxStarts
  BY TimerAssumption DEF TimerAssumption
<1> QED
  BY <1>1, <1>2 DEF Init, TimersTypeOK

----
(* Ages                                                                     *)

LEMMA StartedAtType ==
    ASSUME TimersTypeOK, NEW t \in Timer
    PROVE  StartedAt(t) \in Instants
BY LengthType, MinusInstant DEF StartedAt, TimersTypeOK

LEMMA AgeStep ==
    ASSUME TimersInv, [Next]_vars
    PROVE  AgeIsDifference'
<1> USE DEF TimersInv, TimersTypeOK
<1>1. ASSUME NEW t \in Timer, Start(t) PROVE AgeIsDifference'
  <2>1. \A u \in Timer \ {t} : StartedAt(u)' = StartedAt(u) /\ age'[u] = age[u]
    BY <1>1 DEF Start, StartedAt
  <2>2. mark'[t] = StartMark(t) /\ age'[t] = 0 /\ now' = now
    BY <1>1 DEF Start
  <2>3. StartedAt(t)' = now
    BY <2>2, LengthType, MinusUndoesPlus DEF StartedAt, StartMark
  <2>4. Minus(now, now) = 0
    BY WrapType DEF Minus, Instants
  <2>5. armed' = armed \cup {t}
    BY <1>1 DEF Start
  <2>6. ASSUME NEW u \in armed', age'[u] < Wrap
        PROVE  Minus(now, StartedAt(u))' = age'[u]
    <3>1. CASE u = t
      BY <2>2, <2>3, <2>4, <3>1
    <3>2. CASE u # t
      <4>1. u \in armed /\ u \in Timer \ {t}
        BY <2>5, <3>2
      <4>2. Minus(now, StartedAt(u)) = age[u]
        BY <2>1, <2>6, <4>1 DEF AgeIsDifference
      <4> QED
        BY <2>1, <2>2, <4>1, <4>2
    <3> QED
      BY <3>1, <3>2
  <2> QED
    BY <2>6 DEF AgeIsDifference
<1>2. ASSUME NEW t \in Timer, Fires(t) PROVE AgeIsDifference'
  <2>1. \A u \in armed' : u \in armed /\ mark'[u] = mark[u] /\ age'[u] = age[u]
    BY <1>2 DEF Fires
  <2>2. now' = now
    BY <1>2 DEF Fires
  <2> QED
    BY <2>1, <2>2 DEF AgeIsDifference, StartedAt
<1>3. CASE Look \/ Looked \/ UNCHANGED vars
  BY <1>3 DEF Look, Looked, vars, AgeIsDifference, StartedAt
<1>4. CASE Tick
  <2>1. armed' = armed /\ \A u \in Timer : StartedAt(u)' = StartedAt(u)
    BY <1>4 DEF Tick, StartedAt
  <2>2. now' = Plus(now, 1)
    BY <1>4 DEF Tick
  <2>3. \A u \in armed : age'[u] = IF age[u] < Wrap THEN age[u] + 1 ELSE age[u]
    BY <1>4 DEF Tick
  <2>4. ASSUME NEW u \in armed, age'[u] < Wrap
        PROVE  Minus(now', StartedAt(u)) = age'[u]
    <3>1. age[u] < Wrap /\ age'[u] = age[u] + 1
      BY <2>3, <2>4, WrapType
    <3>2. Minus(now, StartedAt(u)) + 1 < Wrap /\ Minus(now, StartedAt(u)) = age[u]
      BY <2>4, <3>1 DEF AgeIsDifference
    <3> QED
      BY <2>2, <3>1, <3>2, StartedAtType, TickOfDifference
  <2> QED
    BY <2>1, <2>4 DEF AgeIsDifference
<1> QED
  BY <1>1, <1>2, <1>3, <1>4 DEF Next

\* The inductive invariant of the clock and the marks, for every width.
THEOREM AgesAreDifferences == Spec => []TimersInv
<1>1. Init => TimersInv
  BY InitTypeOK DEF TimersInv, AgeIsDifference, Init
<1>2. TimersInv /\ [Next]_vars => TimersInv'
  BY TypeStep, AgeStep DEF TimersInv
<1> QED
  BY <1>1, <1>2, PTL DEF Spec

----
(* Due                                                                      *)

LEMMA SpanDue ==
    ASSUME TimersInv, NEW t \in armed, t \in Spans, age[t] < Wrap
    PROVE  Due(t, now) <=> Length[t] <= age[t]
BY DEF TimersInv, AgeIsDifference, StartedAt, Due

LEMMA DelayDue ==
    ASSUME TimersInv, NEW t \in armed, t \in Delays, age[t] < Length[t] + Half
    PROVE  Due(t, now) <=> Length[t] <= age[t]
<1>1. t \notin Spans /\ t \in Timer /\ Length[t] \in Instants /\ Length[t] < Half
  BY LengthType, TimerAssumption DEF TimerAssumption, Timer
<1>2. /\ now \in Instants /\ mark[t] \in Instants /\ age[t] \in 0 .. Wrap
  BY <1>1 DEF TimersInv, TimersTypeOK
<1>3. age[t] < Wrap
  BY <1>1, <1>2, HalfFits, WrapType DEF Instants
<1>4. Minus(now, Minus(mark[t], Length[t])) = age[t]
  BY <1>1, <1>3 DEF TimersInv, AgeIsDifference, StartedAt
<1>5. Minus(now, mark[t]) < Half <=> Length[t] <= age[t]
  BY <1>1, <1>2, <1>4, HalfFits, WrapType DEF Minus, Instants
<1> QED
  BY <1>1, <1>5 DEF Due

LEMMA DeadlineDue ==
    ASSUME TimersInv, NEW t \in armed, t \in Deadlines,
           Length[t] <= mark[t], (mark[t] - Length[t]) + age[t] < Wrap
    PROVE  Due(t, now) <=> Length[t] <= age[t]
<1>1. t \notin Spans /\ t \notin Delays /\ t \in Timer /\ Length[t] \in Instants
  BY LengthType, TimerAssumption DEF TimerAssumption, Timer
<1>2. /\ now \in Instants /\ mark[t] \in Instants /\ age[t] \in 0 .. Wrap
  BY <1>1 DEF TimersInv, TimersTypeOK
<1>3. age[t] < Wrap
  BY <1>1, <1>2, WrapType DEF Instants
<1>4. Minus(now, Minus(mark[t], Length[t])) = age[t]
  BY <1>1, <1>3 DEF TimersInv, AgeIsDifference, StartedAt
<1>5. now >= mark[t] <=> Length[t] <= age[t]
  BY <1>1, <1>2, <1>4, WrapType DEF Minus, Instants
<1> QED
  BY <1>1, <1>5 DEF Due

\* On a clock of any width a timer is due exactly when its length has passed, as
\* long as its comparison can tell.
THEOREM TimersAreExact == Spec => []DueExactly
<1>1. TimersInv => DueExactly
  <2> SUFFICES ASSUME TimersInv, NEW t \in armed, InReach(t)
               PROVE  Due(t, now) <=> Length[t] <= age[t]
    BY DEF DueExactly
  <2>1. t \in Timer
    BY DEF TimersInv, TimersTypeOK
  <2>2. CASE t \in Spans
    BY <2>2, SpanDue DEF InReach
  <2>3. CASE t \in Delays
    BY <2>3, DelayDue, TimerAssumption DEF InReach, TimerAssumption
  <2>4. CASE t \in Deadlines
    BY <2>4, DeadlineDue, TimerAssumption DEF InReach, TimerAssumption
  <2> QED
    BY <2>1, <2>2, <2>3, <2>4 DEF Timer
<1> QED
  BY AgesAreDifferences, <1>1, PTL

\* Without preemption process() compares with the instant it is in ...
LEMMA SeenStep ==
    ASSUME Preemptive = FALSE
    PROVE  Spec => []SeenIsNow
<1>1. Init => SeenIsNow
  BY DEF Init, SeenIsNow
<1>2. SeenIsNow /\ [Next]_vars => SeenIsNow'
  BY DEF SeenIsNow, Next, vars, Start, Fires, Look, Looked, Tick
<1> QED
  BY <1>1, <1>2, PTL DEF Spec

\* ... so nothing that is out of its comparison's reach is early either ...
LEMMA OutOfReachIsOver ==
    ASSUME TimersInv, NEW t \in armed, ~InReach(t)
    PROVE  Length[t] <= age[t] \/ (t \in Deadlines /\ mark[t] < Length[t])
<1>1. t \in Timer /\ Length[t] \in Instants /\ mark[t] \in Instants /\ age[t] \in 0 .. Wrap
  BY LengthType DEF TimersInv, TimersTypeOK
<1>2. CASE t \in Spans
  BY <1>1, <1>2, WrapType DEF InReach, Instants
<1>3. CASE t \in Delays
  <2>1. t \notin Spans
    BY <1>3, TimerAssumption DEF TimerAssumption
  <2> QED
    BY <1>1, <1>3, <2>1, HalfFits, WrapType DEF InReach, Instants
<1>4. CASE t \in Deadlines
  <2>1. t \notin Spans /\ t \notin Delays
    BY <1>4, TimerAssumption DEF TimerAssumption
  <2> QED
    BY <1>1, <1>4, <2>1, WrapType DEF InReach, Instants
<1> QED
  BY <1>1, <1>2, <1>3, <1>4 DEF Timer

\* ... and nothing is done before its time, but for deadlines that wrapped.
THEOREM NothingFiresEarly ==
    ASSUME Preemptive = FALSE
    PROVE  Spec => NotFiredEarly
<1>1. TimersInv /\ DueExactly /\ SeenIsNow /\ [Next]_vars =>
        [\A t \in armed \ armed' :
           Length[t] <= age[t] \/ (t \in Deadlines /\ mark[t] < Length[t])]_vars
  <2> SUFFICES ASSUME TimersInv, DueExactly, SeenIsNow, Next, NEW t \in armed \ armed'
               PROVE  Length[t] <= age[t] \/ (t \in Deadlines /\ mark[t] < Length[t])
    OBVIOUS
  <2>1. Fires(t)
    BY DEF Next, Start, Fires, Look, Looked, Tick
  <2>2. Due(t, now)
    BY <2>1 DEF Fires, SeenIsNow
  <2> QED
    BY <2>2, OutOfReachIsOver DEF DueExactly
<1> QED
  BY AgesAreDifferences, TimersAreExact, SeenStep, <1>1, PTL DEF Spec, NotFiredEarly
====
