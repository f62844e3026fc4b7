---- MODULE PortalTimeoutProofs ----
(***************************************************************************)
(* The portal's time-out on a clock of any width, for any limits and any   *)
(* length of the page's second: until the clock starts over the portal is  *)
(* not closed early, neither by the application's limit nor by what a page *)
(* was told.                                                               *)
(***************************************************************************)
EXTENDS PortalTimeout, TLAPS

\* What the time-out counts from while nothing holds it.
Renewed == IF opts.webClientCheck /\ accessed > start THEN accessed ELSE start

\* Until the clock starts over, what is kept lies in the past ...
MarksArePast == ~wrapped => start <= now /\ accessed <= now

\* ... the time that really passed is at least what the code counts ...
IdleIsCounted == active /\ ~wrapped => now <= idle + Renewed

\* ... and a page was not told more than what the portal still has, but for the
\* rounding.
PromiseIsCovered ==
    active /\ ~wrapped /\ start + limit < Wrap =>
        promised = 0 \/ promised + now < Second + start + limit

TimeoutInv == TimeoutTypeOK /\ MarksArePast /\ IdleIsCounted /\ PromiseIsCovered

----
(* The clock and the seconds                                                *)

LEMMA WrapType == Wrap \in Nat /\ Wrap > 1
BY MillisAssumption DEF MillisAssumption

LEMMA LessThanSum ==
    ASSUME NEW n \in Nat, NEW m \in Nat, NEW k \in Nat, n < m
    PROVE  n <= m + k
OBVIOUS

LEMMA LimitsType == Limits \in SUBSET Nat /\ Second \in Nat /\ Second > 0 /\ MaxCalls \in Nat
BY TimeoutAssumption DEF TimeoutAssumption

LEMMA PlusOne ==
    ASSUME NEW t \in Instants
    PROVE  Plus(t, 1) \in Instants /\ (Plus(t, 1) # 0 => Plus(t, 1) = t + 1)
BY WrapType DEF Instants, Plus

\* Rounding up adds less than a second, and nothing to no time.
LEMMA SecondsUpBounds ==
    ASSUME NEW d \in Nat
    PROVE  SecondsUp(d) \in Nat /\ SecondsUp(d) < d + Second /\ (d = 0 => SecondsUp(d) = 0)
<1> DEFINE q == (d + Second - 1) \div Second
<1>1. d + Second - 1 \in Nat
  BY LimitsType
<1>2. q \in Nat /\ q * Second <= d + Second - 1
  BY <1>1, LimitsType
<1>3. q * Second \in Nat
  BY <1>2, LimitsType
<1>4. d = 0 => q = 0
  BY LimitsType
<1> QED
  BY <1>2, <1>3, <1>4, LimitsType DEF SecondsUp

\* What is left, if the deadline does not wrap.
LEMMA LeftBounds ==
    ASSUME TimeoutTypeOK
    PROVE  Left \in Nat /\ (start + limit < Wrap /\ Left > 0 => Left + now = start + limit)
<1>1. now \in Nat /\ start \in Nat /\ limit \in Nat
  BY LimitsType DEF TimeoutTypeOK, Instants
<1> QED
  BY <1>1, WrapType DEF Left, Plus

----
(* Types                                                                    *)

LEMMA CountsFromType ==
    ASSUME TimeoutTypeOK
    PROVE  CountsFrom \in Instants
BY DEF TimeoutTypeOK, CountsFrom

LEMMA TypeStep ==
    ASSUME TimeoutTypeOK, [Next]_vars
    PROVE  TimeoutTypeOK'
<1> USE DEF TimeoutTypeOK
<1>1. 0 \in Instants /\ 0 \in 0 .. Wrap /\ Wrap \in 0 .. Wrap
  BY WrapType DEF Instants
<1>2. Call => calls' \in 0 .. MaxCalls
  BY LimitsType DEF Call
<1>3. CASE Open
  BY <1>1, <1>3 DEF Open
<1>4. CASE Close
  BY <1>1, <1>2, <1>4 DEF Close, Down
<1>5. CASE Client
  BY <1>2, <1>5 DEF Client
<1>6. CASE Request
  BY <1>1, <1>2, <1>6 DEF Request, Access
<1>7. CASE Load
  <2>1. promised' \in Nat
    BY <1>7, LeftBounds, SecondsUpBounds DEF Load
  <2> QED
    BY <1>1, <1>2, <1>7, <2>1 DEF Load, Access
<1>8. CASE TimeoutReset
  <2>1. promised' \in Nat
    BY <1>8, LimitsType, SecondsUpBounds DEF TimeoutReset
  <2> QED
    BY <1>1, <1>2, <1>8, <2>1 DEF TimeoutReset
<1>9. ASSUME NEW l \in Limits, NEW o \in Options, Configure(l, o) PROVE TimeoutTypeOK'
  BY <1>1, <1>2, <1>9 DEF Configure
<1>10. CASE Check
  BY <1>1, <1>10, CountsFromType DEF Check
<1>11. CASE TimesOut
  BY <1>1, <1>11, CountsFromType DEF TimesOut, Down
<1>12. CASE Tick
  <2>1. now' \in Instants
    BY <1>12, PlusOne DEF Tick
  <2>2. idle' \in 0 .. Wrap
    BY <1>12, WrapType DEF Tick
  <2>3. promised' \in Nat
    BY <1>12 DEF Tick
  <2> QED
    BY <1>12, <2>1, <2>2, <2>3 DEF Tick
<1>13. CASE UNCHANGED vars
  BY <1>13 DEF vars
<1> QED
  BY <1>3, <1>4, <1>5, <1>6, <1>7, <1>8, <1>9, <1>10, <1>11, <1>12, <1>13 DEF Next

----
(* Marks                                                                    *)

\* The types that arithmetic needs, before and after a step.
LEMMA Numbers ==
    ASSUME TimeoutTypeOK
    PROVE  /\ now \in Nat /\ start \in Nat /\ accessed \in Nat /\ limit \in Nat
           /\ idle \in Nat /\ promised \in Nat
           /\ now < Wrap
BY LimitsType, WrapType DEF TimeoutTypeOK, Instants

LEMMA CountsFromIsRenewed ==
    /\ Held => CountsFrom = now
    /\ ~Held => CountsFrom = Renewed
BY DEF CountsFrom, Renewed

LEMMA MarkStep ==
    ASSUME TimeoutTypeOK, TimeoutTypeOK', MarksArePast, [Next]_vars
    PROVE  MarksArePast'
<1> USE Numbers DEF MarksArePast
<1>1. CASE Open \/ Close \/ Client \/ Request \/ Load \/ TimeoutReset
  BY <1>1 DEF Open, Close, Client, Request, Load, TimeoutReset, Access
<1>2. ASSUME NEW l \in Limits, NEW o \in Options, Configure(l, o) PROVE MarksArePast'
  BY <1>2 DEF Configure
<1>3. CASE Check \/ TimesOut
  BY <1>3 DEF Check, TimesOut, CountsFrom
<1>4. CASE Tick
  <2>1. ~wrapped' => ~wrapped /\ now' = now + 1
    BY <1>4, PlusOne DEF Tick, TimeoutTypeOK
  <2> QED
    BY <1>4, <2>1 DEF Tick
<1>5. CASE UNCHANGED vars
  BY <1>5 DEF vars
<1> QED
  BY <1>1, <1>2, <1>3, <1>4, <1>5 DEF Next

LEMMA IdleStep ==
    ASSUME TimeoutTypeOK, TimeoutTypeOK', MarksArePast, IdleIsCounted, [Next]_vars
    PROVE  IdleIsCounted'
<1> USE Numbers DEF MarksArePast, IdleIsCounted, Renewed
<1>1. CASE Open
  BY <1>1 DEF Open
<1>2. CASE Close \/ TimesOut
  BY <1>2 DEF Close, TimesOut, Down
<1>3. CASE Client
  BY <1>3 DEF Client
<1>4. CASE Request \/ Load
  <2>1. /\ accessed' = now /\ UNCHANGED <<now, opts, active, start, wrapped>>
        /\ idle' = IF opts.webClientCheck THEN 0 ELSE idle
    BY <1>4 DEF Request, Load, Access
  <2>2. CASE opts.webClientCheck
    BY <2>1, <2>2
  <2>3. CASE ~opts.webClientCheck
    BY <2>1, <2>3
  <2> QED
    BY <2>2, <2>3
<1>5. CASE TimeoutReset
  BY <1>5 DEF TimeoutReset
<1>6. ASSUME NEW l \in Limits, NEW o \in Options, Configure(l, o) PROVE IdleIsCounted'
  <2>1. active' => now' < idle'
    <3>1. active' => idle' = Wrap
      BY <1>6 DEF Configure
    <3>2. now' < Wrap
      BY WrapType DEF TimeoutTypeOK, Instants
    <3> QED
      BY <3>1, <3>2
  <2>2. now' \in Nat /\ idle' \in Nat /\ start' \in Nat /\ accessed' \in Nat
    BY WrapType DEF TimeoutTypeOK, Instants
  <2>3. active' => now' <= idle' + start' /\ now' <= idle' + accessed'
    BY <2>1, <2>2, LessThanSum
  <2> QED
    BY <2>3
<1>7. CASE Check
  <2>1. CASE Held
    BY <1>7, <2>1 DEF Check, CountsFrom
  <2>2. CASE ~Held
    BY <1>7, <2>2 DEF Check, CountsFrom
  <2> QED
    BY <2>1, <2>2
<1>8. CASE Tick
  <2>1. ~wrapped' => ~wrapped /\ now' = now + 1
    BY <1>8, PlusOne DEF Tick, TimeoutTypeOK
  <2>2. active => idle' = idle + 1 \/ (idle' = idle /\ idle >= Wrap)
    BY <1>8, WrapType DEF Tick
  <2>3. now' < Wrap /\ now' \in Nat
    BY WrapType DEF TimeoutTypeOK, Instants
  <2>4. UNCHANGED <<active, start, accessed, opts>>
    BY <1>8 DEF Tick
  <2> QED
    BY <2>1, <2>2, <2>3, <2>4, WrapType
<1>9. CASE UNCHANGED vars
  BY <1>9 DEF vars
<1> QED
  BY <1>1, <1>2, <1>3, <1>4, <1>5, <1>6, <1>7, <1>8, <1>9 DEF Next

LEMMA PromiseStep ==
    ASSUME TimeoutTypeOK, TimeoutTypeOK', MarksArePast, PromiseIsCovered, [Next]_vars
    PROVE  PromiseIsCovered'
<1> USE Numbers, LimitsType DEF MarksArePast, PromiseIsCovered
<1>1. CASE Open \/ Close \/ TimesOut
  BY <1>1 DEF Open, Close, TimesOut, Down
<1>2. CASE Client \/ Request
  BY <1>2 DEF Client, Request, Access
<1>3. CASE Load
  <2>1. promised' = SecondsUp(Left) /\ UNCHANGED <<now, start, limit>>
    BY <1>3 DEF Load
  <2>2. /\ Left \in Nat
        /\ start + limit < Wrap /\ Left > 0 => Left + now = start + limit
    BY LeftBounds
  <2>3. /\ SecondsUp(Left) \in Nat /\ SecondsUp(Left) < Left + Second
        /\ Left = 0 => SecondsUp(Left) = 0
    BY <2>2, SecondsUpBounds
  <2> QED
    BY <2>1, <2>2, <2>3
<1>4. CASE TimeoutReset
  <2>1. CASE limit = 0
    BY <1>4, <2>1 DEF TimeoutReset
  <2>2. CASE limit # 0
    <3>1. promised' = SecondsUp(limit) /\ start' = now /\ UNCHANGED <<now, limit>>
      BY <1>4, <2>2 DEF TimeoutReset
    <3>2. SecondsUp(limit) \in Nat /\ SecondsUp(limit) < limit + Second
      BY SecondsUpBounds
    <3> QED
      BY <3>1, <3>2
  <2> QED
    BY <2>1, <2>2
<1>5. ASSUME NEW l \in Limits, NEW o \in Options, Configure(l, o) PROVE PromiseIsCovered'
  BY <1>5 DEF Configure
<1>6. CASE Check
  <2>1. ~wrapped => start' >= start
    BY <1>6 DEF Check, CountsFrom
  <2>2. UNCHANGED <<now, active, wrapped, limit, promised>>
    BY <1>6 DEF Check
  <2>3. start' \in Nat
    BY DEF TimeoutTypeOK, Instants
  <2> QED
    BY <2>1, <2>2, <2>3, WrapType
<1>7. CASE Tick
  <2>1. ~wrapped' => ~wrapped /\ now' = now + 1
    BY <1>7, PlusOne DEF Tick, TimeoutTypeOK
  <2>2. promised' = 0 \/ promised' + 1 = promised
    BY <1>7 DEF Tick
  <2>3. UNCHANGED <<active, start, limit>>
    BY <1>7 DEF Tick
  <2>4. promised' \in Nat
    BY DEF TimeoutTypeOK
  <2> QED
    BY <2>1, <2>2, <2>3, <2>4
<1>8. CASE UNCHANGED vars
  BY <1>8 DEF vars
<1> QED
  BY <1>1, <1>2, <1>3, <1>4, <1>5, <1>6, <1>7, <1>8 DEF Next

----
(* The theorems                                                             *)

\* The inductive invariant: what the portal counts from, what really passed and
\* what a page was told, agree until the clock starts over.
THEOREM TimeoutInvariant == Spec => []TimeoutInv
<1>1. Init => TimeoutInv
  <2> SUFFICES ASSUME Init PROVE TimeoutInv
    OBVIOUS
  <2>1. 0 \in Instants /\ 0 \in 0 .. Wrap /\ 0 \in 0 .. MaxCalls /\ 0 \in Nat
    BY WrapType, LimitsType DEF Instants
  <2>2. TimeoutTypeOK
    BY <2>1 DEF Init, TimeoutTypeOK
  <2>3. MarksArePast
    BY <2>2, Numbers DEF Init, MarksArePast
  <2> QED
    BY <2>2, <2>3 DEF Init, TimeoutInv, IdleIsCounted, PromiseIsCovered
<1>2. TimeoutInv /\ [Next]_vars => TimeoutInv'
  BY TypeStep, MarkStep, IdleStep, PromiseStep DEF TimeoutInv
<1> QED
  BY <1>1, <1>2, PTL DEF Spec

\* A time-out in range finds the portal's deadline where CountsFrom says.
LEMMA ExpiredInRange ==
    ASSUME TimeoutInv, TimesOutInRange
    PROVE  /\ ~Held /\ active /\ ~wrapped
           /\ start' = Renewed /\ start' \in Nat
           /\ start' + limit < Wrap /\ now > start' + limit
<1>1. TimeoutTypeOK
  BY DEF TimeoutInv
<1>2. ~Held /\ active /\ ~wrapped /\ start' = CountsFrom /\ Expired(start') /\ start' + limit < Wrap
  BY DEF TimesOutInRange, TimesOut
<1>3. start' = Renewed /\ start' \in Nat
  BY <1>1, <1>2, CountsFromIsRenewed, Numbers DEF Renewed
<1>4. now > start' + limit
  BY <1>2 DEF Expired, Plus
<1> QED
  BY <1>2, <1>3, <1>4

\* Until the clock starts over, the portal is closed by its time-out only after
\* the whole limit since the last thing that renews it.
THEOREM PortalIsNotCutShort == Spec => NotCutShort
<1>1. TimeoutInv /\ [Next]_vars => [TimesOutInRange => idle > limit]_vars
  <2> SUFFICES ASSUME TimeoutInv, TimesOutInRange PROVE idle > limit
    OBVIOUS
  <2>1. idle \in Nat /\ limit \in Nat /\ now \in Nat
    BY Numbers DEF TimeoutInv
  <2>2. now <= idle + start'
    BY ExpiredInRange DEF TimeoutInv, IdleIsCounted
  <2> QED
    BY <2>1, <2>2, ExpiredInRange
<1> QED
  BY TimeoutInvariant, <1>1, PTL DEF Spec, NotCutShort

\* Until then it also lives as long as its page was told, to the second.
THEOREM PortalOutlivesReport == Spec => OutlivesReport
<1>1. TimeoutInv /\ [Next]_vars => [TimesOutInRange => promised < Second]_vars
  <2> SUFFICES ASSUME TimeoutInv, TimesOutInRange PROVE promised < Second
    OBVIOUS
  <2>1. /\ promised \in Nat /\ limit \in Nat /\ now \in Nat /\ start \in Nat
        /\ accessed \in Nat
    BY Numbers DEF TimeoutInv
  <2>2. start <= start'
    BY <2>1, ExpiredInRange DEF Renewed
  <2>3. start + limit < Wrap
    BY <2>1, <2>2, ExpiredInRange, WrapType
  <2>4. promised = 0 \/ promised + now < Second + start + limit
    BY <2>3, ExpiredInRange DEF TimeoutInv, PromiseIsCovered
  <2> QED
    BY <2>1, <2>2, <2>4, ExpiredInRange, LimitsType
<1> QED
  BY TimeoutInvariant, <1>1, PTL DEF Spec, OutlivesReport
====
