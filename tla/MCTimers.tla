---- MODULE MCTimers ----
(***************************************************************************)
(* Values for TLC: a timer of each kind on a clock of three bits.          *)
(***************************************************************************)
EXTENDS Timers, TLC

CONSTANTS attempt, switch, exit

MCSpans == {attempt}
MCDelays == {switch}
MCDeadlines == {exit}
MCLength == attempt :> 3 @@ switch :> 2 @@ exit :> 2
====
