---- MODULE Millis ----
(***************************************************************************)
(* millis(): a counter of milliseconds in an unsigned long, which starts   *)
(* over at Wrap (2^32 on the devices).  Instants are its values; sums and  *)
(* differences of them are the machine's.                                  *)
(***************************************************************************)
EXTENDS Naturals

CONSTANT Wrap
ASSUME MillisAssumption == Wrap \in Nat /\ Wrap > 1

Instants == 0 .. Wrap - 1

Plus(t, d) == IF t + d < Wrap THEN t + d ELSE (t + d) - Wrap
Minus(t, s) == IF s <= t THEN t - s ELSE (t + Wrap) - s
====
