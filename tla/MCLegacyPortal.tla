---- MODULE MCLegacyPortal ----
(***************************************************************************)
(* Values for TLC: a network in range and one out of range.                *)
(***************************************************************************)
EXTENDS LegacyPortal

CONSTANTS n1, n2

\* The defaults of the library, with both time-outs switched on.
TimedDefaults ==
    [ disableConfigPortal |-> TRUE, enableConfigPortal |-> TRUE,
      breakAfterConfig |-> FALSE, connectOnSave |-> TRUE, connectTimeout |-> TRUE,
      portalTimeout |-> TRUE, allowExit |-> TRUE ]

\* Each option away from its default, alone or where two of them interact.
MCOptions ==
    { TimedDefaults,
      [TimedDefaults EXCEPT !.disableConfigPortal = FALSE, !.portalTimeout = FALSE],
      [TimedDefaults EXCEPT !.breakAfterConfig = TRUE, !.allowExit = FALSE],
      [TimedDefaults EXCEPT !.allowExit = FALSE],
      [TimedDefaults EXCEPT !.connectOnSave = FALSE],
      [TimedDefaults EXCEPT !.connectTimeout = FALSE, !.portalTimeout = FALSE] }

MCNetworks == {n1, n2}
MCReachable == {n1}
====
