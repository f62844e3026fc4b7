---- MODULE MCPortalPage ----
(***************************************************************************)
(* Values for TLC: one network, which an attempt joins or not, and a       *)
(* configuration portal that closes after a save or at its time-out.       *)
(***************************************************************************)
EXTENDS PortalPage

CONSTANT n1

TimedDefaults ==
    [ disableConfigPortal |-> TRUE, enableConfigPortal |-> TRUE,
      breakAfterConfig |-> FALSE, connectOnSave |-> TRUE, connectTimeout |-> TRUE,
      portalTimeout |-> TRUE, allowExit |-> TRUE ]

MCOptions == {TimedDefaults}

MCNetworks == {n1}
MCReachable == {n1}
====
