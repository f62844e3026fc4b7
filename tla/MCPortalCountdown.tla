---- MODULE MCPortalCountdown ----
(***************************************************************************)
(* Values for TLC: a limit of two seconds, a page that counts three times. *)
(***************************************************************************)
EXTENDS PortalCountdown

MCLimits == {0, 4}
====
