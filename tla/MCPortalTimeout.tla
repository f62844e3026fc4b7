---- MODULE MCPortalTimeout ----
(***************************************************************************)
(* Values for TLC: a clock that starts over after a few seconds of two     *)
(* milliseconds, a portal with and without a limit.                        *)
(***************************************************************************)
EXTENDS PortalTimeout

MCLimits == {0, 2}
====
