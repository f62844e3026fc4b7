---- MODULE MCOta ----
(***************************************************************************)
(* Values for TLC: two uploads, a portal with and without a limit.         *)
(***************************************************************************)
EXTENDS Ota, TLC

CONSTANTS u1, u2

MCUploads == {u1, u2}
MCLimits == {0, 1, 2}
Symmetry == Permutations(MCUploads)
====
