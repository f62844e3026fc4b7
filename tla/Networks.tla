---- MODULE Networks ----
(***************************************************************************)
(* What a station can be told to join: an SSID with its password is one    *)
(* network.  Two networks with one SSID and different passwords differ.    *)
(***************************************************************************)
CONSTANTS
    Network,     \* credentials
    Reachable,   \* those an access point in range accepts
    None         \* no network

ASSUME NetworkAssumption ==
    /\ Reachable \subseteq Network
    /\ None \notin Network
====
