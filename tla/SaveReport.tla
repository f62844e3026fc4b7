---- MODULE SaveReport ----
(***************************************************************************)
(* What a device without station profiles promises to whoever saves a      *)
(* network in its portal and polls for the outcome, without phases,        *)
(* portals or timers: a save is pending until it settles, once; it settles *)
(* as joined only while the station has an address on the very network     *)
(* that was submitted last; and what has settled stays so until the next   *)
(* save, or until a new session forgets it.                                *)
(***************************************************************************)
EXTENDS Networks

VARIABLES
    report,      \* what GET /api/wifi/connect-status says of the save
    ssid,        \* the network that was submitted last, None for none
    address,     \* the report carries the station's address
    connects,    \* a save is to connect the station (not only to be kept)
    link         \* the network the station has a usable address on

Init == report = "idle" /\ ssid = None /\ address = FALSE

\* A submission takes the place of an earlier one, whatever became of that.
Submit ==
    /\ \E n \in Network \cup {None} : ssid' = n
    /\ report' = "pending" /\ address' = FALSE

Pending == report = "pending" /\ UNCHANGED ssid

\* The address is reported a moment before the outcome it belongs to.
OnTheNetwork == connects /\ ssid # None /\ link = ssid
Addresses == Pending /\ OnTheNetwork /\ report' = "pending" /\ address' = TRUE
Joins == Pending /\ OnTheNetwork /\ address /\ report' = "success" /\ UNCHANGED address

\* There is nothing to connect to: the save succeeds without an address.
Keeps ==
    /\ Pending
    /\ ssid = None \/ ~connects
    /\ report' = "success" /\ address' = FALSE

Fails ==
    /\ Pending
    /\ ssid # None
    /\ report' = "failed" /\ address' = FALSE

\* The session ends under a pending save, or a new one begins.
Forgets == report' = "idle" /\ UNCHANGED <<ssid, address>>

\* The link is the environment's, `connects' a choice made once.
Next == Submit \/ Addresses \/ Joins \/ Keeps \/ Fails \/ Forgets

Spec == Init /\ [][Next]_<<report, ssid, address>>
====
