---- MODULE MCScan ----
(***************************************************************************)
(* Values for TLC: two names, signals below, at and inside the limits of   *)
(* the quality scale, scans that find nothing, two networks, and three.    *)
(***************************************************************************)
EXTENDS ScanStatus

CONSTANTS a, b, hidden

MCSsid == {a, b}
MCRssi == {-100, -60, -50, 0}

Found(ssid, rssi) == [ssid |-> ssid, rssi |-> rssi]

MCFindings ==
    { <<>>,
      <<Found(hidden, -50), Found(b, -50)>>,
      <<Found(a, -60), Found(b, -100), Found(a, -50)>> }

\* No minimum, the lowest, and one that a signal of -60 dBm just has.
MCMinimums == {-1, 0, 80}
====
