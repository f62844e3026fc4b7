---- MODULE Radio ----
(***************************************************************************)
(* The station side of the ESP8266/ESP32 WiFi driver, as WiFiManager uses  *)
(* it: WiFi.begin, WiFi.disconnect, WiFi.reconnect, WiFi.status and        *)
(* WiFi.localIP.  The driver is not part of the repository, so this is the *)
(* contract the library relies on and not a translation:                   *)
(*   - WiFi.begin(ssid) makes ssid the only network the driver works on,   *)
(*     and an association with another network is over when it returns;    *)
(*   - WiFi.begin called not to connect replaces the configuration only;    *)
(*     an association that is up may end with it;                          *)
(*   - WiFi.begin may report a failure and work on the network all the     *)
(*     same, for the status it returns may be WL_IDLE_STATUS, which is 0;  *)
(*   - WL_CONNECTED and a non-zero address arrive together (one `link');   *)
(*   - WiFi.disconnect() keeps the configuration of the last WiFi.begin,   *)
(*     and WiFi.reconnect() resumes it;                                    *)
(*   - an association may be lost at any time.  WiFiManager may have       *)
(*     turned the driver's own reconnection off or left it on, so the      *)
(*     driver may forget the network or keep trying it.                    *)
(***************************************************************************)
EXTENDS Networks

VARIABLES
    target,      \* what the driver was last told to join
    link,        \* the network the station has a usable address on
    config       \* the station configuration the driver holds, None if erased

radioVars == <<target, link, config>>

\* hasUsableStationConnection(): WL_CONNECTED and an address other than 0.0.0.0.
Usable == link # None

RadioInit == target = None /\ link = None /\ config = None

\* WiFi.begin with the credentials n.
WiFiBegin(n) == target' = n /\ link' = None /\ config' = n

\* WiFi.begin with the credentials n and `connect' off.
WiFiConfigure(n) ==
    /\ config' = n
    /\ \/ target' = None /\ link' = None
       \/ UNCHANGED <<target, link>>

\* WiFi_Disconnect(): the driver stops, and keeps its configuration.
WiFiDisconnect == target' = None /\ link' = None /\ UNCHANGED config

\* WiFi_Disconnect() and WiFi_eraseConfig(), which clears the driver's
\* configuration (ESP32) or only its copy in the flash (ESP8266).
WiFiErase == target' = None /\ link' = None /\ config' \in {None, config}

\* WiFi.reconnect(), called if the status is WL_IDLE_STATUS; a station without
\* a link may or may not have that status.
WiFiReconnect ==
    /\ target' \in IF link = None THEN {target, config} ELSE {target}
    /\ UNCHANGED <<link, config>>

\* The driver associates and gets an address.
Join ==
    /\ link = None
    /\ target \in Reachable
    /\ link' = target
    /\ UNCHANGED <<target, config>>

\* The association is lost.
Drop ==
    /\ link # None
    /\ link' = None
    /\ target' \in {None, target}
    /\ UNCHANGED config
====
