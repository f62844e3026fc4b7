---- MODULE ScanStatus ----
(***************************************************************************)
(* What GET /api/wifi/scan-status makes of the cached results: the entries *)
(* that are worth showing, the strongest first, each name once.  The loops *)
(* of collectVisibleScanResults are functions of the number of entries     *)
(* they have gone through.                                                 *)
(***************************************************************************)
EXTENDS Scan, Functions

CONSTANT Minimums    \* what the application may set as _minimumQuality

\* WiFiManagerUtils::rssiToQuality, in percent.
Quality(rssi) ==
    IF rssi <= -100 THEN 0
    ELSE IF rssi >= -50 THEN 100
    ELSE 2 * (rssi + 100)

\* An entry with a name; -1 switches the comparison with the minimum off.
Presentable(minimum, e) ==
    /\ e.ssid # Nameless
    /\ minimum = -1 \/ minimum < Quality(e.rssi)

ShownUpTo(minimum, s) ==
    LET upTo[i \in 0 .. Len(s)] ==
            IF i = 0 THEN <<>>
            ELSE IF Presentable(minimum, s[i]) THEN Append(upTo[i - 1], s[i])
            ELSE upTo[i - 1]
    IN upTo

Shown(minimum, s) == ShownUpTo(minimum, s)[Len(s)]

\* The exchange sort: every position takes what is stronger among the later
\* ones, by swapping.
Exchange(s, i, j) ==
    IF s[j].rssi > s[i].rssi THEN [s EXCEPT ![i] = s[j], ![j] = s[i]] ELSE s

SettledUpTo(s, i) ==
    LET upTo[j \in 0 .. Len(s)] ==
            IF j <= i THEN s ELSE Exchange(upTo[j - 1], i, j)
    IN upTo

Settle(s, i) == SettledUpTo(s, i)[Len(s)]

OrderedUpTo(s) ==
    LET upTo[i \in 0 .. Len(s)] == IF i = 0 THEN s ELSE Settle(upTo[i - 1], i)
    IN upTo

StrongestFirst(s) == OrderedUpTo(s)[Len(s)]

Keep(kept, e) ==
    IF \E k \in DOMAIN kept : kept[k].ssid = e.ssid THEN kept ELSE Append(kept, e)

KeptUpTo(s) ==
    LET upTo[i \in 0 .. Len(s)] == IF i = 0 THEN <<>> ELSE Keep(upTo[i - 1], s[i])
    IN upTo

FirstOfEachName(s) == KeptUpTo(s)[Len(s)]

\* Mutant: duplicates are dropped before the entries are in order.
VisibleUnsorted(minimum, distinct, s) ==
    LET shown == Shown(minimum, s)
    IN IF distinct THEN StrongestFirst(FirstOfEachName(shown)) ELSE StrongestFirst(shown)

\* collectVisibleScanResults, with _minimumQuality and _removeDuplicateAPs.
Visible(minimum, distinct, s) ==
    LET ordered == StrongestFirst(Shown(minimum, s))
    IN IF distinct THEN FirstOfEachName(ordered) ELSE ordered

----
(* The reference: what the portal's list should be, without saying how.     *)

Ordered(v) == \A i, j \in DOMAIN v : i < j => v[i].rssi >= v[j].rssi

\* setMinimumSignalQuality sets the `min quality percentage to include'
\* (WiFiManager.h:543).  Networks above it are shown and networks below it are not;
\* those exactly at it are included by these words and left out by the code, so
\* the reference leaves them open.
WorthShowing(inclusive, minimum, e) ==
    /\ e.ssid # Nameless
    /\ \/ minimum = -1
       \/ Quality(e.rssi) > minimum
       \/ inclusive /\ Quality(e.rssi) = minimum

\* The entries of s that are worth showing, every one of them once.
ShowsAll(inclusive, minimum, s, v) ==
    \E p \in Bijection(DOMAIN v, {i \in DOMAIN s : WorthShowing(inclusive, minimum, s[i])}) :
        \A i \in DOMAIN v : v[i] = s[p[i]]

ShowsBestOfEachName(inclusive, minimum, s, v) ==
    LET worth == {e \in Range(s) : WorthShowing(inclusive, minimum, e)}
    IN /\ Range(v) = {e \in worth : \A o \in worth : o.ssid = e.ssid => o.rssi <= e.rssi}
       /\ \A i, j \in DOMAIN v : v[i].ssid = v[j].ssid => i = j

IsListOf(minimum, distinct, s, v) ==
    /\ Ordered(v)
    /\ \E inclusive \in BOOLEAN :
         IF distinct THEN ShowsBestOfEachName(inclusive, minimum, s, v)
         ELSE ShowsAll(inclusive, minimum, s, v)

\* The list of networks in the portal, GET /api/wifi/scan-status, in whatever
\* order the driver found them: strongest first, without entries that have no name
\* or less than the minimum quality, with all that have more, and, if duplicates
\* are removed, with the strongest of each name.
ListIsRight ==
    \A order \in Bijection(DOMAIN cache, DOMAIN cache), minimum \in Minimums, distinct \in BOOLEAN :
        LET s == [i \in DOMAIN cache |-> cache[order[i]]]
        IN IsListOf(minimum, distinct, s, Visible(minimum, distinct, s))
====
