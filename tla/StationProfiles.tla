---- MODULE StationProfiles ----
(***************************************************************************)
(* The profile set of the station controller as data: which slots are      *)
(* usable, when a set is valid, which slot a connection cycle starts with, *)
(* and the set a POST /api/wifi/save asks for.                             *)
(*                                                                         *)
(* A slot holds the credentials of a network, or Disabled (not enabled, or *)
(* enabled with an empty SSID), or Unterminated (enabled, and a buffer     *)
(* that lacks its NUL).                                                    *)
(***************************************************************************)
EXTENDS Networks, Naturals

CONSTANTS
    SlotCount,      \* WM_STATION_PROFILE_COUNT
    Disabled,       \* contents of a slot that is not in use
    Unterminated    \* contents of an enabled slot without its NUL

ASSUME ProfileAssumption ==
    /\ SlotCount \in 1 .. 8       \* _stationAttemptMask is a byte
    /\ Disabled \notin Network
    /\ Unterminated \notin Network
    /\ Disabled # Unterminated

Slots == 0 .. SlotCount - 1
NoSlot == 255                     \* WM_NO_STATION_PROFILE
Contents == Network \cup {Disabled, Unterminated}
ProfileSet ==
    [ slot      : [Slots -> Contents],
      preferred : Slots \cup {NoSlot},
      last      : Slots \cup {NoSlot} ]

\* WiFiManagerStationProfiles()
EmptySet == [slot |-> [s \in Slots |-> Disabled], preferred |-> 0, last |-> NoSlot]

\* isStationProfileEnabled
Enabled(p, s) == s \in Slots /\ p.slot[s] # Disabled

EnabledSlots(p) == {s \in Slots : Enabled(p, s)}

\* validateStationProfiles
Validate(p) ==
    /\ p.preferred \in Slots
    /\ Enabled(p, 0)
    /\ \A s \in Slots : p.slot[s] # Unterminated
    /\ p.last = NoSlot \/ Enabled(p, p.last)

\* The enabled slot with the smallest index.
FirstOf(S) == CHOOSE s \in S : \A t \in S : s <= t

\* chooseStationProfile
Choose(p, preferLast) ==
    IF preferLast /\ Enabled(p, p.last) THEN p.last
    ELSE IF Enabled(p, p.preferred) THEN p.preferred
    ELSE IF EnabledSlots(p) # {} THEN FirstOf(EnabledSlots(p))
    ELSE NoSlot

\* The outcome of the connection is recorded in the set.
WithLast(p, s) == [p EXCEPT !.last = s]

----
(* POST /api/wifi/save in profile mode                                      *)

CONSTANTS
    Keep            \* the request does not mention the slot

\* A submitted form: per slot a new network, an empty SSID, or nothing.
Forms == [Slots -> Network \cup {Disabled, Keep}]

\* buildStationProfilesFromRequest.  An invalid stored set is not a base to
\* build on; a last successful slot that the form switches off is forgotten.
BuildFromRequest(stored, form) ==
    LET base  == IF Validate(stored) THEN stored ELSE EmptySet
        slots == [s \in Slots |-> IF form[s] = Keep THEN base.slot[s] ELSE form[s]]
        built == [base EXCEPT !.slot = slots, !.preferred = 0]
    IN  IF Enabled(built, built.last) THEN built ELSE WithLast(built, NoSlot)
====
