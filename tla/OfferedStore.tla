---- MODULE OfferedStore ----
(***************************************************************************)
(* What the station controller promises about the application's store      *)
(* whatever comes between its steps: the store is only ever written as a   *)
(* whole, with a valid set that was offered for it and is given up in the  *)
(* same step, or with a set that somebody means to store as it is; and a   *)
(* connection of the stored set changes no more of it than the slot that   *)
(* connected last.                                                         *)
(***************************************************************************)
EXTENDS StationProfiles

CONSTANT NoCandidate

VARIABLES
    stored,      \* the profile set that survives a restart
    proposal     \* the set being verified, or NoCandidate

Init ==
    /\ stored \in ProfileSet
    /\ proposal = NoCandidate

\* A set is offered, in place of one that may still be under verification.
Propose ==
    /\ \E c \in ProfileSet : Validate(c) /\ proposal' = c
    /\ UNCHANGED stored

\* The offer ends without an effect: it failed, it was cleared away, the
\* store would not take it, or the device restarted.
Abandon == proposal' = NoCandidate /\ UNCHANGED stored

\* The offered set is stored, s being the slot that connected.
CommitAt(s) ==
    /\ proposal # NoCandidate
    /\ s \in EnabledSlots(proposal)
    /\ stored' = WithLast(proposal, s)
    /\ proposal' = NoCandidate

Commit == \E s \in Slots : CommitAt(s)

\* A connection of the stored set is remembered in it.
Remember ==
    /\ proposal = NoCandidate
    /\ \E s \in Slots : stored' = WithLast(stored, s)
    /\ UNCHANGED proposal

\* The application, or a form marked `save for later', writes a set.
StoreUnverified ==
    /\ \E p \in ProfileSet : Validate(p) /\ stored' = p
    /\ UNCHANGED proposal

Clear == stored' = EmptySet /\ proposal' = NoCandidate

Next == Propose \/ Abandon \/ Commit \/ Remember \/ StoreUnverified \/ Clear

Spec == Init /\ [][Next]_<<stored, proposal>>
====
