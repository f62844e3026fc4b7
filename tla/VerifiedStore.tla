---- MODULE VerifiedStore ----
(***************************************************************************)
(* What the controller promises about the store where request handlers do  *)
(* not interrupt it, without slots tried, timers or portals: OfferedStore, *)
(* and an offered set replaces the stored one only while the station has a *)
(* usable address on the network of one of its slots.                      *)
(***************************************************************************)
EXTENDS OfferedStore

VARIABLE link    \* the network the station has a usable address on

VerifiedInit == Init /\ link = None

\* The station is on the network of one of the proposal's slots.
VerifiedCommit == \E s \in Slots : CommitAt(s) /\ link = proposal.slot[s]

VerifiedRemember == Remember /\ link # None

\* The link is the environment's.
VerifiedNext ==
    \/ Propose \/ Abandon \/ VerifiedCommit \/ VerifiedRemember
    \/ StoreUnverified \/ Clear

VerifiedSpec == VerifiedInit /\ [][VerifiedNext]_<<stored, proposal>>
====
