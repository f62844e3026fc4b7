---- MODULE MCStation ----
(***************************************************************************)
(* Values for TLC: two slots, three networks of which one is out of reach. *)
(***************************************************************************)
EXTENDS StationController

CONSTANTS n1, n2, n3

Set(a, b, first, won) ==
    [slot |-> [s \in Slots |-> IF s = 0 THEN a ELSE b], preferred |-> first, last |-> won]

Form(a, b) == [s \in Slots |-> IF s = 0 THEN a ELSE b]

\* Nothing stored, a primary alone, a pair that last used its fallback, and a
\* set no controller should run with.
MCInitialSets ==
    { EmptySet, Set(n1, Disabled, 0, NoSlot), Set(n3, n1, 1, 1),
      Set(Disabled, n1, 0, NoSlot) }

\* A primary alone, a pair whose primary is out of reach, an invalid set.
MCProposals ==
    { Set(n2, Disabled, 0, NoSlot), Set(n3, n2, 0, NoSlot), Set(n1, n2, NoSlot, NoSlot) }

\* Replace the primary; switch the fallback off.
MCForms == { Form(n2, Keep), Form(Keep, Disabled), Form(n3, Keep) }

\* Fewer of them, for longer behaviours.
MCFewSets == { EmptySet, Set(n3, n1, 1, 1) }
MCFewProposals == { Set(n3, n2, 0, NoSlot), Set(n1, n2, NoSlot, NoSlot) }
MCFewForms == { Form(n2, Keep), Form(n3, Disabled) }

\* The defaults of the library, with both time-outs switched on.
TimedDefaults ==
    [ disableConfigPortal |-> TRUE, enableConfigPortal |-> TRUE,
      breakAfterConfig |-> FALSE, connectOnSave |-> TRUE, connectTimeout |-> TRUE,
      portalTimeout |-> TRUE, allowExit |-> TRUE ]

MCOptions ==
    { TimedDefaults, [TimedDefaults EXCEPT !.disableConfigPortal = FALSE],
      [TimedDefaults EXCEPT !.enableConfigPortal = FALSE] }

MCTimed == { TimedDefaults }

MCNetworks == {n1, n2, n3}
MCReachable == {n1, n2}
====
