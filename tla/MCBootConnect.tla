---- MODULE MCBootConnect ----
(***************************************************************************)
(* Values for TLC: the defaults, and each setting that matters to a branch *)
(* away from its default.                                                  *)
(***************************************************************************)
EXTENDS BootConnect

Defaults ==
    [ preloaded |-> FALSE, hostname |-> FALSE, clean |-> FALSE,
      enablePortal |-> TRUE, apPassword |-> TRUE, retries |-> 2 ]

MCSettings ==
    { Defaults,
      [Defaults EXCEPT !.preloaded = TRUE, !.hostname = TRUE, !.retries = 3],
      [Defaults EXCEPT !.clean = TRUE, !.retries = 1],
      [Defaults EXCEPT !.enablePortal = FALSE],
      [Defaults EXCEPT !.preloaded = TRUE, !.apPassword = FALSE] }
====
