--------------------------- MODULE MCTicketQueue ---------------------------
(* Instances of TicketQueue small enough for TLC. *)
EXTENDS TicketQueue, TLC

CONSTANTS none, a, aPadded, r, t, h1, h2

MCJobIds == {none, a, aPadded, r, t}

MCTrimSpace == [i \in MCJobIds |-> IF i = aPadded THEN a ELSE i]

\* The handlers are interchangeable: no property tells them apart.
HandlerSymmetry == Permutations(Handlers)

=============================================================================
