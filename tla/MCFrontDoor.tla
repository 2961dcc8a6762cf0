---------------------------- MODULE MCFrontDoor ----------------------------
(* Instances of FrontDoor small enough for TLC. *)
EXTENDS FrontDoor, TLC

CONSTANTS none, any, pos, posUpper, shop, dev, r1, r2, r3, test, ticket

MCOrigins == {any, pos, posUpper, shop, dev}
MCLower == [o \in MCOrigins |-> IF o = posUpper THEN pos ELSE o]
MCMandatory == <<pos, dev>>

\* Nothing, a shop of one's own, everybody, a mandatory origin in capitals.
MCConfiguredLists == {<<>>, <<shop>>, <<any>>, <<posUpper, shop>>}

\* The goroutines are interchangeable: no property tells them apart.
RequestSymmetry == Permutations(Requests)

=============================================================================
