------------------------------ MODULE MCPaper ------------------------------
(* An instance of Paper small enough for TLC: a byte of three values makes   *)
(* both bytes of a length count, and six the first text too long for them.   *)
EXTENDS Paper

CONSTANTS none, a, test

Logo(width, height, size) == [width |-> width, height |-> height, size |-> size]
Slip(logo, qr, cut) ==
    [logo |-> logo, qr |-> qr, controls |-> FALSE, openDrawer |-> cut, cutPaper |-> cut]

\* A logo whose height needs the second byte, one with a byte too many, and one
\* that is not a whole number of bytes wide; a text too long; control bytes.
MCTickets ==
    {Slip(none, 0, FALSE), Slip(Logo(2, 4, 4), 0, TRUE), Slip(Logo(2, 1, 2), 0, FALSE),
     Slip(Logo(3, 1, 1), 1, TRUE), Slip(none, 6, FALSE),
     [Slip(none, 0, TRUE) EXCEPT !.controls = TRUE]}

=============================================================================
