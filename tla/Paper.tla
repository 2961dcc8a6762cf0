------------------------------- MODULE Paper -------------------------------
(***************************************************************************)
(* From a ticket to paper: the ESC/POS encoding (escpos.go, ticket_logo.go *)
(* and sendTicketPrint of printer_windows.go), the transport chosen anew   *)
(* at every attempt, the retries of processTicket, and the printer, which  *)
(* reads one document after another with nothing to tell it where one      *)
(* ends.  A byte is told apart only as text, as the first byte of a        *)
(* command, or as what a command takes after its first byte: its operands, *)
(* and the dots or the text it draws.                                      *)
(***************************************************************************)
EXTENDS Integers, Sequences, FiniteSets

CONSTANTS
    Queued,           \* jobs of the ticket worker, which prints one at a time
    Tests,            \* test prints, from either side, one attempt each
    Tickets,          \* [logo, qr, controls, openDrawer, cutPaper]; qr is a length,
                      \* and controls: do its lines hold control bytes?
    NoLogo,           \* a logo that is missing or has no data
    MaxRetries,       \* attempts of processTicket
    Byte,             \* values of a byte (256)
    DotsPerByte,      \* 8
    LogoMaxWidth,     \* ticketLogoMaxWidth (832)
    LogoMaxHeight     \* ticketLogoMaxHeight (512)

Jobs == Queued \union Tests

Logos == [width : Int, height : Int, size : Nat]

ASSUME PaperAssumption ==
    /\ Queued \intersect Tests = {}
    /\ \A t \in Tickets :
        /\ t.logo = NoLogo \/ t.logo \in Logos
        /\ t.qr \in Nat /\ t.controls \in BOOLEAN
        /\ t.openDrawer \in BOOLEAN /\ t.cutPaper \in BOOLEAN
    /\ MaxRetries \in Nat \ {0}
    /\ Byte \in Nat \ {0, 1} /\ DotsPerByte \in Nat \ {0}
    /\ LogoMaxWidth \in Nat /\ LogoMaxHeight \in Nat
    /\ LogoMaxWidth \div DotsPerByte < Byte * Byte /\ LogoMaxHeight < Byte * Byte

VARIABLES
    job,         \* where each job is, what it prints and which attempt it is at
    line,        \* per transport: what it has accepted and the printer has not read
    printer,     \* [need: bytes the last command will take, damaged: is this document?]
    handed,      \* history: whole copies of each job a transport has accepted
    readable,    \* history: copies of each job that came out as they were meant
    disturbed    \* history: was a document read that may put it out of step?

vars == <<job, line, printer, handed, readable, disturbed>>

Transports == {"tcp", "spooler"}

-----------------------------------------------------------------------------
(* The encoding. *)

Text == [kind |-> "text", takes |-> 0]
Taking(n) == [kind |-> "command", takes |-> n]
Data(n) == [k \in 1..n |-> [kind |-> "data", takes |-> 0]]

\* A command: its first byte, and `length` bytes for it to take.
Order(takes, length) == <<Taking(takes)>> \o Data(length)

\* ESC @, ESC a, ESC p, GS V and the GS ( k that store nothing: however many the
\* operands are, they count as one byte, that a cut may leave out.
FixedOrder == Order(1, 1)

\* What two bytes, low and high, say of n.
InTwoBytes(n) == (n % Byte) + Byte * ((n \div Byte) % Byte)

\* escposLogo checks everything before it sends anything.
LogoFits(logo) ==
    /\ logo.width > 0 /\ logo.height > 0 /\ logo.width % DotsPerByte = 0
    /\ logo.width =< LogoMaxWidth /\ logo.height =< LogoMaxHeight
    /\ logo.size = (logo.width \div DotsPerByte) * logo.height

\* A logo that does not fit is left out, and the ticket goes on without it.
EscposLogo(logo) ==
    IF logo = NoLogo THEN <<>>
    ELSE IF ~LogoFits(logo) THEN <<>>
    ELSE FixedOrder
         \o Order(1 + InTwoBytes(logo.width \div DotsPerByte) * InTwoBytes(logo.height),
                  1 + logo.size)
         \o <<Text>> \o FixedOrder

StoreLen_NoHeader(qr) == qr
StoreLen(qr) == qr + 3

\* The command that stores the text to draw, between commands of fixed length:
\* the three before it stand as one.  Its operands, like those of the image, are
\* one byte, and what it stores begins with three.
EscposQR(qr) ==
    FixedOrder \o Order(1 + InTwoBytes(StoreLen(qr)), 1 + 3 + qr) \o FixedOrder

\* The lines go out as they came: a control byte in them is a command of the
\* caller's, that takes what follows it.
Words(t) == IF t.controls THEN <<Taking(1)>> ELSE <<Text>>

\* sendTicketPrint
Ticket(t) ==
    FixedOrder \o EscposLogo(t.logo)
    \o FixedOrder \o Words(t) \o FixedOrder \o Words(t)
    \o (IF t.qr = 0 THEN <<>> ELSE FixedOrder \o EscposQR(t.qr) \o FixedOrder \o <<Text>>)
    \o (IF t.openDrawer THEN FixedOrder ELSE <<>>)
    \o (IF t.cutPaper THEN FixedOrder ELSE <<>>)

\* sendTestPrint
TestPage == FixedOrder \o <<Text>> \o FixedOrder

Document(j) == IF j \in Tests THEN TestPage ELSE Ticket(job[j].ticket)

\* A text so long that its length does not fit in the two bytes it is sent in, or
\* control bytes among the lines.
Unruly(j) ==
    j \in Queued /\ (StoreLen(job[j].ticket.qr) >= Byte * Byte \/ job[j].ticket.controls)

-----------------------------------------------------------------------------
(* Jobs and transports. *)

TypeOK ==
    /\ job \in [Jobs -> [pc : {"new", "sending", "printed", "failed"},
                         ticket : Tickets, attempt : 1..MaxRetries]]
    /\ \A lane \in Transports : \A k \in 1..Len(line[lane]) :
        line[lane][k] \in [job : Jobs, sent : Nat \ {0}]
    /\ printer \in [need : Nat, damaged : BOOLEAN]
    /\ handed \in [Jobs -> Nat] /\ readable \in [Jobs -> Nat]
    /\ disturbed \in BOOLEAN

Init ==
    /\ job \in [Jobs -> {[pc |-> "new", ticket |-> t, attempt |-> 1] : t \in Tickets}]
    /\ \A j, k \in Tests : job[j].ticket = job[k].ticket
    /\ line = [lane \in Transports |-> <<>>]
    /\ printer = [need |-> 0, damaged |-> FALSE]
    /\ handed = [j \in Jobs |-> 0] /\ readable = [j \in Jobs |-> 0]
    /\ disturbed = FALSE

\* The worker takes the next ticket when it is done with the last; a test print
\* has a goroutine of its own.
Begin(j) ==
    /\ job[j].pc = "new"
    /\ j \in Queued => \A k \in Queued : job[k].pc # "sending"
    /\ job' = [job EXCEPT ![j].pc = "sending"]
    /\ UNCHANGED <<line, printer, handed, readable, disturbed>>

AllAccepted_AnyWrite(sent, length) == sent > 0
AllAccepted(sent, length) == sent = length

\* An attempt is over: success, one more, or the end of a failed job.
Attempted(j, success) ==
    job' = IF success THEN [job EXCEPT ![j].pc = "printed"]
           ELSE IF j \in Queued /\ job[j].attempt < MaxRetries
                THEN [job EXCEPT ![j].attempt = @ + 1]
           ELSE [job EXCEPT ![j].pc = "failed"]

\* dispatchRaw: TCP or the spooler, as the list of printers tells it now, a list
\* that cannot be had meaning the spooler.  Either accepts all the bytes, none,
\* or some; what it has accepted it goes on to print: nothing takes it back.
DispatchRaw(j) ==
    /\ job[j].pc = "sending"
    /\ LET length == Len(Document(j))
       IN  \E lane \in Transports, sent \in 0..length :
            /\ line' = IF sent = 0 THEN line
                       ELSE [line EXCEPT ![lane] = Append(@, [job |-> j, sent |-> sent])]
            /\ handed' = IF sent < length THEN handed ELSE [handed EXCEPT ![j] = @ + 1]
            /\ Attempted(j, AllAccepted(sent, length))
    /\ UNCHANGED <<printer, readable, disturbed>>

-----------------------------------------------------------------------------
(* The printer. *)

ReadByte(state, byte) ==
    IF state.need > 0
    THEN [need |-> state.need - 1, damaged |-> state.damaged \/ byte.kind # "data"]
    ELSE [need |-> byte.takes, damaged |-> state.damaged \/ byte.kind = "data"]

\* The printer when it has read the first n of these bytes.
AfterReading(state, bytes, n) ==
    LET after[k \in 0..n] == IF k = 0 THEN state ELSE ReadByte(after[k - 1], bytes[k])
    IN  after[n]

\* It serves one connection or one spooled document at a time.
PrintNext(lane) ==
    /\ line[lane] # <<>>
    /\ LET next  == Head(line[lane])
           bytes == Document(next.job)
           end   == AfterReading([printer EXCEPT !.damaged = FALSE], bytes, next.sent)
           whole == next.sent = Len(bytes)
       IN  /\ printer' = end
           /\ readable' = [readable EXCEPT ![next.job] =
                              @ + (IF whole /\ end.need = 0 /\ ~end.damaged THEN 1 ELSE 0)]
           /\ disturbed' = (disturbed \/ Unruly(next.job) \/ (~whole /\ end.need > 0))
    /\ line' = [line EXCEPT ![lane] = Tail(@)]
    /\ UNCHANGED <<job, handed>>

\* Every job has its end, and the printer has read everything.
AtRest ==
    /\ \A j \in Jobs : job[j].pc \in {"printed", "failed"}
    /\ \A lane \in Transports : line[lane] = <<>>
    /\ UNCHANGED vars

Next ==
    \/ \E j \in Jobs : Begin(j) \/ DispatchRaw(j)
    \/ \E lane \in Transports : PrintNext(lane)
    \/ AtRest

Safety == Init /\ [][Next]_vars

-----------------------------------------------------------------------------
(* Properties. *)

Waiting(j) ==
    \E lane \in Transports : \E k \in 1..Len(line[lane]) : line[lane][k].job = j

\* However often a job was tried and over whichever transport, "printed" means
\* that one whole copy of it was accepted and "failed" that none was: a retry
\* never follows a whole copy, and what was accepted in part is not called
\* printed (server.go:563-585, printer_windows.go:138-155, 333-347).
StatusMatchesCopies ==
    \A j \in Jobs :
        handed[j] = (IF job[j].pc = "printed" THEN 1 ELSE 0)

\* A job called printed comes out once, as it was meant, whatever logo or QR
\* code it carries: only three things put the printer out of step with the
\* stream, an attempt cut off inside a command, an image or a code; a code whose
\* length two bytes cannot say; and control bytes among a ticket's own lines.  An
\* attempt cut off anywhere else is harmless to the documents after it
\* (escpos.go:5-9, ticket_logo.go:41-73, printer_windows.go:149-152, 223-280).
PrintedIsReadable ==
    ~disturbed =>
        /\ \A j \in Jobs : job[j].pc = "printed" /\ ~Waiting(j) => readable[j] = 1
        /\ printer.need = 0

=============================================================================
