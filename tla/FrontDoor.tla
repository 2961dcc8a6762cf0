----------------------------- MODULE FrontDoor -----------------------------
(***************************************************************************)
(* What every HTTP request passes before its handler runs, withLogging of  *)
(* internal/agent/server.go: the origin check against the list that        *)
(* main.go merges at start-up, the fixed-window rate limit, the pairing    *)
(* token and the signature.  Only the limiter keeps state.  It reads the   *)
(* clock before it takes rateMu, so a request may be counted long after    *)
(* the second it was stamped in.                                           *)
(***************************************************************************)
EXTENDS Integers, Sequences, FiniteSets

CONSTANTS
    Requests,         \* goroutines of net/http that are in withLogging
    Keys,             \* remote address, method and path of a write, as one
    TicketKeys,       \* those whose path is /print/ticket
    Origins,          \* spellings of origins
    NoOrigin,         \* the request has no Origin header
    Anyone,           \* the origin list's "*"
    Lower,            \* strings.ToLower on Origins, as a function
    Mandatory,        \* the sequence mandatoryOrigins
    ConfiguredLists,  \* values of PRINT_AGENT_ALLOWED_ORIGINS, split and trimmed
    RateLimitPerMin,  \* the configured limit
    PairingToken,     \* is a pairing token configured?
    SigningSecret,    \* is a signing secret configured?
    WindowSecs,       \* length of a window (60 in the code)
    MaxClock,         \* bound: the clock, in seconds
    MaxWrites         \* bound: requests

ASSUME OriginAssumption ==
    /\ NoOrigin \notin Origins /\ Anyone \in Origins
    /\ Lower \in [Origins -> Origins] /\ Lower[Anyone] = Anyone
    /\ Mandatory \in Seq(Origins) /\ ConfiguredLists \subseteq Seq(Origins)

\* mandatoryOrigins names each of its origins in one spelling.
ASSUME SpellingAssumption ==
    \A k, l \in 1..Len(Mandatory) :
        Lower[Mandatory[k]] = Lower[Mandatory[l]] => Mandatory[k] = Mandatory[l]

ASSUME LimitAssumption ==
    /\ Keys # {} /\ TicketKeys \subseteq Keys
    /\ PairingToken \in BOOLEAN /\ SigningSecret \in BOOLEAN
    /\ RateLimitPerMin \in Int
    /\ WindowSecs \in Nat \ {0}
    /\ MaxClock \in Nat /\ MaxWrites \in Nat

\* normalizeServerConfig: the limit cannot be switched off.
Limit == IF RateLimitPerMin =< 0 THEN 120 ELSE RateLimitPerMin

VARIABLES
    configured,     \* the extra origins of this process
    clock,
    req,            \* where each request is
    rate,           \* s.rate; window NoWindow where the map has no entry
    writes,         \* bound: requests begun
    admitted,       \* history: requests the limiter let pass, by key and window
    opened,         \* history: times a counter was started, by key and window
    newest,         \* history: the newest window counted, by key
    late            \* history: requests counted after one of a newer window

history == <<admitted, opened, newest, late>>
vars == <<configured, clock, req, rate, writes, history>>

NoWindow == -1

WindowStart(now) == now - (now % WindowSecs)
Windows == {WindowStart(now) : now \in 0..MaxClock}

IdleRequest == [pc |-> "idle", key |-> CHOOSE k \in Keys : TRUE, window |-> NoWindow]

TypeOK ==
    /\ configured \in ConfiguredLists
    /\ clock \in 0..MaxClock /\ writes \in 0..MaxWrites
    /\ req \in [Requests -> [pc : {"idle", "stamped", "limited", "admitted", "handled",
                                   "unauthorized"},
                             key : Keys, window : Windows \union {NoWindow}]]
    /\ \A r \in Requests : req[r].pc = "stamped" => req[r].window \in Windows
    /\ rate \in [Keys -> [window : Windows \union {NoWindow}, count : Nat]]
    /\ admitted \in [Keys -> [Windows -> Nat]]
    /\ opened \in [Keys -> [Windows -> Nat]]
    /\ newest \in [Keys -> Windows \union {NoWindow}]
    /\ late \in [Keys -> Nat]

Init ==
    /\ configured \in ConfiguredLists
    /\ clock = 0 /\ writes = 0
    /\ req = [r \in Requests |-> IdleRequest]
    /\ rate = [k \in Keys |-> [window |-> NoWindow, count |-> 0]]
    /\ admitted = [k \in Keys |-> [w \in Windows |-> 0]]
    /\ opened = [k \in Keys |-> [w \in Windows |-> 0]]
    /\ newest = [k \in Keys |-> NoWindow]
    /\ late = [k \in Keys |-> 0]

-----------------------------------------------------------------------------
(* The origin list: the first of several spellings is the one that stays, and *)
(* a request must match it letter by letter.                                  *)

\* withMandatoryOrigins
Merged(extra) ==
    LET list == extra \o Mandatory
    IN  {list[k] : k \in {n \in 1..Len(list) :
                             \A m \in 1..(n - 1) : Lower[list[m]] # Lower[list[n]]}}

\* isOriginAllowed
OriginAllowed(o) ==
    o = NoOrigin \/ o \in Merged(configured) \/ Anyone \in Merged(configured)

-----------------------------------------------------------------------------
(* A request. *)

\* withLogging up to rateMu: the origin check and the reading of the clock.  A
\* preflight and a read are answered without the limiter and change nothing.
Arrive(r) ==
    /\ req[r].pc = "idle"
    /\ writes < MaxWrites /\ writes' = writes + 1
    /\ \E k \in Keys, o \in Origins \union {NoOrigin} :
        \/ ~OriginAllowed(o) /\ UNCHANGED req                    \* 403
        \/ /\ OriginAllowed(o)
           /\ req' = [req EXCEPT ![r] = [pc |-> "stamped", key |-> k,
                                         window |-> WindowStart(clock)]]
    /\ UNCHANGED <<configured, clock, rate, history>>

\* The section under rateMu starts a counter ...
Open(k, w) ==
    /\ rate[k].window # w
    /\ rate' = [rate EXCEPT ![k] = [window |-> w, count |-> 1]]
    /\ opened' = [opened EXCEPT ![k][w] = @ + 1]

Increment_UpToLimit(k, w) ==
    /\ rate[k].window = w /\ rate[k].count =< Limit
    /\ rate' = [rate EXCEPT ![k].count = @ + 1]
    /\ UNCHANGED opened

\* ... or adds to the one there is ...
Increment(k, w) ==
    /\ rate[k].window = w /\ rate[k].count < Limit
    /\ rate' = [rate EXCEPT ![k].count = @ + 1]
    /\ UNCHANGED opened

\* ... and the request goes on.
Admit(r) ==
    /\ req[r].pc = "stamped"
    /\ LET k == req[r].key
           w == req[r].window
       IN  /\ Open(k, w) \/ Increment(k, w)
           /\ admitted' = [admitted EXCEPT ![k][w] = @ + 1]
           /\ newest' = [newest EXCEPT ![k] = IF w > @ THEN w ELSE @]
           /\ late' = [late EXCEPT ![k] = IF w < newest[k] THEN @ + 1 ELSE @]
    /\ req' = [req EXCEPT ![r].pc = "admitted"]
    /\ UNCHANGED <<configured, clock, writes>>

LimitReached_AnyWindow(k, w) == rate[k].count >= Limit
LimitReached(k, w) == rate[k].window = w /\ rate[k].count >= Limit

\* 429, with Retry-After.
Refuse(r) ==
    /\ req[r].pc = "stamped" /\ LimitReached(req[r].key, req[r].window)
    /\ req' = [req EXCEPT ![r].pc = "limited"]
    /\ UNCHANGED <<configured, clock, rate, writes, history>>

\* requirePairingToken, and for tickets requireSignedRequest.
Authorized(k, token, fresh, mac) ==
    (PairingToken => token) /\ (SigningSecret /\ k \in TicketKeys => fresh /\ mac)

Guard(r) ==
    /\ req[r].pc = "admitted"
    /\ \E token, fresh, mac \in BOOLEAN :
        req' = [req EXCEPT ![r].pc = IF Authorized(req[r].key, token, fresh, mac)
                                     THEN "handled" ELSE "unauthorized"]
    /\ UNCHANGED <<configured, clock, rate, writes, history>>

Answered(r) ==
    /\ req[r].pc \in {"limited", "handled", "unauthorized"}
    /\ req' = [req EXCEPT ![r] = IdleRequest]
    /\ UNCHANGED <<configured, clock, rate, writes, history>>

Tick ==
    /\ clock < MaxClock
    /\ clock' = clock + 1
    /\ UNCHANGED <<configured, req, rate, writes, history>>

\* The bounds are used up and no request is left.
Exhausted ==
    /\ clock = MaxClock /\ writes = MaxWrites
    /\ \A r \in Requests : req[r].pc = "idle"
    /\ UNCHANGED vars

Next ==
    \/ \E r \in Requests : Arrive(r) \/ Admit(r) \/ Refuse(r) \/ Guard(r) \/ Answered(r)
    \/ Tick
    \/ Exhausted

Safety == Init /\ [][Next]_vars

-----------------------------------------------------------------------------
(* Properties. *)

\* A window admits more than the limit only because requests of an older
\* window were counted after it had begun, and each of them buys at most one
\* more limit's worth: requests that reach rateMu in order never pass it
\* (server.go 854-874).
OverrunOnlyByLatecomers ==
    \A k \in Keys, w \in Windows : admitted[k][w] =< Limit * (1 + late[k])

\* Nobody is refused on account of another key, or of another window: when a
\* write is answered 429, its own key has had the limit in its own window
\* (server.go 813-816, 861-869).
RefusalDeserved ==
    [][\A r \in Requests :
           req[r].pc = "stamped" /\ req'[r].pc = "limited"
               => admitted[req[r].key][req[r].window] >= Limit]_vars

\* "Extra CORS origins (mandatory origins are always included)" (README.md:44):
\* whatever extra origins are configured, a page of a mandatory origin gets past
\* the origin check (main.go 208-232, server.go 897-911).
MandatoryIncluded ==
    \A k \in 1..Len(Mandatory) : OriginAllowed(Mandatory[k])

=============================================================================
