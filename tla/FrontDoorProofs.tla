-------------------------- MODULE FrontDoorProofs --------------------------
(***************************************************************************)
(* Theorems about the rate limiter of FrontDoor, for every limit, length   *)
(* of window, set of keys and number of requests, and about its origin     *)
(* list, for every list that is configured.                                *)
(***************************************************************************)
EXTENDS FrontDoor, InductionOverSets, TLAPS

-----------------------------------------------------------------------------
(* Constants. *)

LEMMA LimitPositive == Limit \in Nat /\ Limit >= 1
  BY LimitAssumption DEF Limit

\* A window starts at a second that there was.
LEMMA WindowsAreTimes == Windows \subseteq Nat
<1> SUFFICES ASSUME NEW now \in 0..MaxClock PROVE WindowStart(now) \in Nat
  BY DEF Windows
<1>1. now \in Nat /\ WindowSecs \in Nat /\ WindowSecs > 0
  BY LimitAssumption
<1>2. now % WindowSecs =< now /\ now % WindowSecs \in Nat
  BY <1>1
<1> QED
  BY <1>1, <1>2 DEF WindowStart

LEMMA NoWindowIsNone == NoWindow \notin Windows /\ Windows \union {NoWindow} \subseteq Int
  BY WindowsAreTimes DEF NoWindow

\* One more limit's worth; the prover does not multiply unknowns.
LEMMA LimitDistributes ==
    ASSUME NEW n \in Nat
    PROVE  Limit * (n + 1) = Limit * n + Limit /\ Limit * n \in Nat
  BY LimitPositive

LEMMA LimitMonotonic ==
    ASSUME NEW m \in Nat, NEW n \in Nat, m =< n
    PROVE  Limit * m =< Limit * n
<1>1. PICK d \in Nat : n = m + d
  <2>1. n - m \in Nat /\ n = m + (n - m)
    OBVIOUS
  <2> QED
    BY <2>1
<1>2. Limit * (m + d) = Limit * m + Limit * d /\ Limit * d \in Nat /\ Limit * m \in Nat
  BY LimitPositive
<1> QED
  BY <1>1, <1>2

-----------------------------------------------------------------------------
(* Type correctness. *)

LEMMA InitTypeOK == Init => TypeOK
<1> SUFFICES ASSUME Init PROVE TypeOK
  OBVIOUS
<1>1. IdleRequest \in [pc : {"idle", "stamped", "limited", "admitted", "handled",
                              "unauthorized"},
                       key : Keys, window : Windows \union {NoWindow}]
  BY LimitAssumption DEF IdleRequest
<1>2. IdleRequest.pc = "idle"
  BY DEF IdleRequest
<1> QED
  BY <1>1, <1>2, LimitAssumption DEF Init, TypeOK

\* What the limiter does to its counters, in one place.
LEMMA AdmitCounters ==
    ASSUME TypeOK, NEW r \in Requests, Admit(r)
    PROVE  \E k \in Keys, w \in Windows :
              /\ k = req[r].key /\ w = req[r].window
              /\ Open(k, w) \/ Increment(k, w)
              /\ admitted' = [admitted EXCEPT ![k][w] = @ + 1]
              /\ newest' = [newest EXCEPT ![k] = IF w > @ THEN w ELSE @]
              /\ late' = [late EXCEPT ![k] = IF w < newest[k] THEN @ + 1 ELSE @]
<1>1. req[r].key \in Keys /\ req[r].window \in Windows
  BY DEF Admit, TypeOK
<1> QED
  BY <1>1 DEF Admit

RequestTyped(q) ==
    /\ q \in [pc : {"idle", "stamped", "limited", "admitted", "handled", "unauthorized"},
              key : Keys, window : Windows \union {NoWindow}]
    /\ q.pc = "stamped" => q.window \in Windows

\* A step that changes one request keeps the others typed.
LEMMA RequestReplaced ==
    ASSUME TypeOK, NEW r \in Requests, NEW q, RequestTyped(q), req' = [req EXCEPT ![r] = q]
    PROVE  /\ req' \in [Requests -> [pc : {"idle", "stamped", "limited", "admitted",
                                           "handled", "unauthorized"},
                                     key : Keys, window : Windows \union {NoWindow}]]
           /\ \A p \in Requests : req'[p].pc = "stamped" => req'[p].window \in Windows
  BY DEF TypeOK, RequestTyped

LEMMA StepTypeOK == TypeOK /\ [Next]_vars => TypeOK'
<1> SUFFICES ASSUME TypeOK, [Next]_vars PROVE TypeOK'
  OBVIOUS
<1> USE DEF history
<1>1. ASSUME NEW r \in Requests, Arrive(r) PROVE TypeOK'
  <2>1. WindowStart(clock) \in Windows
    BY DEF TypeOK, Windows
  <2>2. writes' \in 0..MaxWrites
    BY <1>1, LimitAssumption DEF Arrive, TypeOK
  <2>3. CASE UNCHANGED req
    BY <1>1, <2>2, <2>3 DEF Arrive, TypeOK
  <2>4. CASE \E k \in Keys : req' = [req EXCEPT ![r] = [pc |-> "stamped", key |-> k,
                                                      window |-> WindowStart(clock)]]
    BY <1>1, <2>1, <2>2, <2>4 DEF Arrive, TypeOK
  <2> QED
    BY <1>1, <2>3, <2>4 DEF Arrive
<1>2. ASSUME NEW r \in Requests, Admit(r) PROVE TypeOK'
  <2>1. PICK k \in Keys, w \in Windows :
            /\ Open(k, w) \/ Increment(k, w)
            /\ admitted' = [admitted EXCEPT ![k][w] = @ + 1]
            /\ newest' = [newest EXCEPT ![k] = IF w > @ THEN w ELSE @]
            /\ late' = [late EXCEPT ![k] = IF w < newest[k] THEN @ + 1 ELSE @]
    BY <1>2, AdmitCounters
  <2>2. /\ rate' \in [Keys -> [window : Windows \union {NoWindow}, count : Nat]]
        /\ opened' \in [Keys -> [Windows -> Nat]]
    <3>1. CASE Open(k, w)
      BY <3>1 DEF Open, TypeOK
    <3>2. CASE Increment(k, w)
      <4>1. rate[k] \in [window : Windows \union {NoWindow}, count : Nat]
        BY DEF TypeOK
      <4>2. [rate[k] EXCEPT !.count = @ + 1] \in [window : Windows \union {NoWindow}, count : Nat]
        BY <4>1
      <4>3. rate' = [rate EXCEPT ![k] = [rate[k] EXCEPT !.count = @ + 1]]
        BY <3>2 DEF Increment
      <4> QED
        BY <3>2, <4>2, <4>3 DEF Increment, TypeOK
    <3> QED
      BY <2>1, <3>1, <3>2
  <2>3. /\ admitted' \in [Keys -> [Windows -> Nat]]
        /\ newest' \in [Keys -> Windows \union {NoWindow}]
        /\ late' \in [Keys -> Nat]
    BY <2>1 DEF TypeOK
  <2>4. /\ UNCHANGED <<configured, clock, writes>>
        /\ req' = [req EXCEPT ![r] = [req[r] EXCEPT !.pc = "admitted"]]
    BY <1>2 DEF Admit
  <2>5. RequestTyped([req[r] EXCEPT !.pc = "admitted"])
    BY DEF TypeOK, RequestTyped
  <2> QED
    BY <2>2, <2>3, <2>4, <2>5, RequestReplaced DEF TypeOK
<1>3. ASSUME NEW r \in Requests, Refuse(r) \/ Guard(r) \/ Answered(r) PROVE TypeOK'
  <2>1. UNCHANGED <<configured, clock, rate, writes, history>>
    BY <1>3 DEF Refuse, Guard, Answered
  <2>2. \E q : RequestTyped(q) /\ req' = [req EXCEPT ![r] = q]
    <3>1. CASE Refuse(r) \/ Guard(r)
      <4>1. PICK pc \in {"limited", "handled", "unauthorized"} :
                req' = [req EXCEPT ![r] = [req[r] EXCEPT !.pc = pc]]
        BY <3>1 DEF Refuse, Guard
      <4>2. RequestTyped([req[r] EXCEPT !.pc = pc])
        BY DEF TypeOK, RequestTyped
      <4> QED
        BY <4>1, <4>2
    <3>2. CASE Answered(r)
      BY <3>2, LimitAssumption DEF Answered, IdleRequest, RequestTyped
    <3> QED
      BY <1>3, <3>1, <3>2
  <2> QED
    BY <2>1, <2>2, RequestReplaced DEF TypeOK
<1>4. CASE Tick
  BY <1>4, LimitAssumption DEF Tick, TypeOK
<1>5. CASE Exhausted \/ UNCHANGED vars
  BY <1>5 DEF Exhausted, vars, TypeOK
<1> QED
  BY <1>1, <1>2, <1>3, <1>4, <1>5 DEF Next

\* Every reachable state is well typed: requests, counters and the origin list
\* alike (server.go 825-874).
THEOREM TypeCorrect == Safety => []TypeOK
<1>1. Init => TypeOK
  BY InitTypeOK
<1>2. TypeOK /\ [Next]_vars => TypeOK'
  BY StepTypeOK
<1> QED
  BY <1>1, <1>2, PTL DEF Safety

-----------------------------------------------------------------------------
(* The inductive invariant.  What a window admits is bounded by how often   *)
(* its counter was started, and a counter is started again only after a     *)
(* request of an older window has taken its place.                          *)

\* The counter there is belongs to no window newer than the newest.
Placed(k) ==
    /\ rate[k].window =< newest[k]
    /\ \A w \in Windows : w > newest[k] => opened[k][w] = 0

\* How often the counter of each window was started.
Reopened(k) ==
    /\ \A w \in Windows : opened[k][w] =< 1 + late[k]
    /\ newest[k] \in Windows /\ rate[k].window # newest[k]
          => opened[k][newest[k]] =< late[k]

\* What a window has admitted: a limit's worth for each time its counter was
\* started, the last time no more than the counter says, and no less.
Filled(k) ==
    /\ \A w \in Windows :
          admitted[k][w] =< Limit * opened[k][w]
    /\ rate[k].window \in Windows =>
          LET w == rate[k].window
          IN  /\ opened[k][w] >= 1
              /\ admitted[k][w] =< Limit * (opened[k][w] - 1) + rate[k].count
              /\ rate[k].count =< admitted[k][w]
              /\ rate[k].count =< Limit

Counters(k) == Placed(k) /\ Reopened(k) /\ Filled(k)

IInv == TypeOK /\ \A k \in Keys : Counters(k)

LEMMA InitIInv == Init => IInv
<1> SUFFICES ASSUME Init, NEW k \in Keys PROVE Counters(k)
  BY InitTypeOK DEF IInv
<1>1. /\ rate[k].window = NoWindow /\ newest[k] = NoWindow /\ late[k] = 0
      /\ \A w \in Windows : opened[k][w] = 0 /\ admitted[k][w] = 0
  BY DEF Init
<1>2. Placed(k) /\ Reopened(k)
  BY <1>1, NoWindowIsNone DEF Placed, Reopened, NoWindow
<1>3. Filled(k)
  BY <1>1, NoWindowIsNone, LimitPositive DEF Filled
<1> QED
  BY <1>2, <1>3 DEF Counters

\* The counters of a key the limiter is not asked about.
LEMMA OthersKept ==
    ASSUME IInv, NEW k \in Keys,
           rate'[k] = rate[k], opened'[k] = opened[k], admitted'[k] = admitted[k],
           newest'[k] = newest[k], late'[k] = late[k]
    PROVE  Counters(k)'
  BY DEF IInv, Counters, Placed, Reopened, Filled

LEMMA OpenKeeps ==
    ASSUME IInv, TypeOK', NEW k \in Keys, NEW w \in Windows,
           Open(k, w),
           admitted' = [admitted EXCEPT ![k][w] = @ + 1],
           newest' = [newest EXCEPT ![k] = IF w > @ THEN w ELSE @],
           late' = [late EXCEPT ![k] = IF w < newest[k] THEN @ + 1 ELSE @]
    PROVE  Counters(k)'
<1>0. /\ TypeOK /\ Placed(k) /\ Reopened(k) /\ Filled(k)
  BY DEF IInv, Counters
<1>1. /\ w \in Nat /\ newest[k] \in Int /\ newest'[k] \in Int /\ late[k] \in Nat
      /\ rate[k].window \in Int /\ late'[k] \in Nat /\ opened[k][w] \in Nat
      /\ admitted[k][w] \in Nat /\ Windows \subseteq Nat
  BY <1>0, NoWindowIsNone, WindowsAreTimes DEF TypeOK
<1>2. /\ rate[k].window # w /\ rate'[k] = [window |-> w, count |-> 1]
      /\ opened'[k] = [opened[k] EXCEPT ![w] = @ + 1]
      /\ admitted'[k] = [admitted[k] EXCEPT ![w] = @ + 1]
      /\ newest'[k] = IF w > newest[k] THEN w ELSE newest[k]
      /\ late'[k] = IF w < newest[k] THEN late[k] + 1 ELSE late[k]
  BY <1>0 DEF Open, TypeOK
<1>3. /\ opened'[k][w] = opened[k][w] + 1 /\ admitted'[k][w] = admitted[k][w] + 1
      /\ \A v \in Windows \ {w} : opened'[k][v] = opened[k][v] /\ admitted'[k][v] = admitted[k][v]
  BY <1>0, <1>2 DEF TypeOK
<1>4. \A v \in Windows : opened[k][v] \in Nat /\ admitted[k][v] \in Nat
  BY <1>0 DEF TypeOK
<1>5. Placed(k)'
  BY <1>0, <1>1, <1>2, <1>3 DEF Placed
<1>6. Reopened(k)'
  <2>1. CASE w > newest[k]
    <3>1. opened[k][w] = 0
      BY <1>0, <2>1 DEF Placed
    <3> QED
      BY <1>0, <1>1, <1>2, <1>3, <1>4, <2>1, <3>1 DEF Reopened
  <2>2. CASE w = newest[k]
    BY <1>0, <1>1, <1>2, <1>3, <1>4, <2>2 DEF Reopened
  <2>3. CASE w < newest[k]
    BY <1>0, <1>1, <1>2, <1>3, <1>4, <2>3 DEF Reopened
  <2> QED
    BY <1>1, <2>1, <2>2, <2>3
<1>7. Filled(k)'
  <2>1. admitted[k][w] =< Limit * opened[k][w]
    BY <1>0 DEF Filled
  <2>2. /\ Limit * (opened[k][w] + 1) = Limit * opened[k][w] + Limit
        /\ Limit * opened[k][w] \in Nat
    BY <1>1, LimitDistributes
  <2>3. \A v \in Windows : admitted'[k][v] =< Limit * opened'[k][v]
    BY <1>0, <1>1, <1>3, <2>1, <2>2, LimitPositive DEF Filled
  <2>4. opened'[k][w] - 1 = opened[k][w]
    BY <1>1, <1>3
  <2>5. /\ opened'[k][w] >= 1 /\ 1 =< admitted'[k][w] /\ 1 =< Limit
        /\ admitted'[k][w] =< Limit * (opened'[k][w] - 1) + 1
    BY <1>1, <1>3, <2>1, <2>2, <2>4, LimitPositive
  <2> QED
    BY <1>2, <2>3, <2>5 DEF Filled
<1> QED
  BY <1>5, <1>6, <1>7 DEF Counters

LEMMA IncrementKeeps ==
    ASSUME IInv, TypeOK', NEW k \in Keys, NEW w \in Windows,
           Increment(k, w),
           admitted' = [admitted EXCEPT ![k][w] = @ + 1],
           newest' = [newest EXCEPT ![k] = IF w > @ THEN w ELSE @],
           late' = [late EXCEPT ![k] = IF w < newest[k] THEN @ + 1 ELSE @]
    PROVE  Counters(k)'
<1>0. /\ TypeOK /\ Placed(k) /\ Reopened(k) /\ Filled(k)
  BY DEF IInv, Counters
<1>1. /\ w \in Nat /\ newest[k] \in Int /\ late[k] \in Nat /\ rate[k].count \in Nat
      /\ opened[k][w] \in Nat /\ admitted[k][w] \in Nat /\ Windows \subseteq Nat
  BY <1>0, NoWindowIsNone, WindowsAreTimes DEF TypeOK
<1>2. /\ rate[k].window = w /\ rate[k].count < Limit /\ opened' = opened
      /\ rate'[k].window = w /\ rate'[k].count = rate[k].count + 1
      /\ w =< newest[k]
  BY <1>0 DEF Increment, TypeOK, Placed
<1>3. /\ newest'[k] = newest[k]
      /\ late'[k] = late[k] \/ late'[k] = late[k] + 1
      /\ admitted'[k][w] = admitted[k][w] + 1
      /\ \A v \in Windows \ {w} : admitted'[k][v] = admitted[k][v]
  BY <1>0, <1>1, <1>2 DEF TypeOK
<1>4. Placed(k)'
  BY <1>0, <1>2, <1>3 DEF Placed
<1>5. Reopened(k)'
  <2>1. \A v \in Windows : opened[k][v] \in Nat
    BY <1>0 DEF TypeOK
  <2> QED
    BY <1>0, <1>1, <1>2, <1>3, <2>1 DEF Reopened
<1>6. Filled(k)'
  <2>1. /\ opened[k][w] >= 1 /\ rate[k].count =< admitted[k][w]
        /\ admitted[k][w] =< Limit * (opened[k][w] - 1) + rate[k].count
    BY <1>0, <1>2 DEF Filled
  <2>2. PICK n \in Nat : opened[k][w] = n + 1
    <3>1. opened[k][w] - 1 \in Nat /\ opened[k][w] = (opened[k][w] - 1) + 1
      BY <1>1, <2>1
    <3> QED
      BY <3>1
  <2>3. /\ opened[k][w] - 1 = n
        /\ Limit * opened[k][w] = Limit * n + Limit /\ Limit * n \in Nat
    BY <2>2, LimitDistributes
  <2>4. /\ admitted'[k][w] =< Limit * (opened[k][w] - 1) + rate'[k].count
        /\ admitted'[k][w] =< Limit * opened[k][w]
        /\ rate'[k].count =< admitted'[k][w] /\ rate'[k].count =< Limit
    BY <1>1, <1>2, <1>3, <2>1, <2>3, LimitPositive
  <2>5. \A v \in Windows : admitted'[k][v] =< Limit * opened'[k][v]
    BY <1>0, <1>2, <1>3, <2>4 DEF Filled
  <2> QED
    BY <1>2, <2>1, <2>4, <2>5 DEF Filled
<1> QED
  BY <1>4, <1>5, <1>6 DEF Counters

LEMMA StepIInv == IInv /\ [Next]_vars => IInv'
<1> SUFFICES ASSUME IInv, [Next]_vars PROVE IInv'
  OBVIOUS
<1>0. TypeOK /\ TypeOK'
  BY StepTypeOK DEF IInv
<1>1. ASSUME NEW r \in Requests, Admit(r), NEW k \in Keys PROVE Counters(k)'
  <2>1. PICK j \in Keys, w \in Windows :
            /\ Open(j, w) \/ Increment(j, w)
            /\ admitted' = [admitted EXCEPT ![j][w] = @ + 1]
            /\ newest' = [newest EXCEPT ![j] = IF w > @ THEN w ELSE @]
            /\ late' = [late EXCEPT ![j] = IF w < newest[j] THEN @ + 1 ELSE @]
    BY <1>0, <1>1, AdmitCounters
  <2>2. CASE k = j
    BY <1>0, <2>1, <2>2, OpenKeeps, IncrementKeeps
  <2>3. CASE k # j
    <3>1. /\ rate'[k] = rate[k] /\ opened'[k] = opened[k] /\ admitted'[k] = admitted[k]
          /\ newest'[k] = newest[k] /\ late'[k] = late[k]
      BY <1>0, <2>1, <2>3 DEF Open, Increment, TypeOK
    <3> QED
      BY <3>1, OthersKept
  <2> QED
    BY <2>2, <2>3
<1>2. ASSUME UNCHANGED <<rate, history>>, NEW k \in Keys PROVE Counters(k)'
  BY <1>2, OthersKept DEF history
<1>3. (\E r \in Requests : Admit(r)) \/ UNCHANGED <<rate, history>>
  BY DEF Next, Arrive, Refuse, Guard, Answered, Tick, Exhausted, vars, history
<1> QED
  BY <1>0, <1>1, <1>2, <1>3 DEF IInv

LEMMA Invariance == Safety => []IInv
<1>1. Init => IInv
  BY InitIInv
<1>2. IInv /\ [Next]_vars => IInv'
  BY StepIInv
<1> QED
  BY <1>1, <1>2, PTL DEF Safety

-----------------------------------------------------------------------------
(* The theorems. *)

\* Only requests of an older window that are counted late let a window admit
\* more than the limit, each at most one limit's worth (server.go 854-874).
THEOREM OverrunBounded == Safety => []OverrunOnlyByLatecomers
<1>1. IInv => OverrunOnlyByLatecomers
  <2> SUFFICES ASSUME IInv, NEW k \in Keys, NEW w \in Windows
               PROVE  admitted[k][w] =< Limit * (1 + late[k])
    BY DEF OverrunOnlyByLatecomers
  <2>1. /\ admitted[k][w] \in Nat /\ opened[k][w] \in Nat /\ 1 + late[k] \in Nat
    BY DEF IInv, TypeOK
  <2>2. admitted[k][w] =< Limit * opened[k][w] /\ opened[k][w] =< 1 + late[k]
    BY DEF IInv, Counters, Filled, Reopened
  <2>3. Limit * opened[k][w] =< Limit * (1 + late[k])
    BY <2>1, <2>2, LimitMonotonic
  <2>4. Limit * opened[k][w] \in Nat /\ Limit * (1 + late[k]) \in Nat
    BY <2>1, LimitDistributes
  <2> QED
    BY <2>1, <2>2, <2>3, <2>4
<1> QED
  BY <1>1, Invariance, PTL

\* A write answered 429 has had the limit, with its own key and in its own
\* window (server.go 813-816, 861-869).
THEOREM RefusedInTurn == Safety => RefusalDeserved
<1>1. IInv /\ [Next]_vars
         => [\A r \in Requests :
                req[r].pc = "stamped" /\ req'[r].pc = "limited"
                    => admitted[req[r].key][req[r].window] >= Limit]_vars
  <2> SUFFICES ASSUME IInv, Next, NEW r \in Requests,
                      req[r].pc = "stamped", req'[r].pc = "limited"
               PROVE  admitted[req[r].key][req[r].window] >= Limit
    BY DEF vars
  <2>0. TypeOK
    BY DEF IInv
  <2>1. Refuse(r)
    <3>1. PICK q \in Requests : Arrive(q) \/ Admit(q) \/ Refuse(q) \/ Guard(q) \/ Answered(q)
      BY DEF Next, Tick, Exhausted, vars
    <3>2. ~Arrive(q) /\ ~Answered(q)
      BY <2>0 DEF Arrive, Answered, IdleRequest, TypeOK
    <3>3. ~Admit(q)
      <4> SUFFICES ASSUME req' = [req EXCEPT ![q].pc = "admitted"] PROVE FALSE
        BY DEF Admit
      <4> QED
        BY <2>0 DEF TypeOK
    <3>4. ~Guard(q)
      BY <2>0 DEF Guard, TypeOK
    <3>5. q = r
      BY <2>0, <3>1, <3>2, <3>3, <3>4 DEF Refuse, TypeOK
    <3> QED
      BY <3>1, <3>2, <3>3, <3>4, <3>5
  <2> DEFINE k == req[r].key
             w == req[r].window
  <2>2. k \in Keys /\ w \in Windows /\ admitted[k][w] \in Nat /\ rate[k].count \in Nat
    BY DEF IInv, TypeOK
  <2>3. rate[k].window = w /\ rate[k].count >= Limit
    BY <2>1 DEF Refuse, LimitReached
  <2>4. rate[k].count =< admitted[k][w]
    BY <2>2, <2>3 DEF IInv, Counters, Filled
  <2> QED
    BY <2>2, <2>3, <2>4, LimitPositive
<1> QED
  BY <1>1, Invariance, PTL DEF Safety, RefusalDeserved

\* The spelling that comes first in the list is the one that stays.
LEMMA FirstSpellingStays ==
    ASSUME NEW extra \in Seq(Origins), NEW k \in 1..Len(Mandatory),
           Mandatory[k] \notin Merged(extra)
    PROVE  \E l \in 1..Len(extra) :
               extra[l] # Mandatory[k] /\ Lower[extra[l]] = Lower[Mandatory[k]]
<1> DEFINE list == extra \o Mandatory
           N == Len(extra)
           same == {n \in 1..Len(list) : Lower[list[n]] = Lower[Mandatory[k]]}
<1>1. /\ N \in Nat /\ Len(Mandatory) \in Nat /\ Len(list) = N + Len(Mandatory)
      /\ \A n \in 1..N : list[n] = extra[n]
      /\ \A n \in 1..Len(Mandatory) : list[N + n] = Mandatory[n]
  BY OriginAssumption
<1>2. Merged(extra) = {list[n] : n \in {n \in 1..Len(list) :
                           \A m \in 1..(n - 1) : Lower[list[m]] # Lower[list[n]]}}
  BY DEF Merged
<1> HIDE DEF list, N
<1>3. N + k \in same
  BY <1>1
<1>4. PICK n \in same : \A m \in same : n =< m
  <2>1. same \subseteq Nat /\ same # {}
    BY <1>1, <1>3
  <2> QED
    BY <2>1, LeastNatural
<1>5. n \in 1..Len(list) /\ Lower[list[n]] = Lower[Mandatory[k]]
  OBVIOUS
<1>6. \A m \in 1..(n - 1) : Lower[list[m]] # Lower[list[n]]
  <2> SUFFICES ASSUME NEW m \in 1..(n - 1), Lower[list[m]] = Lower[list[n]] PROVE FALSE
    OBVIOUS
  <2>1. m \in 1..Len(list) /\ ~(n =< m)
    BY <1>1, <1>5
  <2> QED
    BY <1>4, <1>5, <2>1
<1>7. list[n] \in Merged(extra)
  BY <1>2, <1>5, <1>6
<1>8. CASE n =< N
  <2>1. n \in 1..N /\ list[n] = extra[n]
    BY <1>1, <1>5, <1>8
  <2> QED
    BY <1>5, <1>7, <2>1 DEF N
<1>9. CASE n > N
  <2>1. n - N \in 1..Len(Mandatory) /\ list[N + (n - N)] = Mandatory[n - N] /\ N + (n - N) = n
    BY <1>1, <1>5, <1>9
  <2>2. Mandatory[n - N] = Mandatory[k]
    BY <1>5, <2>1, SpellingAssumption
  <2> QED
    BY <1>7, <2>1, <2>2
<1> QED
  BY <1>1, <1>5, <1>8, <1>9

\* A mandatory origin is turned away only where another spelling of it was
\* configured: how far the list departs from "always included" (README.md:44),
\* which MandatoryIncluded says and the code does not keep (main.go 208-232,
\* server.go 897-911).
LostOnlyToRespelling ==
    \A k \in 1..Len(Mandatory) :
        ~OriginAllowed(Mandatory[k]) =>
            \E l \in 1..Len(configured) :
                configured[l] # Mandatory[k] /\ Lower[configured[l]] = Lower[Mandatory[k]]

\* Whatever list is configured, nothing else displaces a mandatory origin.
THEOREM MandatoryDisplaced == Safety => []LostOnlyToRespelling
<1>1. TypeOK => LostOnlyToRespelling
  <2> SUFFICES ASSUME TypeOK, NEW k \in 1..Len(Mandatory), ~OriginAllowed(Mandatory[k])
               PROVE  \E l \in 1..Len(configured) :
                         configured[l] # Mandatory[k]
                            /\ Lower[configured[l]] = Lower[Mandatory[k]]
    BY DEF LostOnlyToRespelling
  <2>1. configured \in Seq(Origins)
    BY OriginAssumption DEF TypeOK
  <2>2. Mandatory[k] \notin Merged(configured)
    BY DEF OriginAllowed
  <2> QED
    BY <2>1, <2>2, FirstSpellingStays
<1> QED
  BY <1>1, TypeCorrect, PTL

=============================================================================
