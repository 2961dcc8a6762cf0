---------------------------- MODULE TicketQueue ----------------------------
(***************************************************************************)
(* The print pipeline of internal/agent/server.go: the bounded channel     *)
(* ticketQ, its single worker, the tables `processing` and `processed`     *)
(* that make job ids idempotent, and the goroutines that share them under  *)
(* Server.mu:                                                              *)
(*                                                                         *)
(*   handler[h]  an HTTP handler inside handlePrintTicket                  *)
(*   reader      the gateway connection's readPump inside handleJob /      *)
(*               EnqueueRemoteJob                                          *)
(*   worker      runTicketWorker / processTicket                           *)
(*   tester[t]   RunTestJob (gateway) or handlePrintTest (HTTP)            *)
(*                                                                         *)
(* One action is one critical section of Server.mu, one channel operation  *)
(* or one call to the printer or a reporter, so that every interleaving    *)
(* the locks permit is a behaviour.                                        *)
(***************************************************************************)
EXTENDS Integers, Sequences, FiniteSets

CONSTANTS
    JobIds,               \* the texts a request may carry as its job id
    Blank,                \* the empty job id: the job is not tracked at all
    TrimSpace,            \* strings.TrimSpace on JobIds, as a function
    HttpIds,              \* ids POST /print/ticket is called with
    RemoteIds,            \* ids of the ticket jobs the gateway sends
    BadIds,               \* ids of gateway jobs whose content is refused
    TestIds,              \* ids of test jobs, from either side
    Handlers,             \* concurrent calls of handlePrintTicket
    Testers,              \* concurrent test prints
    QueueMaxSize,         \* capacity of ticketQ
    MaxRetries,           \* attempts of processTicket
    MaxProcessedEntries,  \* size `processed` is trimmed to (1000 in the code)
    MaxRequests,          \* bound: requests of any kind in a behaviour
    MaxSeconds,           \* bound: ticks of the RFC3339 clock
    MaxRestarts           \* bound: times the process ends and starts again

Trimmed == {TrimSpace[i] : i \in HttpIds}

\* The gateway numbers its own jobs: no HTTP client or test run uses these.
RemoteOnly == RemoteIds \ (Trimmed \union TestIds \union {Blank})

ASSUME IdAssumption ==
    /\ Blank \in JobIds
    /\ HttpIds \subseteq JobIds /\ RemoteIds \subseteq JobIds
    /\ BadIds \subseteq JobIds /\ TestIds \subseteq JobIds
    /\ TrimSpace \in [JobIds -> JobIds]
    /\ \A i \in JobIds : TrimSpace[TrimSpace[i]] = TrimSpace[i]
    /\ TrimSpace[Blank] = Blank
    /\ Trimmed \intersect TestIds = {}

ASSUME SizeAssumption ==
    /\ IsFiniteSet(JobIds)
    /\ QueueMaxSize \in Nat \ {0}
    /\ MaxRetries \in Nat \ {0}
    /\ MaxProcessedEntries \in Nat \ {0}
    /\ MaxRequests \in Nat /\ MaxSeconds \in Nat /\ MaxRestarts \in Nat

VARIABLES
    ticketQ,      \* the channel: ids of the queued jobs, oldest first
    processing,   \* ids registered and not yet settled
    processed,    \* what is remembered of finished jobs, and since when
    stat,         \* the part of agentStatus that jobs write
    wsReporter,   \* has the gateway client installed its reporter?
    handler, reader, worker, tester,
    clock,        \* wall clock, in the seconds an RFC3339 stamp can tell apart
    requests,     \* bound: requests begun so far
    restarts,     \* bound: restarts so far
    begun,        \* history: jobs registered since the process started
    prints,       \* history: times the printer took a job's whole ticket
    told,         \* history: job results handed to the gateway client
    promised      \* history: ids an HTTP client has been answered 202 for

memory  == <<ticketQ, processing, processed, stat>>
actors  == <<handler, reader, worker, tester>>
history == <<begun, prints, told, promised>>
bounds  == <<requests, restarts>>
vars    == <<memory, wsReporter, actors, clock, bounds, history>>

Outcomes == {"printed", "failed"}

NotRemembered == [status |-> "none", at |-> 0]

IdleHandler == [pc |-> "idle", id |-> Blank]
IdleWorker == [pc |-> "idle", id |-> Blank, attempt |-> 0, outcome |-> "none", at |-> 0]
IdleTester == [pc |-> "idle", id |-> Blank, outcome |-> "none", at |-> 0, remote |-> FALSE]

Remembered(i) == processed[i].status # "none"

-----------------------------------------------------------------------------
(* The types of the variables. *)

QueueTyped == ticketQ \in Seq(JobIds) /\ Len(ticketQ) =< QueueMaxSize

TablesTyped ==
    /\ processing \subseteq JobIds
    /\ processed \in [JobIds -> [status : Outcomes \union {"none"}, at : Nat]]

StatTyped ==
    /\ stat \in [lastJobID : JobIds,
                 lastPrintStatus : Outcomes \union {"idle", "queued", "success"},
                 successfulPrints : Nat, failedPrints : Nat]
    /\ wsReporter \in BOOLEAN

HandlerTyped ==
    handler \in [Handlers -> [pc : {"idle", "register", "enqueue", "rollback"}, id : JobIds]]

ReaderTyped == reader \in [pc : {"idle", "enqueue", "rollback", "refuse"}, id : JobIds]

WorkerTyped ==
    worker \in [pc : {"idle", "print", "report", "api", "settle"}, id : JobIds,
                attempt : 0..MaxRetries, outcome : Outcomes \union {"none"}, at : Nat]

TesterTyped ==
    tester \in [Testers -> [pc : {"idle", "print", "record", "report"}, id : JobIds,
                            outcome : Outcomes \union {"none"}, at : Nat, remote : BOOLEAN]]

HistoryTyped ==
    /\ clock \in Nat /\ requests \in Nat /\ restarts \in Nat /\ begun \in Nat
    /\ prints \in [JobIds -> Nat]
    /\ told \subseteq JobIds \X Outcomes
    /\ promised \subseteq JobIds

TypeOK ==
    /\ QueueTyped /\ TablesTyped /\ StatTyped
    /\ HandlerTyped /\ ReaderTyped /\ WorkerTyped /\ TesterTyped
    /\ HistoryTyped

Init ==
    /\ ticketQ = <<>>
    /\ processing = {}
    /\ processed = [i \in JobIds |-> NotRemembered]
    /\ stat = [lastJobID |-> Blank, lastPrintStatus |-> "idle",
               successfulPrints |-> 0, failedPrints |-> 0]
    /\ wsReporter = FALSE
    /\ handler = [h \in Handlers |-> IdleHandler]
    /\ reader = IdleHandler
    /\ worker = IdleWorker
    /\ tester = [t \in Testers |-> IdleTester]
    /\ clock = 0 /\ requests = 0 /\ restarts = 0 /\ begun = 0
    /\ prints = [i \in JobIds |-> 0]
    /\ told = {}
    /\ promised = {}

-----------------------------------------------------------------------------
(* The critical sections that several callers share.  The definitions named  *)
(* X_Fault are plausible slips in X; no action uses them, and each makes some *)
(* property of this module fail.                                              *)

NewRequest == requests < MaxRequests /\ requests' = requests + 1

\* The select's send case: the buffered channel accepts the job.
QueueHasRoom_OffByOne == Len(ticketQ) =< QueueMaxSize
QueueHasRoom == Len(ticketQ) < QueueMaxSize

\* A registration: the id is marked, and /status shows the job as queued.
Register(i) ==
    /\ processing' = processing \union ({i} \ {Blank})
    /\ stat' = [stat EXCEPT !.lastJobID = i, !.lastPrintStatus = "queued"]
    /\ begun' = begun + 1

Unmarked_Kept(i) == processing
Unmarked(i) == processing \ {i}

TakeBack_StatusKept(i) ==
    /\ processing' = Unmarked(i)
    /\ stat' = [stat EXCEPT !.failedPrints = @ + 1]

TakeBack_NotCounted(i) ==
    /\ processing' = Unmarked(i)
    /\ stat' = [stat EXCEPT !.lastPrintStatus = "failed"]

\* ticketQ was full: the registration is taken back.
TakeBack(i) ==
    /\ processing' = Unmarked(i)
    /\ stat' = [stat EXCEPT !.lastPrintStatus = "failed", !.failedPrints = @ + 1]

\* How many entries trimProcessedLocked keeps of n.
Kept_OffByOne(n) == IF n =< MaxProcessedEntries + 1 THEN n ELSE MaxProcessedEntries
Kept(n) == IF n =< MaxProcessedEntries THEN n ELSE MaxProcessedEntries

\* The sets trimProcessedLocked may delete: just enough, oldest stamps first;
\* neither sort.Slice nor the map it reads orders equal stamps.
Evictions(memo) ==
    LET known == {i \in JobIds : memo[i].status # "none"}
    IN  {gone \in SUBSET known :
            /\ Cardinality(known \ gone) = Kept(Cardinality(known))
            /\ \A i \in gone, j \in known \ gone : memo[i].at =< memo[j].at}

Without(memo, gone) == [i \in JobIds |-> IF i \in gone THEN NotRemembered ELSE memo[i]]

\* A finished job enters the memory, which is trimmed in the same section.
Remember(i, outcome, at) ==
    IF i = Blank THEN UNCHANGED processed
    ELSE LET memo == [processed EXCEPT ![i] = [status |-> outcome, at |-> at]]
         IN  \E gone \in Evictions(memo) : processed' = Without(memo, gone)

Handed_OnlyPrinted(i, outcome) ==
    IF wsReporter /\ TrimSpace[i] # Blank /\ outcome = "printed" THEN {<<i, outcome>>} ELSE {}

Handed_AlwaysPrinted(i, outcome) ==
    IF wsReporter /\ TrimSpace[i] # Blank THEN {<<i, "printed">>} ELSE {}

\* What reportJobResult hands to the gateway client.
Handed(i, outcome) == IF wsReporter /\ TrimSpace[i] # Blank THEN {<<i, outcome>>} ELSE {}

-----------------------------------------------------------------------------
(* POST /print/ticket: look the id up, register it, queue it - three        *)
(* critical sections with the lock released in between.                     *)

HttpCheck(h) ==
    /\ handler[h].pc = "idle"
    /\ NewRequest
    /\ \E i \in Trimmed :
        \/ /\ Remembered(i)                           \* "ticket already processed"
           /\ UNCHANGED <<handler, promised>>
        \/ /\ ~Remembered(i) /\ i \in processing      \* "ticket already queued"
           /\ promised' = promised \union {i}
           /\ UNCHANGED handler
        \/ /\ ~Remembered(i) /\ i \notin processing
           /\ handler' = [handler EXCEPT ![h] = [pc |-> "register", id |-> i]]
           /\ UNCHANGED promised
    /\ UNCHANGED <<memory, wsReporter, reader, worker, tester, clock, restarts,
                   begun, prints, told>>

HttpRegister(h) ==
    /\ handler[h].pc = "register"
    /\ Register(handler[h].id)
    /\ handler' = [handler EXCEPT ![h].pc = "enqueue"]
    /\ UNCHANGED <<ticketQ, processed, wsReporter, reader, worker, tester, clock,
                   bounds, prints, told, promised>>

HttpEnqueue(h) ==
    /\ handler[h].pc = "enqueue"
    /\ \/ /\ QueueHasRoom
          /\ ticketQ' = Append(ticketQ, handler[h].id)
          /\ promised' = promised \union {handler[h].id}
          /\ handler' = [handler EXCEPT ![h] = IdleHandler]
       \/ /\ ~QueueHasRoom
          /\ handler' = [handler EXCEPT ![h].pc = "rollback"]
          /\ UNCHANGED <<ticketQ, promised>>
    /\ UNCHANGED <<processing, processed, stat, wsReporter, reader, worker, tester,
                   clock, bounds, begun, prints, told>>

HttpRollback(h) ==
    /\ handler[h].pc = "rollback"
    /\ TakeBack(handler[h].id)
    /\ handler' = [handler EXCEPT ![h] = IdleHandler]
    /\ UNCHANGED <<ticketQ, processed, wsReporter, reader, worker, tester, clock,
                   bounds, history>>

-----------------------------------------------------------------------------
(* A ticket job from the gateway: lookup and registration are one section.  *)

\* WSClient.Run installs its reporter before it connects for the first time.
SetWSReporter ==
    /\ ~wsReporter
    /\ wsReporter' = TRUE
    /\ UNCHANGED <<memory, actors, clock, bounds, history>>

Duplicate_OnlyFinished(i) == Remembered(i)
Duplicate_OnlyInProgress(i) == i \in processing

\* EnqueueRemoteJob's two lookups.
Duplicate(i) == i \in processing \/ Remembered(i)

RemoteRegister ==
    /\ wsReporter /\ reader.pc = "idle"
    /\ NewRequest
    /\ \E i \in RemoteIds :
        \/ /\ Duplicate(i)
           /\ reader' = [pc |-> "refuse", id |-> i]
           /\ UNCHANGED <<processing, stat, begun>>
        \/ /\ ~Duplicate(i)
           /\ Register(i)
           /\ reader' = [pc |-> "enqueue", id |-> i]
    /\ UNCHANGED <<ticketQ, processed, wsReporter, handler, worker, tester, clock,
                   restarts, prints, told, promised>>

RemoteEnqueue ==
    /\ reader.pc = "enqueue"
    /\ \/ /\ QueueHasRoom
          /\ ticketQ' = Append(ticketQ, reader.id)
          /\ reader' = IdleHandler
       \/ /\ ~QueueHasRoom
          /\ reader' = [reader EXCEPT !.pc = "rollback"]
          /\ UNCHANGED ticketQ
    /\ UNCHANGED <<processing, processed, stat, wsReporter, handler, worker, tester,
                   clock, bounds, history>>

RemoteRollback ==
    /\ reader.pc = "rollback"
    /\ TakeBack(reader.id)
    /\ reader' = [reader EXCEPT !.pc = "refuse"]
    /\ UNCHANGED <<ticketQ, processed, wsReporter, handler, worker, tester, clock,
                   bounds, history>>

\* An unsupported format, no lines, or no printer to send them to.
RemoteReject ==
    /\ wsReporter /\ reader.pc = "idle"
    /\ NewRequest
    /\ \E i \in BadIds : reader' = [pc |-> "refuse", id |-> i]
    /\ UNCHANGED <<memory, wsReporter, handler, worker, tester, clock, restarts, history>>

\* handleJob reports every refusal as a failed job.
RemoteReportRefusal ==
    /\ reader.pc = "refuse"
    /\ told' = told \union {<<reader.id, "failed">>}
    /\ reader' = IdleHandler
    /\ UNCHANGED <<memory, wsReporter, handler, worker, tester, clock, bounds,
                   begun, prints, promised>>

-----------------------------------------------------------------------------
(* runTicketWorker and processTicket. *)

WorkerTake ==
    /\ worker.pc = "idle" /\ ticketQ # <<>>
    /\ worker' = [IdleWorker EXCEPT !.pc = "print", !.id = Head(ticketQ), !.attempt = 1]
    /\ ticketQ' = Tail(ticketQ)
    /\ UNCHANGED <<processing, processed, stat, wsReporter, handler, reader, tester,
                   clock, bounds, history>>

PrintOk_NoReturn ==
    /\ worker.pc = "print"
    /\ prints' = [prints EXCEPT ![worker.id] = @ + 1]
    /\ worker' = IF worker.attempt < MaxRetries THEN [worker EXCEPT !.attempt = @ + 1]
                 ELSE [worker EXCEPT !.pc = "report", !.outcome = "printed", !.at = clock]
    /\ UNCHANGED <<memory, wsReporter, handler, reader, tester, clock, bounds,
                   begun, told, promised>>

PrintOk ==
    /\ worker.pc = "print"
    /\ prints' = [prints EXCEPT ![worker.id] = @ + 1]
    /\ worker' = [worker EXCEPT !.pc = "report", !.outcome = "printed", !.at = clock]
    /\ UNCHANGED <<memory, wsReporter, handler, reader, tester, clock, bounds,
                   begun, told, promised>>

PrintFail ==
    /\ worker.pc = "print"
    /\ \/ /\ worker.attempt < MaxRetries
          /\ worker' = [worker EXCEPT !.attempt = @ + 1]
       \/ /\ worker.attempt = MaxRetries
          /\ worker' = [worker EXCEPT !.pc = "report", !.outcome = "failed"]
    /\ UNCHANGED <<memory, wsReporter, handler, reader, tester, clock, bounds, history>>

WorkerReport ==
    /\ worker.pc = "report"
    /\ told' = told \union Handed(worker.id, worker.outcome)
    /\ worker' = [worker EXCEPT !.pc = "api"]
    /\ UNCHANGED <<memory, wsReporter, handler, reader, tester, clock, bounds,
                   begun, prints, promised>>

\* reportPrintJobResult returns, whether the ERP answered or not.  A failed
\* job is stamped only now, a printed one was stamped when it was printed.
WorkerApiReport ==
    /\ worker.pc = "api"
    /\ worker' = [worker EXCEPT !.pc = "settle",
                                !.at = IF worker.outcome = "failed" THEN clock ELSE @]
    /\ UNCHANGED <<memory, wsReporter, handler, reader, tester, clock, bounds, history>>

WorkerSettle ==
    /\ worker.pc = "settle"
    /\ processing' = Unmarked(worker.id)
    /\ Remember(worker.id, worker.outcome, worker.at)
    /\ stat' = [stat EXCEPT
                   !.lastJobID = worker.id,
                   !.lastPrintStatus = IF worker.outcome = "printed" THEN "success" ELSE "failed",
                   !.successfulPrints = @ + (IF worker.outcome = "printed" THEN 1 ELSE 0),
                   !.failedPrints = @ + (IF worker.outcome = "failed" THEN 1 ELSE 0)]
    /\ worker' = IdleWorker
    /\ UNCHANGED <<ticketQ, wsReporter, handler, reader, tester, clock, bounds, history>>

-----------------------------------------------------------------------------
(* Test prints: they bypass the queue and the duplicate check, and enter    *)
(* the same memory of finished jobs.                                        *)

\* handlePrintTest, or the goroutine handleJob starts for RunTestJob.
TestStart(t) ==
    /\ tester[t].pc = "idle"
    /\ NewRequest
    /\ \E i \in TestIds, remote \in BOOLEAN :
        /\ remote => wsReporter /\ reader.pc = "idle"
        /\ ~remote => i # Blank
        /\ tester' = [tester EXCEPT ![t] = [IdleTester EXCEPT !.pc = "print", !.id = i,
                                                !.at = clock, !.remote = remote]]
    /\ begun' = begun + 1
    /\ UNCHANGED <<memory, wsReporter, handler, reader, worker, clock, restarts,
                   prints, told, promised>>

TestPrint(t) ==
    /\ tester[t].pc = "print"
    /\ \E outcome \in Outcomes :
        /\ tester' = [tester EXCEPT ![t].pc = "record", ![t].outcome = outcome]
        /\ prints' = IF outcome = "failed" THEN prints
                     ELSE [prints EXCEPT ![tester[t].id] = @ + 1]
    /\ UNCHANGED <<memory, wsReporter, handler, reader, worker, clock, bounds,
                   begun, told, promised>>

TestRecord(t) ==
    /\ tester[t].pc = "record"
    /\ Remember(tester[t].id, tester[t].outcome, tester[t].at)
    /\ stat' = [stat EXCEPT
                   !.lastPrintStatus = IF tester[t].outcome = "printed" /\ ~tester[t].remote
                                       THEN "success" ELSE tester[t].outcome,
                   !.successfulPrints = @ + (IF tester[t].outcome = "printed" THEN 1 ELSE 0),
                   !.failedPrints = @ + (IF tester[t].outcome = "failed" THEN 1 ELSE 0)]
    /\ tester' = IF tester[t].remote THEN [tester EXCEPT ![t].pc = "report"]
                 ELSE [tester EXCEPT ![t] = IdleTester]
    /\ UNCHANGED <<ticketQ, processing, wsReporter, handler, reader, worker, clock,
                   bounds, history>>

TestReport(t) ==
    /\ tester[t].pc = "report"
    /\ told' = told \union Handed(tester[t].id, tester[t].outcome)
    /\ tester' = [tester EXCEPT ![t] = IdleTester]
    /\ UNCHANGED <<memory, wsReporter, handler, reader, worker, clock, bounds,
                   begun, prints, promised>>

-----------------------------------------------------------------------------
(* The environment. *)

Tick ==
    /\ clock < MaxSeconds
    /\ clock' = clock + 1
    /\ UNCHANGED <<memory, wsReporter, actors, bounds, history>>

\* The process ends in whatever it was doing and is started again: nothing of
\* the pipeline is on disk.
Restart ==
    /\ restarts < MaxRestarts
    /\ restarts' = restarts + 1
    /\ ticketQ' = <<>> /\ processing' = {}
    /\ processed' = [i \in JobIds |-> NotRemembered]
    /\ stat' = [stat EXCEPT !.lastJobID = Blank, !.lastPrintStatus = "idle",
                            !.successfulPrints = 0, !.failedPrints = 0]
    /\ wsReporter' = FALSE
    /\ handler' = [h \in Handlers |-> IdleHandler]
    /\ reader' = IdleHandler /\ worker' = IdleWorker
    /\ tester' = [t \in Testers |-> IdleTester]
    /\ begun' = 0
    /\ UNCHANGED <<clock, requests, prints, told, promised>>

Quiescent ==
    /\ ticketQ = <<>> /\ worker.pc = "idle" /\ reader.pc = "idle"
    /\ \A h \in Handlers : handler[h].pc = "idle"
    /\ \A t \in Testers : tester[t].pc = "idle"

\* The bounds are used up and every goroutine is back where it waits.
Exhausted == Quiescent /\ requests = MaxRequests /\ UNCHANGED vars

HttpStep(h) == HttpRegister(h) \/ HttpEnqueue(h) \/ HttpRollback(h)
ReaderStep == RemoteEnqueue \/ RemoteRollback \/ RemoteReportRefusal
WorkerStep == WorkerTake \/ PrintOk \/ PrintFail \/ WorkerReport \/ WorkerApiReport \/ WorkerSettle
TestStep(t) == TestPrint(t) \/ TestRecord(t) \/ TestReport(t)

Next ==
    \/ \E h \in Handlers : HttpCheck(h) \/ HttpStep(h)
    \/ SetWSReporter \/ RemoteRegister \/ RemoteReject \/ ReaderStep
    \/ WorkerStep
    \/ \E t \in Testers : TestStart(t) \/ TestStep(t)
    \/ Tick \/ Restart
    \/ Exhausted

Safety == Init /\ [][Next]_vars

\* A goroutine that can run does: the Go scheduler, a printer call that
\* returns and a report that times out.  Requests, ticks and restarts are not
\* owed to anyone.
Fairness ==
    /\ WF_vars(ReaderStep)
    /\ WF_vars(WorkerStep)
    /\ \A h \in Handlers : WF_vars(HttpStep(h))
    /\ \A t \in Testers : WF_vars(TestStep(t))

Spec == Safety /\ Fairness

-----------------------------------------------------------------------------
(* Where a job can be between its registration and its end. *)

InQueue(i) == \E k \in 1..Len(ticketQ) : ticketQ[k] = i
AtReader(i) == reader.pc \in {"enqueue", "rollback"} /\ reader.id = i
AtWorker(i) == worker.pc # "idle" /\ worker.id = i
AtHandler(h, i) == handler[h].pc \in {"enqueue", "rollback"} /\ handler[h].id = i

InFlight(i) ==
    InQueue(i) \/ AtReader(i) \/ AtWorker(i) \/ \E h \in Handlers : AtHandler(h, i)

OneCopy(i) ==
    /\ \A k, l \in 1..Len(ticketQ) : ticketQ[k] = i /\ ticketQ[l] = i => k = l
    /\ InQueue(i) => ~AtReader(i) /\ ~AtWorker(i)
    /\ AtReader(i) => ~AtWorker(i)

\* A job only the gateway sends is nowhere twice, and while it is anywhere it
\* is marked as in progress and not remembered as finished: EnqueueRemoteJob's
\* single critical section and the order in which the worker settles keep the
\* two tables and the channel in step (server.go:202-221, 593-602, 642-651).
SingleFlight ==
    \A i \in RemoteOnly :
        /\ OneCopy(i)
        /\ InFlight(i) => i \in processing /\ ~Remembered(i)

\* No path leaves an id marked as in progress with nobody left to clear the
\* mark: such an id would be answered "already queued" until a restart
\* (server.go:228-231, 540-543, 594-595, 643-644).
NoOrphanMark == \A i \in processing : InFlight(i)

\* /status never shows "queued" for a job nobody is going to finish: whoever
\* ends the last registered job overwrites the word (server.go:210-220,
\* 227-236, 521-551, 603-611).
QueuedStatusIsLive == stat.lastPrintStatus = "queued" => InFlight(stat.lastJobID)

\* Every registered job and every test print is counted exactly once, as a
\* success or as a failure, however it ended (server.go:235, 326, 382, 547,
\* 609, 658).
CountersConserve ==
    begun = stat.successfulPrints + stat.failedPrints
            + Len(ticketQ)
            + Cardinality({h \in Handlers : handler[h].pc \in {"enqueue", "rollback"}})
            + Cardinality({r \in {reader} : r.pc \in {"enqueue", "rollback"}})
            + Cardinality({w \in {worker} : w.pc # "idle"})
            + Cardinality({t \in Testers : tester[t].pc \in {"print", "record"}})

\* A gateway job enters the memory of finished jobs only after its outcome was
\* handed to the gateway client, and with that outcome: what the memory goes on
\* to suppress has been reported once (server.go:582-601, 630-650).
RemoteOutcomeReported ==
    \A i \in RemoteOnly :
        Remembered(i) /\ TrimSpace[i] # Blank => <<i, processed[i].status>> \in told

\* Trimming keeps the memory of finished jobs bounded whoever adds to it
\* (server.go:600, 649, 339, 390, 408).
ProcessedBounded == Cardinality({i \in JobIds : Remembered(i)}) =< MaxProcessedEntries

\* "printed" is never reported for a job whose ticket no printer took
\* (server.go:563-585).
PrintedReportsAreTrue == \A i \in JobIds : <<i, "printed">> \in told => prints[i] > 0

\* An id answered 202 is printed or remembered once nothing is left to do, or
\* the agent counted a failure or was started again: a duplicate promised what
\* the first request's rollback took back leaves a trace in /status
\* (server.go:503-512, 529-552).
AcceptedLossIsCounted ==
    Quiescent =>
        \A i \in promised \ {Blank} :
            prints[i] > 0 \/ Remembered(i) \/ restarts > 0 \/ stat.failedPrints > 0

\* The printer never takes a ticket of the gateway that is remembered as
\* finished or that is not marked as in progress (server.go:202-209, 563-564).
NoReprintWhileRemembered ==
    [][\A i \in RemoteOnly :
           prints'[i] # prints[i] => i \in processing /\ ~Remembered(i)]_vars

\* Every mark is cleared: no id stays "already queued" for ever
\* (server.go:555-559, 594-595, 643-644).
MarksClear == \A i \in JobIds : (i \in processing) ~> (i \notin processing)

-----------------------------------------------------------------------------
(* Refinement: the pipeline keeps the ledger of the gateway's own jobs. *)

LedgerPhase(i) ==
    IF Remembered(i) THEN processed[i].status
    ELSE IF i \in processing
         THEN IF AtWorker(i) /\ worker.outcome = "printed" THEN "onPaper" ELSE "pending"
         ELSE "new"

Ledger == INSTANCE JobLedger WITH
    Jobs <- RemoteOnly,
    phase <- [i \in RemoteOnly |-> LedgerPhase(i)],
    copies <- [i \in RemoteOnly |-> prints[i]]

\* The tables, the channel and the goroutines together behave as one ledger:
\* accepted once, printed at most once per acceptance, settled, and possibly
\* forgotten (server.go:180-239, 561-662, 686-710).
LedgerSafety == Ledger!Safety

\* ... and every job the ledger has accepted leaves it again.
LedgerSpec == Ledger!Spec

-----------------------------------------------------------------------------
(* What the documents say. *)

\* "Duplicate `jobId` requests are handled idempotently" (README.md:139): no
\* id of POST /print/ticket is printed twice while the agent keeps running.
HttpPrintsOnce == \A i \in Trimmed \ {Blank} : prints[i] =< 1

\* "`jobId` already completed: return success response with duplicate=true"
\* (PHASE0_TECHNICAL_DESIGN.md:132): no job that was printed is reported failed.
FailedReportsAreTrue ==
    \A i \in RemoteOnly : <<i, "failed">> \in told => <<i, "printed">> \notin told

=============================================================================
