------------------------------ MODULE Delivery ------------------------------
(***************************************************************************)
(* A ticket job from the gateway to paper and back: the composition of the *)
(* print pipeline, here the ledger TicketQueue was shown to implement, the *)
(* gateway connection and the reports to the gateway and the ERP.  The     *)
(* link may break at any moment, the agent may be started again, a report  *)
(* may be refused, lost on the way or time out, and the gateway sends a    *)
(* job it has heard nothing of once more on each new connection.           *)
(***************************************************************************)
EXTENDS Integers, Sequences, FiniteSets, SequencesExt

CONSTANTS
    Jobs,             \* ticket jobs of the gateway
    ErpJobs,          \* those that carry an api_base_url
    QueueMaxSize,     \* capacity of ticketQ
    SendCapacity,     \* capacity of c.send (256 in the code)
    MaxBreaks,        \* bound: broken connections
    MaxLapses         \* bound: restarts of the agent and trimmings of its memory
                      \* of finished jobs, together

ASSUME DeliveryAssumption ==
    /\ IsFiniteSet(Jobs) /\ Jobs # {} /\ ErpJobs \subseteq Jobs
    /\ QueueMaxSize \in Nat \ {0} /\ SendCapacity \in Nat \ {0}
    /\ MaxBreaks \in Nat /\ MaxLapses \in Nat

VARIABLES
    phase, copies,    \* the ledger of the agent
    waiting,          \* the jobs in ticketQ
    worker,           \* processTicket
    reader,           \* readPump inside handleJob
    link,             \* up, half (the gateway is gone, c.conn is not nil), down
    inbound,          \* jobs sent on this connection and not yet read
    outbox,           \* c.send
    outbound,         \* results written on this connection and not yet received
    heard,            \* reports that arrived
    missed,           \* history: reports of a print that were refused or lost
    overflowed,       \* history: jobs with a report refused for a full outbox
    amnesia,          \* history: times the agent forgot a job it had accepted
    restarted,        \* history: has the agent been started again?
    breaks, lapses    \* bound: breaks, and restarts and trimmings, so far

ledger == <<phase, copies, amnesia>>
wires == <<inbound, outbox, outbound>>
reports == <<heard, missed, overflowed>>
bounds == <<restarted, breaks, lapses>>
vars == <<ledger, waiting, worker, reader, link, wires, reports, bounds>>

Ledger == INSTANCE JobLedger

Outcomes == {"printed", "failed"}
Results == Jobs \X Outcomes
Reports == {"gateway", "erp"} \X Jobs \X Outcomes

IdleReader == [pc |-> "idle", job |-> CHOOSE i \in Jobs : TRUE]
IdleWorker == [pc |-> "idle", job |-> IdleReader.job, outcome |-> "failed"]

TypeOK ==
    /\ Ledger!TypeOK
    /\ waiting \subseteq Jobs
    /\ worker \in [pc : {"idle", "print", "report", "api", "settle"}, job : Jobs,
                   outcome : Outcomes]
    /\ reader \in [pc : {"idle", "enqueue", "rollback", "refuse"}, job : Jobs]
    /\ link \in {"up", "half", "down"}
    /\ inbound \in Seq(Jobs) /\ outbox \in Seq(Results) /\ outbound \in Seq(Results)
    /\ heard \subseteq Reports /\ missed \subseteq Reports /\ overflowed \subseteq Jobs
    /\ amnesia \in [Jobs -> Nat]
    /\ restarted \in BOOLEAN /\ breaks \in 0..MaxBreaks /\ lapses \in 0..MaxLapses

Init ==
    /\ Ledger!Init /\ amnesia = [i \in Jobs |-> 0]
    /\ waiting = {} /\ worker = IdleWorker /\ reader = IdleReader
    /\ link = "down" /\ inbound = <<>> /\ outbox = <<>> /\ outbound = <<>>
    /\ heard = {} /\ missed = {} /\ overflowed = {}
    /\ restarted = FALSE /\ breaks = 0 /\ lapses = 0

-----------------------------------------------------------------------------
(* Shared. *)

ToGateway(results) == {<<"gateway", r[1], r[2]>> : r \in results}

Missed(gone) == missed' = missed \union {r \in gone : r[3] = "printed"}

InTransit(wire) == {wire[k] : k \in 1..Len(wire)}

Lapse == lapses < MaxLapses /\ lapses' = lapses + 1

Remembering(forgotten) ==
    /\ IF forgotten = {} THEN UNCHANGED lapses ELSE Lapse
    /\ amnesia' = [i \in Jobs |-> IF i \in forgotten THEN amnesia[i] + 1 ELSE amnesia[i]]

\* enqueueMessage: a refusal is only logged.
ReportResult(i, outcome) ==
    \/ /\ link # "down" /\ Len(outbox) < SendCapacity
       /\ outbox' = Append(outbox, <<i, outcome>>)
       /\ UNCHANGED <<missed, overflowed>>
    \/ /\ link = "down" \/ Len(outbox) >= SendCapacity
       /\ Missed({<<"gateway", i, outcome>>})
       /\ overflowed' = IF link = "down" THEN overflowed ELSE overflowed \union {i}
       /\ UNCHANGED outbox

-----------------------------------------------------------------------------
(* readPump and handleJob.  A job refused for its content, which TicketQueue    *)
(* models, is answered as a duplicate is.                                       *)

ReadJob ==
    /\ reader.pc = "idle" /\ inbound # <<>>
    /\ inbound' = Tail(inbound)
    /\ LET i == Head(inbound)
       IN  \/ /\ phase[i] = "new"
              /\ Ledger!Accept(i)
              /\ reader' = [pc |-> "enqueue", job |-> i]
           \/ /\ phase[i] # "new"
              /\ reader' = [pc |-> "refuse", job |-> i]
              /\ UNCHANGED <<phase, copies>>
    /\ UNCHANGED <<amnesia, waiting, worker, link, outbox, outbound, reports, bounds>>

ReaderEnqueue ==
    /\ reader.pc = "enqueue"
    /\ \/ /\ Cardinality(waiting) < QueueMaxSize
          /\ waiting' = waiting \union {reader.job}
          /\ reader' = IdleReader
       \/ /\ Cardinality(waiting) >= QueueMaxSize
          /\ reader' = [reader EXCEPT !.pc = "rollback"]
          /\ UNCHANGED waiting
    /\ UNCHANGED <<ledger, worker, link, wires, reports, bounds>>

ReaderRollback ==
    /\ reader.pc = "rollback"
    /\ Ledger!Refuse(reader.job)
    /\ reader' = [reader EXCEPT !.pc = "refuse"]
    /\ UNCHANGED <<amnesia, waiting, worker, link, wires, reports, bounds>>

ReaderRefuse_Silent ==
    /\ reader.pc = "refuse"
    /\ reader' = IdleReader
    /\ UNCHANGED <<ledger, waiting, worker, link, wires, reports, bounds>>

ReaderRefuse ==
    /\ reader.pc = "refuse"
    /\ ReportResult(reader.job, "failed")
    /\ reader' = IdleReader
    /\ UNCHANGED <<ledger, waiting, worker, link, inbound, outbound, heard, bounds>>

-----------------------------------------------------------------------------
(* processTicket. *)

WorkerTake ==
    /\ worker.pc = "idle"
    /\ \E i \in waiting :
        /\ worker' = [pc |-> "print", job |-> i, outcome |-> "failed"]
        /\ waiting' = waiting \ {i}
    /\ UNCHANGED <<ledger, reader, link, wires, reports, bounds>>

WorkerPrint ==
    /\ worker.pc = "print"
    /\ \/ /\ Ledger!PutOnPaper(worker.job)
          /\ worker' = [worker EXCEPT !.pc = "report", !.outcome = "printed"]
       \/ /\ worker' = [worker EXCEPT !.pc = "report"]
          /\ UNCHANGED <<phase, copies>>
    /\ UNCHANGED <<amnesia, waiting, reader, link, wires, reports, bounds>>

WorkerReport ==
    /\ worker.pc = "report"
    /\ ReportResult(worker.job, worker.outcome)
    /\ worker' = [worker EXCEPT !.pc = "api"]
    /\ UNCHANGED <<ledger, waiting, reader, link, inbound, outbound, heard, bounds>>

\* reportPrintJobResult: one POST, which may be lost; without an api_base_url
\* there is none.  What the ERP hears of a failure is left out.
WorkerApiReport ==
    /\ worker.pc = "api"
    /\ LET report == <<"erp", worker.job, "printed">>
       IN  IF worker.job \in ErpJobs /\ worker.outcome = "printed"
           THEN \/ heard' = heard \union {report} /\ UNCHANGED missed
                \/ Missed({report}) /\ UNCHANGED heard
           ELSE UNCHANGED <<heard, missed>>
    /\ worker' = [worker EXCEPT !.pc = "settle"]
    /\ UNCHANGED <<ledger, waiting, reader, link, wires, overflowed, bounds>>

WorkerSettle_NotRemembered ==
    /\ worker.pc = "settle"
    /\ Ledger!Settle(worker.job, worker.outcome, {worker.job})
    /\ worker' = IdleWorker
    /\ UNCHANGED <<amnesia, waiting, reader, link, wires, reports, bounds>>

WorkerSettle ==
    /\ worker.pc = "settle"
    /\ \E forgotten \in SUBSET (Ledger!Settled \union {worker.job}) :
        /\ Ledger!Settle(worker.job, worker.outcome, forgotten)
        /\ Remembering(forgotten)
    /\ worker' = IdleWorker
    /\ UNCHANGED <<waiting, reader, link, wires, reports, restarted, breaks>>

\* A test print or a job of an HTTP client enters the memory.
OthersSettle ==
    /\ \E forgotten \in SUBSET Ledger!Settled \ {{}} :
        Ledger!Forget(forgotten) /\ Remembering(forgotten)
    /\ UNCHANGED <<waiting, worker, reader, link, wires, reports, restarted, breaks>>

-----------------------------------------------------------------------------
(* The link: Run, writePump, and the network. *)

Answered(i) == \E outcome \in Outcomes : <<"gateway", i, outcome>> \in heard

\* The gateway sends, in some order, the jobs it has heard nothing of.
Redelivers ==
    /\ outbound' = <<>>
    /\ inbound' \in SetToSeqs({i \in Jobs : ~Answered(i)})

Connect_FreshOutbox ==
    /\ link = "down" /\ reader.pc = "idle"
    /\ link' = "up" /\ Redelivers /\ outbox' = <<>>
    /\ UNCHANGED <<ledger, waiting, worker, reader, reports, bounds>>

\* Run dials again once readPump has returned; c.send outlives the connection.
Connect ==
    /\ link = "down" /\ reader.pc = "idle"
    /\ link' = "up" /\ Redelivers
    /\ UNCHANGED <<ledger, waiting, worker, reader, outbox, reports, bounds>>

\* writePump: on a connection whose gateway is gone the message is lost.
Write ==
    /\ link # "down" /\ outbox # <<>>
    /\ outbox' = Tail(outbox)
    /\ \/ link = "up" /\ outbound' = Append(outbound, Head(outbox)) /\ UNCHANGED missed
       \/ link = "half" /\ Missed(ToGateway({Head(outbox)}))
          /\ UNCHANGED outbound
    /\ UNCHANGED <<ledger, waiting, worker, reader, link, inbound, heard, overflowed,
                   bounds>>

\* What was on its way to the gateway is lost; what has reached the agent may
\* still be read.
Break ==
    /\ link = "up" /\ breaks < MaxBreaks /\ breaks' = breaks + 1
    /\ link' = "half" /\ outbound' = <<>>
    /\ Missed(ToGateway(InTransit(outbound)))
    /\ UNCHANGED <<ledger, waiting, worker, reader, inbound, outbox, heard, overflowed,
                   restarted, lapses>>

\* readPump or writePump fails, and the connection is closed.
Notice ==
    /\ link = "half"
    /\ link' = "down"
    /\ UNCHANGED <<ledger, waiting, worker, reader, wires, reports, bounds>>

Restart ==
    /\ Lapse
    /\ restarted' = TRUE
    /\ Ledger!Restart
    /\ amnesia' = [i \in Jobs |-> amnesia[i] + (IF phase[i] = "new" THEN 0 ELSE 1)]
    /\ waiting' = {} /\ worker' = IdleWorker /\ reader' = IdleReader
    /\ link' = "down" /\ inbound' = <<>> /\ outbox' = <<>> /\ outbound' = <<>>
    /\ UNCHANGED <<reports, breaks>>

GatewayHears ==
    /\ link = "up" /\ outbound # <<>>
    /\ heard' = heard \union ToGateway({Head(outbound)})
    /\ outbound' = Tail(outbound)
    /\ UNCHANGED <<ledger, waiting, worker, reader, link, inbound, outbox, missed,
                   overflowed, bounds>>

Quiescent ==
    /\ link = "up" /\ inbound = <<>> /\ outbox = <<>> /\ outbound = <<>>
    /\ waiting = {} /\ worker.pc = "idle" /\ reader.pc = "idle"

\* Nothing is left to do.
AtRest == Quiescent /\ UNCHANGED vars

ReaderStep == ReadJob \/ ReaderEnqueue \/ ReaderRollback \/ ReaderRefuse

WorkerStep == WorkerTake \/ WorkerPrint \/ WorkerReport \/ WorkerApiReport \/ WorkerSettle

LinkStep == Connect \/ Write \/ Notice \/ GatewayHears

Next ==
    \/ ReaderStep \/ WorkerStep \/ OthersSettle
    \/ LinkStep \/ Break \/ Restart
    \/ AtRest

Safety == Init /\ [][Next]_vars

\* Both goroutines of the client, the worker and the gateway make progress;
\* nobody owes a break, a restart or a trimming.
Fairness ==
    /\ WF_vars(ReaderStep) /\ WF_vars(WorkerStep)
    /\ WF_vars(Connect) /\ WF_vars(Write) /\ WF_vars(Notice) /\ WF_vars(GatewayHears)

Spec == Safety /\ Fairness

-----------------------------------------------------------------------------
(* Properties. *)

\* A job goes to paper again only because the agent forgot it, by a restart or
\* by trimming its memory: no redelivery after a broken link and no lost answer
\* costs a second ticket (server.go:202-213, 593-602, ws_client.go:322-329).
ReprintNeedsAmnesia == \A i \in Jobs : copies[i] =< 1 + amnesia[i]

\* Who was to hear "printed" of a job that is on paper has heard it, or the
\* report was refused, lost or timed out: once everything is delivered there is
\* no other way to miss it, unless the agent was started again (server.go
\* :582-591, 664-684, ws_client.go:252-258, 341-354, reporting.go:42-51).
SilenceIsExplained ==
    Quiescent /\ ~restarted =>
        \A i \in Jobs : copies[i] > 0 =>
            \A listener \in {"gateway"} \union (IF i \in ErpJobs THEN {"erp"} ELSE {}) :
                <<listener, i, "printed">> \in heard \union missed

\* Every job the gateway has is answered, across broken links and restarts,
\* because even a duplicate is: unless an answer found the outbox full
\* (ws_client.go:322-329, 341-354).
EveryJobAnswered == \A i \in Jobs : <>(Answered(i) \/ i \in overflowed)

=============================================================================
