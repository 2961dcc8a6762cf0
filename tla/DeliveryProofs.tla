--------------------------- MODULE DeliveryProofs ---------------------------
(***************************************************************************)
(* Theorems about Delivery, for every set of jobs, every capacity and any  *)
(* number of broken links, restarts and trimmings.                         *)
(***************************************************************************)
EXTENDS Delivery, FiniteSetTheorems, TLAPS

-----------------------------------------------------------------------------
(* Reports and sequences. *)

LEMMA AReport ==
    ASSUME NEW i \in Jobs, NEW outcome \in Outcomes, NEW listener \in {"gateway", "erp"}
    PROVE  <<i, outcome>> \in Results /\ <<listener, i, outcome>> \in Reports
  BY DEF Results, Reports

LEMMA ToGatewayReports ==
    ASSUME NEW results, results \subseteq Results
    PROVE  ToGateway(results) \subseteq Reports
  BY DEF ToGateway, Results, Reports

LEMMA InTransitResults ==
    ASSUME NEW wire \in Seq(Results)
    PROVE  InTransit(wire) \subseteq Results
  BY DEF InTransit

LEMMA MissedReports ==
    ASSUME TypeOK, NEW gone, gone \subseteq Reports, Missed(gone)
    PROVE  missed' \subseteq Reports
  BY DEF Missed, TypeOK

\* What the gateway sends on a new connection are jobs.
LEMMA RedeliveredJobs ==
    ASSUME NEW S \in SUBSET Jobs
    PROVE  SetToSeqs(S) \subseteq Seq(Jobs)
<1>1. IsFiniteSet(S)
  BY DeliveryAssumption, FS_Subset
<1>2. Cardinality(S) \in Nat
  BY <1>1, FS_CardinalityType
<1> QED
  BY <1>2 DEF SetToSeqs

LEMMA IdleTyped ==
    /\ IdleReader \in [pc : {"idle", "enqueue", "rollback", "refuse"}, job : Jobs]
    /\ IdleWorker \in [pc : {"idle", "print", "report", "api", "settle"}, job : Jobs,
                       outcome : Outcomes]
  BY DeliveryAssumption DEF IdleReader, IdleWorker, Outcomes

\* enqueueMessage keeps the outbox and the histories typed.
LEMMA ReportTyped ==
    ASSUME TypeOK, NEW i \in Jobs, NEW outcome \in Outcomes, ReportResult(i, outcome)
    PROVE  outbox' \in Seq(Results) /\ missed' \subseteq Reports /\ overflowed' \subseteq Jobs
<1>1. <<i, outcome>> \in Results /\ {<<"gateway", i, outcome>>} \subseteq Reports
  BY AReport
<1>2. PICK result \in Results : result = <<i, outcome>>
  BY <1>1
<1>3. CASE outbox' = Append(outbox, <<i, outcome>>) /\ UNCHANGED <<missed, overflowed>>
  <2>1. outbox' = Append(outbox, result)
    BY <1>2, <1>3
  <2> QED
    BY <1>2, <1>3, <2>1 DEF TypeOK
<1>4. CASE /\ Missed({<<"gateway", i, outcome>>}) /\ UNCHANGED outbox
           /\ overflowed' = IF link = "down" THEN overflowed ELSE overflowed \union {i}
  <2>1. missed' \subseteq Reports
    BY <1>1, <1>4, MissedReports
  <2> QED
    BY <1>4, <2>1 DEF TypeOK
<1> QED
  BY <1>3, <1>4 DEF ReportResult

LEMMA LedgerTyped == TypeOK => phase \in [Jobs -> Ledger!Phases] /\ copies \in [Jobs -> Nat]
  BY DEF TypeOK, Ledger!TypeOK

-----------------------------------------------------------------------------
(* Type correctness. *)

LEMMA InitTypeOK == Init => TypeOK
<1> SUFFICES ASSUME Init PROVE TypeOK
  OBVIOUS
<1>1. Ledger!TypeOK /\ amnesia \in [Jobs -> Nat]
  BY DEF Init, Ledger!Init, Ledger!TypeOK, Ledger!Phases
<1>2. inbound \in Seq(Jobs) /\ outbox \in Seq(Results) /\ outbound \in Seq(Results)
  BY DEF Init
<1>3. heard \subseteq Reports /\ missed \subseteq Reports /\ overflowed \subseteq Jobs
  BY DEF Init
<1>4. restarted \in BOOLEAN /\ breaks \in 0..MaxBreaks /\ lapses \in 0..MaxLapses
  <2>1. 0 \in 0..MaxBreaks /\ 0 \in 0..MaxLapses
    BY DeliveryAssumption
  <2> QED
    BY <2>1 DEF Init
<1>5. waiting \subseteq Jobs /\ link \in {"up", "half", "down"}
  BY DEF Init
<1>6. worker = IdleWorker /\ reader = IdleReader
  BY DEF Init
<1> QED
  BY <1>1, <1>2, <1>3, <1>4, <1>5, <1>6, IdleTyped DEF TypeOK

LEMMA ReaderTypeOK == TypeOK /\ ReaderStep => TypeOK'
<1> SUFFICES ASSUME TypeOK, ReaderStep PROVE TypeOK'
  OBVIOUS
<1> USE DEF ledger, wires, reports, bounds
<1>1. CASE ReadJob
  <2>1. Head(inbound) \in Jobs /\ inbound' \in Seq(Jobs)
    BY <1>1 DEF ReadJob, TypeOK
  <2>2. Ledger!TypeOK'
    BY <1>1 DEF ReadJob, TypeOK, Ledger!Accept, Ledger!TypeOK, Ledger!Phases
  <2>3. reader' \in [pc : {"idle", "enqueue", "rollback", "refuse"}, job : Jobs]
    BY <1>1, <2>1 DEF ReadJob
  <2> QED
    BY <1>1, <2>1, <2>2, <2>3 DEF ReadJob, TypeOK
<1>2. CASE ReaderEnqueue
  BY <1>2, IdleTyped DEF ReaderEnqueue, TypeOK, Ledger!TypeOK
<1>3. CASE ReaderRollback
  BY <1>3 DEF ReaderRollback, TypeOK, Ledger!Refuse, Ledger!TypeOK, Ledger!Phases
<1>4. CASE ReaderRefuse
  <2>1. outbox' \in Seq(Results) /\ missed' \subseteq Reports /\ overflowed' \subseteq Jobs
    BY <1>4, ReportTyped DEF ReaderRefuse, TypeOK, Outcomes
  <2> QED
    BY <1>4, <2>1, IdleTyped DEF ReaderRefuse, TypeOK, Ledger!TypeOK
<1> QED
  BY <1>1, <1>2, <1>3, <1>4 DEF ReaderStep

\* What settling and forgetting make of the ledger.
LEMMA RememberingTyped ==
    ASSUME TypeOK, NEW forgotten, Remembering(forgotten)
    PROVE  amnesia' \in [Jobs -> Nat] /\ lapses' \in 0..MaxLapses
  BY DeliveryAssumption DEF Remembering, Lapse, TypeOK

LEMMA WorkerTypeOK == TypeOK /\ (WorkerStep \/ OthersSettle) => TypeOK'
<1> SUFFICES ASSUME TypeOK, WorkerStep \/ OthersSettle PROVE TypeOK'
  OBVIOUS
<1> USE DEF ledger, wires, reports, bounds
<1>1. CASE WorkerTake
  BY <1>1 DEF WorkerTake, TypeOK, Outcomes, Ledger!TypeOK
<1>2. CASE WorkerPrint
  <2>1. Ledger!TypeOK'
    <3>1. CASE UNCHANGED <<phase, copies>>
      BY <3>1 DEF TypeOK, Ledger!TypeOK
    <3>2. CASE Ledger!PutOnPaper(worker.job)
      <4>1. phase' \in [Jobs -> Ledger!Phases]
        BY <3>2, LedgerTyped DEF Ledger!PutOnPaper, Ledger!Phases
      <4>2. worker.job \in Jobs /\ copies[worker.job] + 1 \in Nat
        BY LedgerTyped DEF TypeOK
      <4>3. copies' \in [Jobs -> Nat]
        BY <3>2, <4>2, LedgerTyped DEF Ledger!PutOnPaper
      <4> QED
        BY <4>1, <4>3 DEF Ledger!TypeOK
    <3> QED
      BY <1>2, <3>1, <3>2 DEF WorkerPrint
  <2>2. worker' \in [pc : {"idle", "print", "report", "api", "settle"}, job : Jobs,
                     outcome : Outcomes]
    BY <1>2 DEF WorkerPrint, TypeOK, Outcomes
  <2> QED
    BY <1>2, <2>1, <2>2 DEF WorkerPrint, TypeOK
<1>3. CASE WorkerReport
  <2>1. outbox' \in Seq(Results) /\ missed' \subseteq Reports /\ overflowed' \subseteq Jobs
    BY <1>3, ReportTyped DEF WorkerReport, TypeOK
  <2> QED
    BY <1>3, <2>1 DEF WorkerReport, TypeOK, Ledger!TypeOK
<1>4. CASE WorkerApiReport
  <2>1. {<<"erp", worker.job, "printed">>} \subseteq Reports
    BY AReport DEF TypeOK, Outcomes
  <2>2. heard' \subseteq Reports /\ missed' \subseteq Reports
    BY <1>4, <2>1, MissedReports DEF WorkerApiReport, TypeOK
  <2> QED
    BY <1>4, <2>2 DEF WorkerApiReport, TypeOK, Ledger!TypeOK
<1>5. CASE WorkerSettle
  <2>1. PICK forgotten \in SUBSET (Ledger!Settled \union {worker.job}) :
            Ledger!Settle(worker.job, worker.outcome, forgotten) /\ Remembering(forgotten)
    BY <1>5 DEF WorkerSettle
  <2>2. Ledger!TypeOK'
    BY <2>1 DEF Ledger!Settle, TypeOK, Outcomes, Ledger!TypeOK, Ledger!Phases
  <2> QED
    BY <1>5, <2>1, <2>2, RememberingTyped, IdleTyped DEF WorkerSettle, TypeOK
<1>6. CASE OthersSettle
  <2>1. PICK forgotten \in SUBSET Ledger!Settled :
            Ledger!Forget(forgotten) /\ Remembering(forgotten)
    BY <1>6 DEF OthersSettle
  <2>2. Ledger!TypeOK'
    BY <2>1 DEF Ledger!Forget, TypeOK, Ledger!TypeOK, Ledger!Phases
  <2> QED
    BY <1>6, <2>1, <2>2, RememberingTyped DEF OthersSettle, TypeOK
<1> QED
  BY <1>1, <1>2, <1>3, <1>4, <1>5, <1>6 DEF WorkerStep

LEMMA LinkTypeOK == TypeOK /\ (LinkStep \/ Break \/ Restart) => TypeOK'
<1> SUFFICES ASSUME TypeOK, LinkStep \/ Break \/ Restart PROVE TypeOK'
  OBVIOUS
<1> USE DEF ledger, wires, reports, bounds
<1>1. CASE Connect
  <2>1. inbound' \in Seq(Jobs)
    BY <1>1, RedeliveredJobs DEF Connect, Redelivers
  <2> QED
    BY <1>1, <2>1 DEF Connect, Redelivers, TypeOK, Ledger!TypeOK
<1>2. CASE Write
  <2>1. Head(outbox) \in Results /\ Tail(outbox) \in Seq(Results)
    BY <1>2 DEF Write, TypeOK
  <2>2. ToGateway({Head(outbox)}) \subseteq Reports
    BY <2>1, ToGatewayReports
  <2>3. outbound' \in Seq(Results)
    <3>1. PICK result \in Results : result = Head(outbox)
      BY <2>1
    <3>2. CASE UNCHANGED outbound
      BY <3>2 DEF TypeOK
    <3>3. CASE outbound' = Append(outbound, Head(outbox))
      <4>1. outbound' = Append(outbound, result)
        BY <3>1, <3>3
      <4> QED
        BY <3>1, <4>1 DEF TypeOK
    <3> QED
      BY <1>2, <3>2, <3>3 DEF Write
  <2>4. missed' \subseteq Reports
    <3>1. CASE UNCHANGED missed
      BY <3>1 DEF TypeOK
    <3>2. CASE Missed(ToGateway({Head(outbox)}))
      BY <2>2, <3>2, MissedReports
    <3> QED
      BY <1>2, <3>1, <3>2 DEF Write
  <2> QED
    BY <1>2, <2>1, <2>3, <2>4 DEF Write, TypeOK, Ledger!TypeOK
<1>3. CASE Notice
  BY <1>3 DEF Notice, TypeOK, Ledger!TypeOK
<1>4. CASE GatewayHears
  <2>1. Head(outbound) \in Results /\ Tail(outbound) \in Seq(Results)
    BY <1>4 DEF GatewayHears, TypeOK
  <2>2. ToGateway({Head(outbound)}) \subseteq Reports
    BY <2>1, ToGatewayReports
  <2> QED
    BY <1>4, <2>1, <2>2 DEF GatewayHears, TypeOK, Ledger!TypeOK
<1>5. CASE Break
  <2>1. ToGateway(InTransit(outbound)) \subseteq Reports
    BY InTransitResults, ToGatewayReports DEF TypeOK
  <2>2. missed' \subseteq Reports
    BY <1>5, <2>1, MissedReports DEF Break
  <2> QED
    BY <1>5, <2>2, DeliveryAssumption DEF Break, TypeOK, Ledger!TypeOK
<1>6. CASE Restart
  <2>1. Ledger!TypeOK' /\ amnesia' \in [Jobs -> Nat]
    BY <1>6 DEF Restart, Ledger!Restart, TypeOK, Ledger!TypeOK, Ledger!Phases
  <2> QED
    BY <1>6, <2>1, IdleTyped, DeliveryAssumption DEF Restart, Lapse, TypeOK
<1> QED
  BY <1>1, <1>2, <1>3, <1>4, <1>5, <1>6 DEF LinkStep

LEMMA StepTypeOK == TypeOK /\ [Next]_vars => TypeOK'
<1> SUFFICES ASSUME TypeOK, [Next]_vars PROVE TypeOK'
  OBVIOUS
<1>1. CASE AtRest \/ UNCHANGED vars
  BY <1>1 DEF AtRest, vars, ledger, wires, reports, bounds, TypeOK, Ledger!TypeOK
<1> QED
  BY <1>1, ReaderTypeOK, WorkerTypeOK, LinkTypeOK DEF Next

\* Every reachable state is well typed: what is on the wires and in the outbox
\* are jobs and results of jobs, the histories are reports of them.
THEOREM TypeCorrect == Safety => []TypeOK
<1>1. Init => TypeOK
  BY InitTypeOK
<1>2. TypeOK /\ [Next]_vars => TypeOK'
  BY StepTypeOK
<1> QED
  BY <1>1, <1>2, PTL DEF Safety

-----------------------------------------------------------------------------
(* Copies and amnesia. *)

\* A job that may be accepted and printed again is owed an amnesia for every
\* copy there is; one that is on paper or settled may be one copy ahead.
Balanced(i) ==
    copies[i] =< amnesia[i] + (IF phase[i] \in {"new", "pending"} THEN 0 ELSE 1)

IInv == TypeOK /\ \A i \in Jobs : Balanced(i)

LEMMA InitIInv == Init => IInv
  BY InitTypeOK DEF Init, Ledger!Init, IInv, Balanced

\* Copies, phases and amnesia are left alone.
LEMMA BalanceKept ==
    ASSUME IInv, UNCHANGED ledger, NEW i \in Jobs
    PROVE  Balanced(i)'
  BY DEF IInv, Balanced, ledger

LEMMA ReaderBalance ==
    ASSUME IInv, ReadJob \/ ReaderRollback, NEW i \in Jobs
    PROVE  Balanced(i)'
<1>0. /\ phase \in [Jobs -> Ledger!Phases] /\ Balanced(i)
      /\ amnesia[i] \in Nat /\ copies[i] \in Nat
  BY DEF IInv, TypeOK, Ledger!TypeOK
<1>1. UNCHANGED <<copies, amnesia>>
  BY DEF ReadJob, ReaderRollback, Ledger!Accept, Ledger!Refuse
<1>2. phase'[i] = phase[i] \/ (phase[i] \in {"new", "pending"} /\ phase'[i] \in {"new", "pending"})
  BY <1>0 DEF ReadJob, ReaderRollback, Ledger!Accept, Ledger!Refuse
<1> QED
  BY <1>0, <1>1, <1>2 DEF Balanced

LEMMA PrintBalance ==
    ASSUME IInv, WorkerPrint, NEW i \in Jobs
    PROVE  Balanced(i)'
<1>0. /\ phase \in [Jobs -> Ledger!Phases] /\ Balanced(i)
      /\ amnesia[i] \in Nat /\ copies \in [Jobs -> Nat] /\ worker.job \in Jobs
  BY DEF IInv, TypeOK, Ledger!TypeOK
<1>1. CASE UNCHANGED <<phase, copies>>
  BY <1>1, BalanceKept DEF WorkerPrint, ledger
<1>2. CASE Ledger!PutOnPaper(worker.job)
  BY <1>0, <1>2 DEF WorkerPrint, Ledger!PutOnPaper, Balanced
<1> QED
  BY <1>1, <1>2 DEF WorkerPrint

\* Settling costs nothing, and what is forgotten on the way is counted.
LEMMA SettleBalance ==
    ASSUME IInv, WorkerSettle, NEW i \in Jobs
    PROVE  Balanced(i)'
<1>0. /\ phase \in [Jobs -> Ledger!Phases] /\ Balanced(i)
      /\ amnesia \in [Jobs -> Nat] /\ copies[i] \in Nat
      /\ worker.job \in Jobs /\ worker.outcome \in {"printed", "failed"}
  BY DEF IInv, TypeOK, Ledger!TypeOK, Outcomes
<1>1. PICK forgotten \in SUBSET (Ledger!Settled \union {worker.job}) :
          Ledger!Settle(worker.job, worker.outcome, forgotten) /\ Remembering(forgotten)
  BY DEF WorkerSettle
<1>2. /\ copies' = copies
      /\ amnesia'[i] = IF i \in forgotten THEN amnesia[i] + 1 ELSE amnesia[i]
      /\ phase'[i] = IF i \in forgotten THEN "new"
                     ELSE IF i = worker.job THEN worker.outcome ELSE phase[i]
  BY <1>0, <1>1 DEF Ledger!Settle, Remembering
<1>3. copies[i] =< amnesia[i] + 1
  BY <1>0 DEF Balanced
<1> QED
  BY <1>0, <1>2, <1>3 DEF Balanced

LEMMA ForgetBalance ==
    ASSUME IInv, OthersSettle, NEW i \in Jobs
    PROVE  Balanced(i)'
<1>0. /\ Balanced(i) /\ amnesia \in [Jobs -> Nat] /\ copies[i] \in Nat
  BY DEF IInv, TypeOK, Ledger!TypeOK
<1>1. PICK forgotten : Ledger!Forget(forgotten) /\ Remembering(forgotten)
  BY DEF OthersSettle
<1>2. /\ copies' = copies
      /\ amnesia'[i] = IF i \in forgotten THEN amnesia[i] + 1 ELSE amnesia[i]
      /\ phase'[i] = IF i \in forgotten THEN "new" ELSE phase[i]
  BY <1>0, <1>1 DEF Ledger!Forget, Remembering
<1> QED
  BY <1>0, <1>2 DEF Balanced

LEMMA RestartBalance ==
    ASSUME IInv, Restart, NEW i \in Jobs
    PROVE  Balanced(i)'
<1>0. /\ Balanced(i) /\ amnesia[i] \in Nat /\ copies[i] \in Nat
  BY DEF IInv, TypeOK, Ledger!TypeOK
<1>1. /\ copies' = copies /\ phase'[i] = "new"
      /\ amnesia'[i] = amnesia[i] + (IF phase[i] = "new" THEN 0 ELSE 1)
  BY DEF Restart, Ledger!Restart
<1> QED
  BY <1>0, <1>1 DEF Balanced

LEMMA StepIInv == IInv /\ [Next]_vars => IInv'
<1> SUFFICES ASSUME IInv, [Next]_vars PROVE IInv'
  OBVIOUS
<1>1. TypeOK'
  BY StepTypeOK DEF IInv
<1>2. ASSUME NEW i \in Jobs PROVE Balanced(i)'
  <2>1. CASE ReadJob \/ ReaderRollback
    BY <2>1, ReaderBalance
  <2>2. CASE WorkerPrint
    BY <2>2, PrintBalance
  <2>3. CASE WorkerSettle
    BY <2>3, SettleBalance
  <2>4. CASE OthersSettle
    BY <2>4, ForgetBalance
  <2>5. CASE Restart
    BY <2>5, RestartBalance
  <2>6. CASE UNCHANGED ledger
    BY <2>6, BalanceKept
  <2>7. CASE ReaderEnqueue \/ ReaderRefuse \/ WorkerTake \/ WorkerReport \/ WorkerApiReport
    BY <2>7, <2>6 DEF ReaderEnqueue, ReaderRefuse, WorkerTake, WorkerReport, WorkerApiReport
  <2>8. CASE LinkStep \/ Break \/ AtRest \/ UNCHANGED vars
    BY <2>8, <2>6 DEF LinkStep, Connect, Write, Notice, GatewayHears, Break, AtRest, vars
  <2> QED
    BY <2>1, <2>2, <2>3, <2>4, <2>5, <2>7, <2>8 DEF Next, ReaderStep, WorkerStep
<1> QED
  BY <1>1, <1>2 DEF IInv

\* However often the link breaks, a report is lost and the gateway sends a job
\* once more, each further copy of a ticket on paper was paid for by the agent
\* forgetting the job (server.go:202-213, 593-602, ws_client.go:322-329).
THEOREM ReprintsArePaidFor == Safety => []ReprintNeedsAmnesia
<1>1. Init => IInv
  BY InitIInv
<1>2. IInv /\ [Next]_vars => IInv'
  BY StepIInv
<1>3. IInv => ReprintNeedsAmnesia
  <2> SUFFICES ASSUME IInv, NEW i \in Jobs PROVE copies[i] =< 1 + amnesia[i]
    BY DEF ReprintNeedsAmnesia
  <2>1. copies[i] \in Nat /\ amnesia[i] \in Nat
    BY DEF IInv, TypeOK, Ledger!TypeOK
  <2> QED
    BY <2>1 DEF IInv, Balanced
<1> QED
  BY <1>1, <1>2, <1>3, PTL DEF Safety

-----------------------------------------------------------------------------
(* Nobody is left without "printed" unless a report of it was missed. *)

LEMMA InTransitAppend ==
    ASSUME NEW T, NEW wire \in Seq(T), NEW r \in T
    PROVE  InTransit(Append(wire, r)) = InTransit(wire) \union {r}
  BY DEF InTransit

LEMMA InTransitTail ==
    ASSUME NEW T, NEW wire \in Seq(T), wire # <<>>
    PROVE  InTransit(wire) \subseteq {Head(wire)} \union InTransit(Tail(wire))
<1> SUFFICES ASSUME NEW k \in 1..Len(wire), wire[k] # Head(wire)
             PROVE  wire[k] \in InTransit(Tail(wire))
  BY DEF InTransit
<1>1. k - 1 \in 1..Len(Tail(wire)) /\ Tail(wire)[k - 1] = wire[k]
  OBVIOUS
<1> QED
  BY <1>1 DEF InTransit

Told(listener, i) == <<listener, i, "printed">> \in heard \union missed

OnItsWay(i) == <<i, "printed">> \in InTransit(outbox) \union InTransit(outbound)

Owes(pcs, i) == worker.pc \in pcs /\ worker.job = i /\ worker.outcome = "printed"

\* A printed job that the gateway has not been told of is still in the worker,
\* the outbox or the wire, and one the ERP has not been told of in the worker.
Covered(i) ==
    /\ Told("gateway", i) \/ OnItsWay(i) \/ Owes({"report"}, i)
    /\ i \in ErpJobs => Told("erp", i) \/ Owes({"report", "api"}, i)

\* Only an open connection has results on its way.
SilentWire == link # "up" => outbound = <<>>

SInv ==
    /\ TypeOK /\ SilentWire
    /\ ~restarted => \A i \in Jobs : copies[i] > 0 => Covered(i)

LEMMA InitSInv == Init => SInv
<1> SUFFICES ASSUME Init PROVE SInv
  OBVIOUS
<1>1. outbound = <<>> /\ \A i \in Jobs : copies[i] = 0
  BY DEF Init, Ledger!Init
<1> QED
  BY <1>1, InitTypeOK DEF SInv, SilentWire

LEMMA StepSilentWire ==
    ASSUME SilentWire, [Next]_vars
    PROVE  SilentWire'
<1> USE DEF SilentWire, wires
<1>1. CASE ReaderStep
  BY <1>1 DEF ReaderStep, ReadJob, ReaderEnqueue, ReaderRollback, ReaderRefuse
<1>2. CASE WorkerStep \/ OthersSettle
  BY <1>2 DEF WorkerStep, WorkerTake, WorkerPrint, WorkerReport, WorkerApiReport,
              WorkerSettle, OthersSettle
<1>3. CASE LinkStep
  BY <1>3 DEF LinkStep, Connect, Redelivers, Write, Notice, GatewayHears
<1>4. CASE Break \/ Restart
  BY <1>4 DEF Break, Restart
<1>5. CASE AtRest \/ UNCHANGED vars
  BY <1>5 DEF AtRest, vars
<1> QED
  BY <1>1, <1>2, <1>3, <1>4, <1>5 DEF Next

\* The gateway and the ERP forget nothing, and neither do the histories.
LEMMA ToldStays ==
    ASSUME [Next]_vars
    PROVE  heard \subseteq heard' /\ missed \subseteq missed' /\ (restarted => restarted')
<1> USE DEF reports, bounds, Missed
<1>1. CASE ReaderStep
  BY <1>1 DEF ReaderStep, ReadJob, ReaderEnqueue, ReaderRollback, ReaderRefuse, ReportResult
<1>2. CASE WorkerStep \/ OthersSettle
  BY <1>2 DEF WorkerStep, WorkerTake, WorkerPrint, WorkerReport, WorkerApiReport,
              WorkerSettle, OthersSettle, ReportResult
<1>3. CASE LinkStep
  BY <1>3 DEF LinkStep, Connect, Redelivers, Write, Notice, GatewayHears
<1>4. CASE Break \/ Restart
  BY <1>4 DEF Break, Restart
<1>5. CASE AtRest \/ UNCHANGED vars
  BY <1>5 DEF AtRest, vars
<1> QED
  BY <1>1, <1>2, <1>3, <1>4, <1>5 DEF Next

\* A step that leaves the reports where they are and takes nothing from the worker.
LEMMA CoverKept ==
    ASSUME SInv, [Next]_vars, UNCHANGED <<copies, outbox, outbound, restarted>>,
           worker' = worker \/ worker.pc \in {"idle", "settle"},
           NEW i \in Jobs, ~restarted', copies'[i] > 0
    PROVE  Covered(i)'
<1>1. Covered(i)
  BY DEF SInv
<1>2. \A listener : Told(listener, i) => Told(listener, i)'
  BY ToldStays DEF Told
<1>3. OnItsWay(i) => OnItsWay(i)'
  BY DEF OnItsWay, InTransit
<1>4. /\ Owes({"report"}, i) => Owes({"report"}, i)'
      /\ Owes({"report", "api"}, i) => Owes({"report", "api"}, i)'
  BY DEF Owes
<1> QED
  BY <1>1, <1>2, <1>3, <1>4 DEF Covered

\* enqueueMessage: the result is in the outbox, or a print of it was missed.
LEMMA ReportCover ==
    ASSUME TypeOK, NEW j \in Jobs, NEW outcome \in Outcomes, ReportResult(j, outcome),
           UNCHANGED outbound
    PROVE  /\ \A i \in Jobs : OnItsWay(i) => OnItsWay(i)'
           /\ outcome = "printed" => Told("gateway", j)' \/ OnItsWay(j)'
<1>1. PICK r \in Results : r = <<j, outcome>>
  BY AReport
<1>2. CASE outbox' = Append(outbox, <<j, outcome>>)
  <2>1. InTransit(outbox') = InTransit(outbox) \union {r}
    <3>1. outbox' = Append(outbox, r) /\ outbox \in Seq(Results)
      BY <1>1, <1>2 DEF TypeOK
    <3>2. InTransit(Append(outbox, r)) = InTransit(outbox) \union {r}
      BY <3>1, InTransitAppend
    <3> QED
      BY <3>1, <3>2
  <2>2. InTransit(outbox)' = InTransit(outbox') /\ InTransit(outbound)' = InTransit(outbound)
    BY DEF InTransit
  <2> QED
    BY <1>1, <2>1, <2>2 DEF OnItsWay
<1>3. CASE Missed({<<"gateway", j, outcome>>}) /\ UNCHANGED outbox
  <2>1. \A i \in Jobs : OnItsWay(i) => OnItsWay(i)'
    BY <1>3 DEF OnItsWay, InTransit
  <2>2. outcome = "printed" => <<"gateway", j, "printed">> \in missed'
    BY <1>3 DEF Missed
  <2> QED
    BY <2>1, <2>2 DEF Told
<1> QED
  BY <1>2, <1>3 DEF ReportResult

LEMMA WorkerCover ==
    ASSUME SInv, [Next]_vars, WorkerPrint \/ WorkerReport \/ WorkerApiReport,
           NEW i \in Jobs, ~restarted', copies'[i] > 0
    PROVE  Covered(i)'
<1>0. /\ TypeOK /\ worker.job \in Jobs /\ worker.outcome \in Outcomes /\ ~restarted
      /\ copies[i] > 0 => Covered(i)
  BY ToldStays DEF SInv, TypeOK
<1>1. \A listener : Told(listener, i) => Told(listener, i)'
  BY ToldStays DEF Told
<1>2. CASE WorkerPrint
  <2>1. OnItsWay(i) => OnItsWay(i)'
    BY <1>2 DEF WorkerPrint, wires, OnItsWay, InTransit
  <2>2. CASE copies[i] > 0
    <3>1. ~Owes({"report"}, i) /\ ~Owes({"report", "api"}, i)
      BY <1>2 DEF WorkerPrint, Owes
    <3> QED
      BY <1>0, <1>1, <2>1, <2>2, <3>1 DEF Covered
  <2>3. CASE ~(copies[i] > 0)
    <3>1. i = worker.job /\ Ledger!PutOnPaper(worker.job)
      BY <1>2, <2>3, LedgerTyped, <1>0 DEF WorkerPrint, Ledger!PutOnPaper
    <3>2. worker' = [worker EXCEPT !.pc = "report", !.outcome = "printed"]
      BY <1>2, <3>1, <1>0, LedgerTyped DEF WorkerPrint, Ledger!PutOnPaper
    <3>3. Owes({"report"}, i)' /\ Owes({"report", "api"}, i)'
      BY <3>1, <3>2, <1>0 DEF Owes, TypeOK
    <3> QED
      BY <3>3 DEF Covered
  <2> QED
    BY <2>2, <2>3
<1>3. CASE WorkerReport
  <2>1. /\ Covered(i) /\ worker.pc = "report" /\ worker' = [worker EXCEPT !.pc = "api"]
        /\ ReportResult(worker.job, worker.outcome) /\ UNCHANGED outbound
    BY <1>0, <1>3 DEF WorkerReport, ledger
  <2>2. /\ OnItsWay(i) => OnItsWay(i)'
        /\ Owes({"report"}, i) => Told("gateway", i)' \/ OnItsWay(i)'
    BY <1>0, <2>1, ReportCover DEF Owes
  <2>3. Owes({"report", "api"}, i) => Owes({"report", "api"}, i)'
    BY <1>0, <2>1 DEF Owes, TypeOK
  <2> QED
    BY <1>1, <2>1, <2>2, <2>3 DEF Covered
<1>4. CASE WorkerApiReport
  <2>1. /\ Covered(i) /\ worker.pc = "api" /\ UNCHANGED <<outbox, outbound>>
    BY <1>0, <1>4 DEF WorkerApiReport, ledger, wires
  <2>2. OnItsWay(i) => OnItsWay(i)'
    BY <2>1 DEF OnItsWay, InTransit
  <2>3. ~Owes({"report"}, i)
    BY <2>1 DEF Owes
  <2>4. i \in ErpJobs /\ Owes({"report", "api"}, i) => Told("erp", i)'
    BY <1>4 DEF WorkerApiReport, Owes, Told, Missed
  <2> QED
    BY <1>1, <2>1, <2>2, <2>3, <2>4 DEF Covered
<1> QED
  BY <1>2, <1>3, <1>4

LEMMA RefuseCover ==
    ASSUME SInv, [Next]_vars, ReaderRefuse,
           NEW i \in Jobs, ~restarted', copies'[i] > 0
    PROVE  Covered(i)'
<1>1. TypeOK /\ reader.job \in Jobs /\ "failed" \in Outcomes
  BY DEF SInv, TypeOK, Outcomes
<1>2. /\ ReportResult(reader.job, "failed")
      /\ UNCHANGED <<outbound, worker, copies, restarted>>
  BY DEF ReaderRefuse, ledger, bounds
<1>3. Covered(i)
  BY <1>2 DEF SInv
<1>4. OnItsWay(i) => OnItsWay(i)'
  BY <1>1, <1>2, ReportCover
<1>5. \A listener : Told(listener, i) => Told(listener, i)'
  BY ToldStays DEF Told
<1>6. \A pcs : Owes(pcs, i) => Owes(pcs, i)'
  BY <1>2 DEF Owes
<1> QED
  BY <1>3, <1>4, <1>5, <1>6 DEF Covered

\* What leaves the outbox or the wire arrives, or is missed.
LEMMA TransitCover ==
    ASSUME SInv, [Next]_vars, Write \/ Break \/ GatewayHears, NEW i \in Jobs, OnItsWay(i)
    PROVE  Told("gateway", i)' \/ OnItsWay(i)'
<1> DEFINE r == <<i, "printed">>
<1>0. outbox \in Seq(Results) /\ outbound \in Seq(Results)
  BY DEF SInv, TypeOK
<1>1. r \in InTransit(outbox) \/ r \in InTransit(outbound)
  BY DEF OnItsWay
<1>2. /\ outbox # <<>> => InTransit(outbox) \subseteq {Head(outbox)} \union InTransit(Tail(outbox))
      /\ outbound # <<>> =>
            InTransit(outbound) \subseteq {Head(outbound)} \union InTransit(Tail(outbound))
  BY <1>0, InTransitTail
<1>3. /\ InTransit(outbox)' = InTransit(outbox')
      /\ InTransit(outbound)' = InTransit(outbound')
  BY DEF InTransit
<1>4. CASE Write
  <2>1. outbox # <<>> /\ outbox' = Tail(outbox)
    BY <1>4 DEF Write
  <2>2. CASE outbound' = Append(outbound, Head(outbox))
    <3>1. Head(outbox) \in Results
      BY <1>0, <2>1
    <3>2. InTransit(outbound') = InTransit(outbound) \union {Head(outbox)}
      BY <1>0, <2>2, <3>1, InTransitAppend
    <3> QED
      BY <1>1, <1>2, <1>3, <2>1, <3>2 DEF OnItsWay
  <2>3. CASE UNCHANGED outbound /\ Missed(ToGateway({Head(outbox)}))
    <3>1. r = Head(outbox) => Told("gateway", i)'
      BY <2>3 DEF Missed, ToGateway, Told
    <3> QED
      BY <1>1, <1>2, <1>3, <2>1, <2>3, <3>1 DEF OnItsWay
  <2> QED
    BY <1>4, <2>2, <2>3 DEF Write
<1>5. CASE Break
  <2>1. outbox' = outbox /\ Missed(ToGateway(InTransit(outbound)))
    BY <1>5 DEF Break
  <2>2. r \in InTransit(outbound) => Told("gateway", i)'
    BY <2>1 DEF Missed, ToGateway, Told
  <2> QED
    BY <1>1, <1>3, <2>1, <2>2 DEF OnItsWay
<1>6. CASE GatewayHears
  <2>1. /\ outbound # <<>> /\ outbound' = Tail(outbound) /\ outbox' = outbox
        /\ heard' = heard \union ToGateway({Head(outbound)})
    BY <1>6 DEF GatewayHears
  <2>2. r = Head(outbound) => Told("gateway", i)'
    BY <2>1 DEF ToGateway, Told
  <2> QED
    BY <1>1, <1>2, <1>3, <2>1, <2>2 DEF OnItsWay
<1> QED
  BY <1>4, <1>5, <1>6

LEMMA LinkCover ==
    ASSUME SInv, [Next]_vars, Write \/ Break \/ GatewayHears,
           NEW i \in Jobs, ~restarted', copies'[i] > 0
    PROVE  Covered(i)'
<1>1. UNCHANGED <<worker, copies, restarted>>
  BY DEF Write, Break, GatewayHears, ledger, bounds
<1>2. Covered(i)
  BY <1>1 DEF SInv
<1>3. OnItsWay(i) => Told("gateway", i)' \/ OnItsWay(i)'
  BY TransitCover
<1>4. \A listener : Told(listener, i) => Told(listener, i)'
  BY ToldStays DEF Told
<1>5. \A pcs : Owes(pcs, i) => Owes(pcs, i)'
  BY <1>1 DEF Owes
<1> QED
  BY <1>2, <1>3, <1>4, <1>5 DEF Covered

LEMMA StepSInv == SInv /\ [Next]_vars => SInv'
<1> SUFFICES ASSUME SInv, [Next]_vars PROVE SInv'
  OBVIOUS
<1>1. TypeOK' /\ SilentWire'
  BY StepTypeOK, StepSilentWire DEF SInv
<1>2. ASSUME NEW i \in Jobs, ~restarted', copies'[i] > 0 PROVE Covered(i)'
  <2> USE DEF ledger, wires, bounds
  <2>1. CASE ReadJob \/ ReaderEnqueue \/ ReaderRollback
    BY <1>2, <2>1, CoverKept
       DEF ReadJob, ReaderEnqueue, ReaderRollback, Ledger!Accept, Ledger!Refuse
  <2>2. CASE ReaderRefuse
    BY <1>2, <2>2, RefuseCover
  <2>3. CASE WorkerTake \/ WorkerSettle \/ OthersSettle
    BY <1>2, <2>3, CoverKept
       DEF WorkerTake, WorkerSettle, OthersSettle, Ledger!Settle, Ledger!Forget
  <2>4. CASE WorkerPrint \/ WorkerReport \/ WorkerApiReport
    BY <1>2, <2>4, WorkerCover
  <2>5. CASE Connect \/ Notice
    BY <1>2, <2>5, CoverKept DEF Connect, Redelivers, Notice, SInv, SilentWire
  <2>6. CASE Write \/ Break \/ GatewayHears
    BY <1>2, <2>6, LinkCover
  <2>7. CASE Restart
    BY <1>2, <2>7 DEF Restart
  <2>8. CASE AtRest \/ UNCHANGED vars
    BY <1>2, <2>8, CoverKept DEF AtRest, vars
  <2> QED
    BY <2>1, <2>2, <2>3, <2>4, <2>5, <2>6, <2>7, <2>8
       DEF Next, ReaderStep, WorkerStep, LinkStep
<1> QED
  BY <1>1, <1>2 DEF SInv

\* Once nothing is left to do, a gateway or an ERP that was not told of a ticket
\* on paper missed a report of it: refused, lost on the wire or timed out.  No
\* interleaving of the worker, the reader and the link loses a result otherwise
\* (server.go:582-591, 664-684, ws_client.go:252-258, 341-354, reporting.go:42-51).
THEOREM NobodyUntold == Safety => []SilenceIsExplained
<1>1. Init => SInv
  BY InitSInv
<1>2. SInv /\ [Next]_vars => SInv'
  BY StepSInv
<1>3. SInv => SilenceIsExplained
  <2> SUFFICES ASSUME SInv, Quiescent, ~restarted, NEW i \in Jobs, copies[i] > 0
               PROVE  Told("gateway", i) /\ (i \in ErpJobs => Told("erp", i))
    BY DEF SilenceIsExplained, Told
  <2>1. Covered(i)
    BY DEF SInv
  <2>2. ~OnItsWay(i)
    BY DEF Quiescent, OnItsWay, InTransit
  <2> QED
    BY <2>1, <2>2 DEF Covered, Owes, Quiescent
<1> QED
  BY <1>1, <1>2, <1>3, PTL DEF Safety

-----------------------------------------------------------------------------
(* The ledger inside the composition. *)

LEMMA LedgerStep ==
    ASSUME TypeOK, [Next]_vars
    PROVE  [Ledger!Next]_(Ledger!vars)
<1>1. CASE UNCHANGED ledger
  BY <1>1 DEF ledger, Ledger!vars
<1>2. CASE ReadJob
  <2>1. CASE UNCHANGED <<phase, copies>>
    BY <2>1 DEF Ledger!vars
  <2>2. CASE ~UNCHANGED <<phase, copies>>
    <3>1. Head(inbound) \in Jobs
      BY <1>2 DEF ReadJob, TypeOK
    <3>2. Ledger!Accept(Head(inbound))
      BY <1>2, <2>2 DEF ReadJob
    <3> QED
      BY <3>1, <3>2 DEF Ledger!Next
  <2> QED
    BY <2>1, <2>2
<1>3. CASE ReaderRollback
  <2>1. reader.job \in Jobs /\ Ledger!Refuse(reader.job)
    BY <1>3 DEF ReaderRollback, TypeOK
  <2> QED
    BY <2>1 DEF Ledger!Next, Ledger!Progress
<1>4. CASE WorkerPrint
  <2>1. worker.job \in Jobs
    BY DEF TypeOK
  <2> QED
    BY <1>4, <2>1 DEF WorkerPrint, Ledger!Next, Ledger!Progress, Ledger!vars
<1>5. CASE WorkerSettle
  <2>1. worker.job \in Jobs /\ worker.outcome \in {"printed", "failed"}
    BY DEF TypeOK, Outcomes
  <2>2. PICK forgotten \in SUBSET (Ledger!Settled \union {worker.job}) :
            Ledger!Settle(worker.job, worker.outcome, forgotten)
    BY <1>5 DEF WorkerSettle
  <2>3. Ledger!Finish(worker.job)
    BY <2>1, <2>2 DEF Ledger!Finish
  <2> QED
    BY <2>1, <2>3 DEF Ledger!Next, Ledger!Progress
<1>6. CASE OthersSettle
  BY <1>6 DEF OthersSettle, Ledger!Next
<1>7. CASE Restart
  BY <1>7 DEF Restart, Ledger!Next
<1>8. CASE \/ ReaderEnqueue \/ ReaderRefuse \/ WorkerTake \/ WorkerReport \/ WorkerApiReport
           \/ LinkStep \/ Break \/ AtRest \/ UNCHANGED vars
  <2>1. UNCHANGED ledger
    BY <1>8 DEF ReaderEnqueue, ReaderRefuse, WorkerTake, WorkerReport, WorkerApiReport,
                LinkStep, Connect, Write, Notice, GatewayHears, Break, AtRest, vars
  <2> QED
    BY <1>1, <2>1
<1> QED
  BY <1>2, <1>3, <1>4, <1>5, <1>6, <1>7, <1>8 DEF Next, ReaderStep, WorkerStep

\* The composition asks nothing of the pipeline that the pipeline does not
\* promise: the reader, the worker and the memory act on the ledger only as its own
\* actions allow, of which TicketQueueProofs shows that TicketQueue implements
\* them (server.go:180-239, 555-662).
THEOREM BuildsOnLedger == Safety => Ledger!Safety
<1>1. Init => Ledger!Init
  BY DEF Init
<1>2. TypeOK /\ [Next]_vars => [Ledger!Next]_(Ledger!vars)
  BY LedgerStep
<1> QED
  BY <1>1, <1>2, TypeCorrect, PTL DEF Safety, Ledger!Safety

=============================================================================
