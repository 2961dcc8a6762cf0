------------------------- MODULE TicketQueueProofs -------------------------
(***************************************************************************)
(* Theorems about TicketQueue, for every value of its constants.           *)
(***************************************************************************)
EXTENDS TicketQueue, FiniteSetTheorems, TLAPS

(* The shape of the memory of finished jobs. *)
Entry == [status : Outcomes \union {"none"}, at : Nat]

-----------------------------------------------------------------------------
(* What one call of Remember does to the memory. *)

\* Every entry of the memory after a call is gone, new, or what it was; the
\* entries that are gone were there before, or are the new one.
LEMMA RememberEffect ==
    ASSUME processed \in [JobIds -> Entry],
           NEW i \in JobIds, NEW outcome \in Outcomes, NEW at \in Nat,
           Remember(i, outcome, at)
    PROVE  /\ processed' \in [JobIds -> Entry]
           /\ \E gone \in SUBSET {j \in JobIds : Remembered(j) \/ j = i} :
                 \A j \in JobIds :
                    processed'[j] = IF j \in gone THEN NotRemembered
                                    ELSE IF j = i /\ i # Blank
                                         THEN [status |-> outcome, at |-> at]
                                         ELSE processed[j]
<1>1. CASE i = Blank
  <2>1. processed' = processed
    BY <1>1 DEF Remember
  <2>2. \A j \in JobIds : processed'[j] =
            IF j \in {} THEN NotRemembered
            ELSE IF j = i /\ i # Blank THEN [status |-> outcome, at |-> at] ELSE processed[j]
    BY <1>1, <2>1
  <2>3. {} \in SUBSET {j \in JobIds : Remembered(j) \/ j = i}
    OBVIOUS
  <2> QED
    BY <2>1, <2>2, <2>3
<1>2. CASE i # Blank
  <2> DEFINE memo == [processed EXCEPT ![i] = [status |-> outcome, at |-> at]]
  <2>1. memo \in [JobIds -> Entry]
    BY DEF Entry
  <2>2. PICK gone \in Evictions(memo) : processed' = Without(memo, gone)
    BY <1>2 DEF Remember
  <2>3. gone \in SUBSET {j \in JobIds : memo[j].status # "none"}
    BY <2>2 DEF Evictions
  <2>4. gone \in SUBSET {j \in JobIds : Remembered(j) \/ j = i}
    BY <2>3 DEF Remembered
  <2>5. NotRemembered \in Entry
    BY DEF NotRemembered, Entry
  <2>6. processed' \in [JobIds -> Entry]
    BY <2>1, <2>2, <2>5 DEF Without
  <2>7. \A j \in JobIds : processed'[j] =
            IF j \in gone THEN NotRemembered
            ELSE IF j = i /\ i # Blank THEN [status |-> outcome, at |-> at] ELSE processed[j]
    BY <1>2, <2>2 DEF Without
  <2> QED
    BY <2>4, <2>6, <2>7
<1> QED
  BY <1>1, <1>2

\* Another job's entry stays what it was or disappears.
LEMMA RememberOthers ==
    ASSUME processed \in [JobIds -> Entry],
           NEW e \in JobIds, NEW outcome \in Outcomes, NEW at \in Nat,
           Remember(e, outcome, at),
           NEW i \in JobIds, i # e, Remembered(i)'
    PROVE  Remembered(i) /\ processed'[i] = processed[i]
<1>1. PICK gone \in SUBSET {j \in JobIds : Remembered(j) \/ j = e} :
          \A j \in JobIds :
              processed'[j] = IF j \in gone THEN NotRemembered
                              ELSE IF j = e /\ e # Blank
                                   THEN [status |-> outcome, at |-> at]
                                   ELSE processed[j]
  BY RememberEffect
<1>2. i \notin gone
  BY <1>1 DEF Remembered, NotRemembered
<1> QED
  BY <1>1, <1>2 DEF Remembered

-----------------------------------------------------------------------------
(* Type correctness. *)

\* The two facts about the constants that typing needs.
LEMMA ConstantTypes ==
    /\ Blank \in JobIds /\ Trimmed \subseteq JobIds
    /\ RemoteIds \subseteq JobIds /\ BadIds \subseteq JobIds /\ TestIds \subseteq JobIds
    /\ MaxRetries \in Nat \ {0} /\ QueueMaxSize \in Nat \ {0}
BY IdAssumption, SizeAssumption DEF Trimmed

\* The worker's record keeps up with its program counter: it names an outcome
\* exactly from the report on.
WorkerOk ==
    /\ worker.pc \in {"idle", "print"} => worker.outcome = "none"
    /\ worker.pc \in {"report", "api", "settle"} => worker.outcome \in Outcomes

TesterOk ==
    \A u \in Testers : tester[u].pc \in {"record", "report"} => tester[u].outcome \in Outcomes

Typed == TypeOK /\ WorkerOk /\ TesterOk

LEMMA InitTyped == Init => Typed
<1> SUFFICES ASSUME Init PROVE Typed
  OBVIOUS
<1> USE ConstantTypes
<1>1. QueueTyped
  BY DEF Init, QueueTyped
<1>2. TablesTyped
  BY DEF Init, TablesTyped, NotRemembered
<1>3. StatTyped
  BY DEF Init, StatTyped
<1>4. HandlerTyped /\ ReaderTyped
  BY DEF Init, HandlerTyped, ReaderTyped, IdleHandler
<1>5. WorkerTyped /\ WorkerOk
  BY DEF Init, WorkerTyped, WorkerOk, IdleWorker
<1>6. TesterTyped /\ TesterOk
  BY DEF Init, TesterTyped, TesterOk, IdleTester
<1>7. HistoryTyped
  BY DEF Init, HistoryTyped
<1> QED
  BY <1>1, <1>2, <1>3, <1>4, <1>5, <1>6, <1>7 DEF Typed, TypeOK

\* Words and counters written into /status keep its type.
LEMMA StatUpdate ==
    ASSUME StatTyped, wsReporter' = wsReporter,
           NEW i \in JobIds, NEW m \in Nat, NEW n \in Nat,
           NEW word \in Outcomes \union {"idle", "queued", "success"},
           stat' = [stat EXCEPT !.lastJobID = i, !.lastPrintStatus = word,
                                !.successfulPrints = m, !.failedPrints = n]
    PROVE  StatTyped'
BY DEF StatTyped

LEMMA TakeBackTyped ==
    ASSUME StatTyped, TablesTyped, NEW i \in JobIds, TakeBack(i),
           wsReporter' = wsReporter, processed' = processed
    PROVE  StatTyped' /\ TablesTyped'
<1>1. stat.failedPrints + 1 \in Nat
  BY DEF StatTyped
<1>2. stat' = [stat EXCEPT !.lastPrintStatus = "failed", !.failedPrints = stat.failedPrints + 1]
  BY DEF TakeBack
<1>3. StatTyped'
  BY <1>1, <1>2 DEF StatTyped, Outcomes
<1>4. TablesTyped'
  BY DEF TakeBack, Unmarked, TablesTyped
<1> QED
  BY <1>3, <1>4

LEMMA HandlerStepTyped ==
    ASSUME Typed, NEW h \in Handlers, 
           HttpCheck(h) \/ HttpRegister(h) \/ HttpEnqueue(h) \/ HttpRollback(h)
    PROVE  Typed'
<1> USE DEF memory, actors, history, bounds
<1> USE ConstantTypes
<1>0. QueueTyped /\ TablesTyped /\ StatTyped /\ HandlerTyped /\ ReaderTyped /\ WorkerTyped /\ TesterTyped /\ HistoryTyped /\ WorkerOk /\ TesterOk
  BY DEF Typed, TypeOK
<1>1. CASE HttpCheck(h)
  <2>1. HandlerTyped'
    BY <1>0, <1>1, ConstantTypes DEF HttpCheck, HandlerTyped, NewRequest
  <2>2. HistoryTyped'
    BY <1>0, <1>1, ConstantTypes DEF HttpCheck, HistoryTyped, NewRequest
  <2>3. QueueTyped' /\ TablesTyped' /\ StatTyped' /\ ReaderTyped' /\ WorkerTyped' /\ TesterTyped' /\ WorkerOk' /\ TesterOk'
    BY <1>0, <1>1 DEF HttpCheck, QueueTyped, TablesTyped, StatTyped, ReaderTyped, WorkerTyped, TesterTyped, WorkerOk, TesterOk
  <2> QED
    BY <2>1, <2>2, <2>3 DEF Typed, TypeOK
<1>2. CASE HttpRegister(h)
  <2>1. TablesTyped'
    BY <1>0, <1>2 DEF HttpRegister, TablesTyped, Register, HandlerTyped
  <2>2. StatTyped'
    BY <1>0, <1>2 DEF HttpRegister, StatTyped, Register, HandlerTyped
  <2>3. HandlerTyped'
    BY <1>0, <1>2 DEF HttpRegister, HandlerTyped
  <2>4. HistoryTyped'
    BY <1>0, <1>2 DEF HttpRegister, HistoryTyped, Register
  <2>5. QueueTyped' /\ ReaderTyped' /\ WorkerTyped' /\ TesterTyped' /\ WorkerOk' /\ TesterOk'
    BY <1>0, <1>2 DEF HttpRegister, QueueTyped, ReaderTyped, WorkerTyped, TesterTyped, WorkerOk, TesterOk
  <2> QED
    BY <2>1, <2>2, <2>3, <2>4, <2>5 DEF Typed, TypeOK
<1>3. CASE HttpEnqueue(h)
  <2>1. QueueTyped'
    <3>1. CASE QueueHasRoom /\ ticketQ' = Append(ticketQ, handler[h].id)
      BY <1>0, <3>1 DEF QueueTyped, QueueHasRoom, HandlerTyped
    <3>2. CASE ticketQ' = ticketQ
      BY <1>0, <3>2 DEF QueueTyped
    <3> QED
      BY <1>3, <3>1, <3>2 DEF HttpEnqueue
  <2>2. HandlerTyped'
    BY <1>0, <1>3 DEF HttpEnqueue, HandlerTyped, IdleHandler
  <2>3. HistoryTyped'
    BY <1>0, <1>3 DEF HttpEnqueue, HistoryTyped, HandlerTyped
  <2>4. TablesTyped' /\ StatTyped' /\ ReaderTyped' /\ WorkerTyped' /\ TesterTyped' /\ WorkerOk' /\ TesterOk'
    BY <1>0, <1>3 DEF HttpEnqueue, TablesTyped, StatTyped, ReaderTyped, WorkerTyped, TesterTyped, WorkerOk, TesterOk
  <2> QED
    BY <2>1, <2>2, <2>3, <2>4 DEF Typed, TypeOK
<1>4. CASE HttpRollback(h)
  <2>1. handler[h].id \in JobIds
    BY <1>0 DEF HandlerTyped
  <2>2. TablesTyped' /\ StatTyped'
    BY <1>0, <1>4, <2>1, TakeBackTyped DEF HttpRollback
  <2>3. HandlerTyped'
    BY <1>0, <1>4 DEF HttpRollback, HandlerTyped, IdleHandler
  <2>4. QueueTyped' /\ ReaderTyped' /\ WorkerTyped' /\ TesterTyped' /\ HistoryTyped' /\ WorkerOk' /\ TesterOk'
    BY <1>0, <1>4 DEF HttpRollback, QueueTyped, ReaderTyped, WorkerTyped, TesterTyped, HistoryTyped, WorkerOk, TesterOk
  <2> QED
    BY <2>1, <2>2, <2>3, <2>4 DEF Typed, TypeOK
<1> QED
  BY <1>1, <1>2, <1>3, <1>4

LEMMA ReaderStepTyped ==
    ASSUME Typed, 
           RemoteRegister \/ RemoteEnqueue \/ RemoteRollback \/ RemoteReject \/ RemoteReportRefusal
    PROVE  Typed'
<1> USE DEF memory, actors, history, bounds
<1> USE ConstantTypes
<1>0. QueueTyped /\ TablesTyped /\ StatTyped /\ HandlerTyped /\ ReaderTyped /\ WorkerTyped /\ TesterTyped /\ HistoryTyped /\ WorkerOk /\ TesterOk
  BY DEF Typed, TypeOK
<1>1. CASE RemoteRegister
  <2>1. TablesTyped'
    BY <1>0, <1>1 DEF RemoteRegister, TablesTyped, Register
  <2>2. StatTyped'
    BY <1>0, <1>1 DEF RemoteRegister, StatTyped, Register
  <2>3. ReaderTyped'
    BY <1>0, <1>1 DEF RemoteRegister, ReaderTyped
  <2>4. begun' \in {begun, begun + 1} /\ requests' = requests + 1
        /\ UNCHANGED <<clock, restarts, prints, told, promised>>
    BY <1>1 DEF RemoteRegister, NewRequest, Register
  <2>5. HistoryTyped'
    BY <1>0, <2>4 DEF HistoryTyped
  <2>6. QueueTyped' /\ HandlerTyped' /\ WorkerTyped' /\ TesterTyped' /\ WorkerOk' /\ TesterOk'
    BY <1>0, <1>1 DEF RemoteRegister, QueueTyped, HandlerTyped, WorkerTyped, TesterTyped, WorkerOk, TesterOk
  <2> QED
    BY <2>1, <2>2, <2>3, <2>5, <2>6 DEF Typed, TypeOK
<1>2. CASE RemoteEnqueue
  <2>1. QueueTyped'
    BY <1>0, <1>2 DEF RemoteEnqueue, QueueTyped, QueueHasRoom, ReaderTyped
  <2>2. ReaderTyped'
    BY <1>0, <1>2 DEF RemoteEnqueue, ReaderTyped, IdleHandler
  <2>3. TablesTyped' /\ StatTyped' /\ HandlerTyped' /\ WorkerTyped' /\ TesterTyped' /\ HistoryTyped' /\ WorkerOk' /\ TesterOk'
    BY <1>0, <1>2 DEF RemoteEnqueue, TablesTyped, StatTyped, HandlerTyped, WorkerTyped, TesterTyped, HistoryTyped, WorkerOk, TesterOk
  <2> QED
    BY <2>1, <2>2, <2>3 DEF Typed, TypeOK
<1>3. CASE RemoteRollback
  <2>1. reader.id \in JobIds
    BY <1>0 DEF ReaderTyped
  <2>2. TablesTyped' /\ StatTyped'
    BY <1>0, <1>3, <2>1, TakeBackTyped DEF RemoteRollback
  <2>3. ReaderTyped'
    BY <1>0, <1>3 DEF RemoteRollback, ReaderTyped
  <2>4. QueueTyped' /\ HandlerTyped' /\ WorkerTyped' /\ TesterTyped' /\ HistoryTyped' /\ WorkerOk' /\ TesterOk'
    BY <1>0, <1>3 DEF RemoteRollback, QueueTyped, HandlerTyped, WorkerTyped, TesterTyped, HistoryTyped, WorkerOk, TesterOk
  <2> QED
    BY <2>1, <2>2, <2>3, <2>4 DEF Typed, TypeOK
<1>4. CASE RemoteReject
  <2>1. ReaderTyped'
    BY <1>0, <1>4 DEF RemoteReject, ReaderTyped
  <2>2. HistoryTyped'
    BY <1>0, <1>4 DEF RemoteReject, HistoryTyped, NewRequest
  <2>3. QueueTyped' /\ TablesTyped' /\ StatTyped' /\ HandlerTyped' /\ WorkerTyped' /\ TesterTyped' /\ WorkerOk' /\ TesterOk'
    BY <1>0, <1>4 DEF RemoteReject, QueueTyped, TablesTyped, StatTyped, HandlerTyped, WorkerTyped, TesterTyped, WorkerOk, TesterOk
  <2> QED
    BY <2>1, <2>2, <2>3 DEF Typed, TypeOK
<1>5. CASE RemoteReportRefusal
  <2>1. ReaderTyped'
    BY <1>0, <1>5 DEF RemoteReportRefusal, ReaderTyped, IdleHandler
  <2>2. HistoryTyped'
    BY <1>0, <1>5 DEF RemoteReportRefusal, HistoryTyped, ReaderTyped, Outcomes
  <2>3. QueueTyped' /\ TablesTyped' /\ StatTyped' /\ HandlerTyped' /\ WorkerTyped' /\ TesterTyped' /\ WorkerOk' /\ TesterOk'
    BY <1>0, <1>5 DEF RemoteReportRefusal, QueueTyped, TablesTyped, StatTyped, HandlerTyped, WorkerTyped, TesterTyped, WorkerOk, TesterOk
  <2> QED
    BY <2>1, <2>2, <2>3 DEF Typed, TypeOK
<1> QED
  BY <1>1, <1>2, <1>3, <1>4, <1>5

LEMMA WorkerStepTyped ==
    ASSUME Typed, 
           WorkerTake \/ PrintOk \/ PrintFail \/ WorkerReport \/ WorkerApiReport \/ WorkerSettle
    PROVE  Typed'
<1> USE DEF memory, actors, history, bounds
<1> USE ConstantTypes
<1>0. QueueTyped /\ TablesTyped /\ StatTyped /\ HandlerTyped /\ ReaderTyped /\ WorkerTyped /\ TesterTyped /\ HistoryTyped /\ WorkerOk /\ TesterOk
  BY DEF Typed, TypeOK
<1>1. CASE WorkerTake
  <2>1. QueueTyped'
    BY <1>0, <1>1 DEF WorkerTake, QueueTyped
  <2>2. Head(ticketQ) \in JobIds
    BY <1>0, <1>1 DEF WorkerTake, QueueTyped
  <2>3. WorkerTyped'
    <3>1. worker' = [pc |-> "print", id |-> Head(ticketQ), attempt |-> 1,
                     outcome |-> "none", at |-> 0]
      BY <1>1 DEF WorkerTake, IdleWorker
    <3>2. 1 \in 0..MaxRetries
      OBVIOUS
    <3> QED
      BY <2>2, <3>1, <3>2 DEF WorkerTyped
  <2>4. WorkerOk'
    BY <1>0, <1>1 DEF WorkerTake, WorkerOk, IdleWorker
  <2>5. TablesTyped' /\ StatTyped' /\ HandlerTyped' /\ ReaderTyped' /\ TesterTyped' /\ HistoryTyped' /\ TesterOk'
    BY <1>0, <1>1 DEF WorkerTake, TablesTyped, StatTyped, HandlerTyped, ReaderTyped, TesterTyped, HistoryTyped, TesterOk
  <2> QED
    BY <2>1, <2>3, <2>4, <2>5 DEF Typed, TypeOK
<1>2. CASE PrintOk
  <2>1. WorkerTyped'
    BY <1>0, <1>2 DEF PrintOk, WorkerTyped, HistoryTyped, Outcomes
  <2>2. HistoryTyped'
    BY <1>0, <1>2 DEF PrintOk, HistoryTyped, WorkerTyped
  <2>3. WorkerOk'
    BY <1>0, <1>2 DEF PrintOk, WorkerOk, WorkerTyped, Outcomes
  <2>4. QueueTyped' /\ TablesTyped' /\ StatTyped' /\ HandlerTyped' /\ ReaderTyped' /\ TesterTyped' /\ TesterOk'
    BY <1>0, <1>2 DEF PrintOk, QueueTyped, TablesTyped, StatTyped, HandlerTyped, ReaderTyped, TesterTyped, TesterOk
  <2> QED
    BY <2>1, <2>2, <2>3, <2>4 DEF Typed, TypeOK
<1>3. CASE PrintFail
  <2>1. WorkerTyped'
    <3>1. CASE worker.attempt < MaxRetries /\ worker' = [worker EXCEPT !.attempt = worker.attempt + 1]
      <4>1. worker.attempt + 1 \in 0..MaxRetries
        BY <1>0, <3>1 DEF WorkerTyped
      <4> QED
        BY <1>0, <3>1, <4>1 DEF WorkerTyped
    <3>2. CASE worker' = [worker EXCEPT !.pc = "report", !.outcome = "failed"]
      BY <1>0, <3>2 DEF WorkerTyped, Outcomes
    <3> QED
      BY <1>3, <3>1, <3>2 DEF PrintFail
  <2>2. WorkerOk'
    BY <1>0, <1>3 DEF PrintFail, WorkerOk, WorkerTyped, Outcomes
  <2>3. QueueTyped' /\ TablesTyped' /\ StatTyped' /\ HandlerTyped' /\ ReaderTyped' /\ TesterTyped' /\ HistoryTyped' /\ TesterOk'
    BY <1>0, <1>3 DEF PrintFail, QueueTyped, TablesTyped, StatTyped, HandlerTyped, ReaderTyped, TesterTyped, HistoryTyped, TesterOk
  <2> QED
    BY <2>1, <2>2, <2>3 DEF Typed, TypeOK
<1>4. CASE WorkerReport
  <2>1. WorkerTyped'
    BY <1>0, <1>4 DEF WorkerReport, WorkerTyped
  <2>2. HistoryTyped'
    BY <1>0, <1>4 DEF WorkerReport, HistoryTyped, Handed, WorkerTyped, WorkerOk
  <2>3. WorkerOk'
    BY <1>0, <1>4 DEF WorkerReport, WorkerOk, WorkerTyped
  <2>4. QueueTyped' /\ TablesTyped' /\ StatTyped' /\ HandlerTyped' /\ ReaderTyped' /\ TesterTyped' /\ TesterOk'
    BY <1>0, <1>4 DEF WorkerReport, QueueTyped, TablesTyped, StatTyped, HandlerTyped, ReaderTyped, TesterTyped, TesterOk
  <2> QED
    BY <2>1, <2>2, <2>3, <2>4 DEF Typed, TypeOK
<1>5. CASE WorkerApiReport
  <2>1. WorkerTyped'
    BY <1>0, <1>5 DEF WorkerApiReport, WorkerTyped, HistoryTyped
  <2>2. WorkerOk'
    BY <1>0, <1>5 DEF WorkerApiReport, WorkerOk, WorkerTyped
  <2>3. QueueTyped' /\ TablesTyped' /\ StatTyped' /\ HandlerTyped' /\ ReaderTyped' /\ TesterTyped' /\ HistoryTyped' /\ TesterOk'
    BY <1>0, <1>5 DEF WorkerApiReport, QueueTyped, TablesTyped, StatTyped, HandlerTyped, ReaderTyped, TesterTyped, HistoryTyped, TesterOk
  <2> QED
    BY <2>1, <2>2, <2>3 DEF Typed, TypeOK
<1>6. CASE WorkerSettle
  <2>1. TablesTyped'
    BY <1>0, <1>6, RememberEffect DEF WorkerSettle, TablesTyped, Unmarked, WorkerTyped, WorkerOk, Entry
  <2>2. StatTyped'
    <3> DEFINE word == IF worker.outcome = "printed" THEN "success" ELSE "failed"
               m == stat.successfulPrints + (IF worker.outcome = "printed" THEN 1 ELSE 0)
               n == stat.failedPrints + (IF worker.outcome = "failed" THEN 1 ELSE 0)
    <3>1. m \in Nat /\ n \in Nat
      BY <1>0 DEF StatTyped
    <3>2. word \in Outcomes \union {"idle", "queued", "success"}
      BY DEF Outcomes
    <3>3. stat' = [stat EXCEPT !.lastJobID = worker.id, !.lastPrintStatus = word,
                               !.successfulPrints = m, !.failedPrints = n]
      BY <1>6 DEF WorkerSettle
    <3>4. worker.id \in JobIds /\ wsReporter' = wsReporter
      BY <1>0, <1>6 DEF WorkerTyped, WorkerSettle
    <3> HIDE DEF word, m, n
    <3> QED
      BY <1>0, <3>1, <3>2, <3>3, <3>4, StatUpdate
  <2>3. WorkerTyped'
    BY <1>0, <1>6 DEF WorkerSettle, WorkerTyped, IdleWorker
  <2>4. WorkerOk'
    BY <1>0, <1>6 DEF WorkerSettle, WorkerOk, IdleWorker
  <2>5. QueueTyped' /\ HandlerTyped' /\ ReaderTyped' /\ TesterTyped' /\ HistoryTyped' /\ TesterOk'
    BY <1>0, <1>6 DEF WorkerSettle, QueueTyped, HandlerTyped, ReaderTyped, TesterTyped, HistoryTyped, TesterOk
  <2> QED
    BY <2>1, <2>2, <2>3, <2>4, <2>5 DEF Typed, TypeOK
<1> QED
  BY <1>1, <1>2, <1>3, <1>4, <1>5, <1>6

LEMMA TestStepTyped ==
    ASSUME Typed, NEW u \in Testers, 
           TestStart(u) \/ TestPrint(u) \/ TestRecord(u) \/ TestReport(u)
    PROVE  Typed'
<1> USE DEF memory, actors, history, bounds
<1> USE ConstantTypes
<1>0. QueueTyped /\ TablesTyped /\ StatTyped /\ HandlerTyped /\ ReaderTyped /\ WorkerTyped /\ TesterTyped /\ HistoryTyped /\ WorkerOk /\ TesterOk
  BY DEF Typed, TypeOK
<1>1. CASE TestStart(u)
  <2>1. PICK i \in TestIds, remote \in BOOLEAN :
          tester' = [tester EXCEPT ![u] = [IdleTester EXCEPT !.pc = "print", !.id = i,
                                               !.at = clock, !.remote = remote]]
    BY <1>1 DEF TestStart
  <2>2. TesterTyped'
    BY <1>0, <2>1 DEF TesterTyped, IdleTester, HistoryTyped
  <2>3. TesterOk'
    BY <1>0, <2>1 DEF TesterOk, TesterTyped, IdleTester
  <2>4. HistoryTyped'
    <3>1. requests' = requests + 1 /\ begun' = begun + 1
          /\ UNCHANGED <<clock, restarts, prints, told, promised>>
      BY <1>1 DEF TestStart, NewRequest
    <3> QED
      BY <1>0, <3>1 DEF HistoryTyped
  <2>5. QueueTyped' /\ TablesTyped' /\ StatTyped' /\ HandlerTyped' /\ ReaderTyped' /\ WorkerTyped' /\ WorkerOk'
    BY <1>0, <1>1 DEF TestStart, QueueTyped, TablesTyped, StatTyped, HandlerTyped, ReaderTyped, WorkerTyped, WorkerOk
  <2> QED
    BY <2>2, <2>3, <2>4, <2>5 DEF Typed, TypeOK
<1>2. CASE TestPrint(u)
  <2>0. PICK outcome \in Outcomes :
          /\ tester' = [tester EXCEPT ![u].pc = "record", ![u].outcome = outcome]
          /\ prints' = IF outcome = "failed" THEN prints
                       ELSE [prints EXCEPT ![tester[u].id] = @ + 1]
    BY <1>2 DEF TestPrint
  <2>1. TesterTyped'
    BY <1>0, <2>0 DEF TesterTyped
  <2>2. HistoryTyped'
    <3>1. prints' \in [JobIds -> Nat]
      BY <1>0, <2>0 DEF HistoryTyped, TesterTyped
    <3> QED
      BY <1>0, <1>2, <3>1 DEF TestPrint, HistoryTyped
  <2>3. TesterOk'
    BY <1>0, <2>0 DEF TesterOk, TesterTyped
  <2>4. QueueTyped' /\ TablesTyped' /\ StatTyped' /\ HandlerTyped' /\ ReaderTyped' /\ WorkerTyped' /\ WorkerOk'
    BY <1>0, <1>2 DEF TestPrint, QueueTyped, TablesTyped, StatTyped, HandlerTyped, ReaderTyped, WorkerTyped, WorkerOk
  <2> QED
    BY <2>1, <2>2, <2>3, <2>4 DEF Typed, TypeOK
<1>3. CASE TestRecord(u)
  <2>1. TablesTyped'
    BY <1>0, <1>3, RememberEffect DEF TestRecord, TablesTyped, TesterTyped, TesterOk, Entry
  <2>2. StatTyped'
    <3> DEFINE word == IF tester[u].outcome = "printed" /\ ~tester[u].remote
                       THEN "success" ELSE tester[u].outcome
               m == stat.successfulPrints + (IF tester[u].outcome = "printed" THEN 1 ELSE 0)
               n == stat.failedPrints + (IF tester[u].outcome = "failed" THEN 1 ELSE 0)
    <3>1. m \in Nat /\ n \in Nat
      BY <1>0 DEF StatTyped
    <3>2. word \in Outcomes \union {"idle", "queued", "success"}
      BY <1>0, <1>3 DEF TestRecord, TesterOk
    <3>3. stat' = [stat EXCEPT !.lastPrintStatus = word,
                               !.successfulPrints = m, !.failedPrints = n]
      BY <1>3 DEF TestRecord
    <3>4. wsReporter' = wsReporter
      BY <1>3 DEF TestRecord
    <3> HIDE DEF word, m, n
    <3> QED
      BY <1>0, <3>1, <3>2, <3>3, <3>4 DEF StatTyped
  <2>3. TesterTyped'
    BY <1>0, <1>3 DEF TestRecord, TesterTyped, IdleTester
  <2>4. TesterOk'
    BY <1>0, <1>3 DEF TestRecord, TesterOk, TesterTyped, IdleTester
  <2>5. QueueTyped' /\ HandlerTyped' /\ ReaderTyped' /\ WorkerTyped' /\ HistoryTyped' /\ WorkerOk'
    BY <1>0, <1>3 DEF TestRecord, QueueTyped, HandlerTyped, ReaderTyped, WorkerTyped, HistoryTyped, WorkerOk
  <2> QED
    BY <2>1, <2>2, <2>3, <2>4, <2>5 DEF Typed, TypeOK
<1>4. CASE TestReport(u)
  <2>1. TesterTyped'
    BY <1>0, <1>4 DEF TestReport, TesterTyped, IdleTester
  <2>2. HistoryTyped'
    BY <1>0, <1>4 DEF TestReport, HistoryTyped, Handed, TesterTyped, TesterOk
  <2>3. TesterOk'
    BY <1>0, <1>4 DEF TestReport, TesterOk, TesterTyped, IdleTester
  <2>4. QueueTyped' /\ TablesTyped' /\ StatTyped' /\ HandlerTyped' /\ ReaderTyped' /\ WorkerTyped' /\ WorkerOk'
    BY <1>0, <1>4 DEF TestReport, QueueTyped, TablesTyped, StatTyped, HandlerTyped, ReaderTyped, WorkerTyped, WorkerOk
  <2> QED
    BY <2>1, <2>2, <2>3, <2>4 DEF Typed, TypeOK
<1> QED
  BY <1>1, <1>2, <1>3, <1>4

LEMMA OtherStepTyped ==
    ASSUME Typed, 
           SetWSReporter \/ Tick \/ Restart
    PROVE  Typed'
<1> USE DEF memory, actors, history, bounds
<1> USE ConstantTypes
<1>0. QueueTyped /\ TablesTyped /\ StatTyped /\ HandlerTyped /\ ReaderTyped /\ WorkerTyped /\ TesterTyped /\ HistoryTyped /\ WorkerOk /\ TesterOk
  BY DEF Typed, TypeOK
<1>1. CASE SetWSReporter
  <2>1. StatTyped'
    BY <1>0, <1>1 DEF SetWSReporter, StatTyped
  <2>2. QueueTyped' /\ TablesTyped' /\ HandlerTyped' /\ ReaderTyped' /\ WorkerTyped' /\ TesterTyped' /\ HistoryTyped' /\ WorkerOk' /\ TesterOk'
    BY <1>0, <1>1 DEF SetWSReporter, QueueTyped, TablesTyped, HandlerTyped, ReaderTyped, WorkerTyped, TesterTyped, HistoryTyped, WorkerOk, TesterOk
  <2> QED
    BY <2>1, <2>2 DEF Typed, TypeOK
<1>2. CASE Tick
  <2>1. HistoryTyped'
    BY <1>0, <1>2 DEF Tick, HistoryTyped
  <2>2. QueueTyped' /\ TablesTyped' /\ StatTyped' /\ HandlerTyped' /\ ReaderTyped' /\ WorkerTyped' /\ TesterTyped' /\ WorkerOk' /\ TesterOk'
    BY <1>0, <1>2 DEF Tick, QueueTyped, TablesTyped, StatTyped, HandlerTyped, ReaderTyped, WorkerTyped, TesterTyped, WorkerOk, TesterOk
  <2> QED
    BY <2>1, <2>2 DEF Typed, TypeOK
<1>3. CASE Restart
  <2>1. QueueTyped'
    BY <1>0, <1>3 DEF Restart, QueueTyped
  <2>2. TablesTyped'
    BY <1>0, <1>3 DEF Restart, TablesTyped, NotRemembered
  <2>3. StatTyped'
    BY <1>0, <1>3 DEF Restart, StatTyped
  <2>4. HandlerTyped'
    BY <1>0, <1>3 DEF Restart, HandlerTyped, IdleHandler
  <2>5. ReaderTyped'
    BY <1>0, <1>3 DEF Restart, ReaderTyped, IdleHandler
  <2>6. WorkerTyped'
    BY <1>0, <1>3 DEF Restart, WorkerTyped, IdleWorker
  <2>7. TesterTyped'
    BY <1>0, <1>3 DEF Restart, TesterTyped, IdleTester
  <2>8. HistoryTyped'
    BY <1>0, <1>3 DEF Restart, HistoryTyped
  <2>9. WorkerOk'
    BY <1>0, <1>3 DEF Restart, WorkerOk, IdleWorker
  <2>10. TesterOk'
    BY <1>0, <1>3 DEF Restart, TesterOk, IdleTester
  <2> QED
    BY <2>1, <2>2, <2>3, <2>4, <2>5, <2>6, <2>7, <2>8, <2>9, <2>10 DEF Typed, TypeOK
<1> QED
  BY <1>1, <1>2, <1>3

-----------------------------------------------------------------------------
(* Next, one step per goroutine, for the theorems that follow. *)

LEMMA StepTyped == Typed /\ [Next]_vars => Typed'
<1> SUFFICES ASSUME Typed, [Next]_vars PROVE Typed'
  OBVIOUS
<1>1. CASE \E h \in Handlers : HttpCheck(h) \/ HttpStep(h)
  BY <1>1, HandlerStepTyped DEF HttpStep
<1>2. CASE RemoteRegister \/ RemoteReject \/ ReaderStep
  BY <1>2, ReaderStepTyped DEF ReaderStep
<1>3. CASE WorkerStep
  BY <1>3, WorkerStepTyped DEF WorkerStep
<1>4. CASE \E u \in Testers : TestStart(u) \/ TestStep(u)
  BY <1>4, TestStepTyped DEF TestStep
<1>5. CASE SetWSReporter \/ Tick \/ Restart
  BY <1>5, OtherStepTyped
<1>6. CASE UNCHANGED vars
  BY <1>6 DEF vars, memory, actors, history, bounds, Typed, TypeOK, QueueTyped, TablesTyped,
     StatTyped, HandlerTyped, ReaderTyped, WorkerTyped, TesterTyped, HistoryTyped,
     WorkerOk, TesterOk
<1> QED
  BY <1>1, <1>2, <1>3, <1>4, <1>5, <1>6 DEF Next, Exhausted

\* Every reachable state is well typed, whatever the sizes and the number of
\* concurrent handlers and test prints (server.go:39-52).
THEOREM TypeCorrect == Safety => []TypeOK
<1>1. Init => Typed
  BY InitTyped
<1>2. Typed /\ [Next]_vars => Typed'
  BY StepTyped
<1>3. Typed => TypeOK
  BY DEF Typed
<1> QED
  BY <1>1, <1>2, <1>3, PTL DEF Safety
-----------------------------------------------------------------------------
(* Single flight of the gateway's own jobs.                                 *)
(*                                                                          *)
(* SingleFlight is not inductive alone: an HTTP handler about to register a *)
(* gateway job, or a test print about to record one, would break it.  The   *)
(* handlers and the testers only ever hold ids of their own.                *)

Foreign ==
    /\ \A h \in Handlers : handler[h].pc # "idle" => handler[h].id \in Trimmed
    /\ \A u \in Testers : tester[u].pc # "idle" => tester[u].id \in TestIds

Single(i) == OneCopy(i) /\ (InFlight(i) => i \in processing /\ ~Remembered(i))

IInv == Typed /\ Foreign /\ SingleFlight /\ NoOrphanMark

LEMMA SingleFlightSplit == SingleFlight <=> \A i \in RemoteOnly : Single(i)
BY DEF SingleFlight, Single

LEMMA RemoteOnlyIds ==
    \A i \in RemoteOnly : i \in JobIds /\ i # Blank /\ i \notin Trimmed /\ i \notin TestIds
BY IdAssumption DEF RemoteOnly

\* No HTTP handler carries a gateway job.
LEMMA NotAtHandler ==
    ASSUME Foreign, NEW i \in RemoteOnly
    PROVE  \A h \in Handlers : ~AtHandler(h, i)
BY RemoteOnlyIds DEF Foreign, AtHandler

LEMMA NotAtHandlerNext ==
    ASSUME Foreign', NEW i \in RemoteOnly
    PROVE  \A h \in Handlers : ~AtHandler(h, i)'
BY RemoteOnlyIds DEF Foreign, AtHandler

LEMMA InitIInv == Init => IInv
<1> SUFFICES ASSUME Init PROVE IInv
  OBVIOUS
<1>1. Typed
  BY InitTyped
<1>2. Foreign
  BY DEF Init, Foreign, IdleHandler, IdleTester
<1>3. SingleFlight
  BY DEF Init, SingleFlight, OneCopy, InFlight, InQueue, AtReader, AtWorker, AtHandler,
     IdleHandler, IdleWorker
<1>4. NoOrphanMark
  BY DEF Init, NoOrphanMark
<1> QED
  BY <1>1, <1>2, <1>3, <1>4 DEF IInv

\* Handlers and testers keep to their own ids.
LEMMA StepForeign == Typed /\ Foreign /\ [Next]_vars => Foreign'
<1> SUFFICES ASSUME Typed, Foreign, [Next]_vars PROVE Foreign'
  OBVIOUS
<1> USE DEF memory, actors, history, bounds, IdleHandler, IdleTester
<1>0. HandlerTyped /\ TesterTyped
  BY DEF Typed, TypeOK
<1>1. ASSUME NEW h \in Handlers, HttpCheck(h) PROVE Foreign'
  BY <1>0, <1>1 DEF HttpCheck, Foreign, HandlerTyped
<1>2. ASSUME NEW h \in Handlers, HttpStep(h) PROVE Foreign'
  BY <1>0, <1>2 DEF HttpStep, HttpRegister, HttpEnqueue, HttpRollback, Foreign, HandlerTyped
<1>3. ASSUME NEW u \in Testers, TestStart(u) PROVE Foreign'
  BY <1>0, <1>3 DEF TestStart, Foreign, TesterTyped
<1>4. ASSUME NEW u \in Testers, TestStep(u) PROVE Foreign'
  BY <1>0, <1>4 DEF TestStep, TestPrint, TestRecord, TestReport, Foreign, TesterTyped
<1>5. CASE Restart
  BY <1>5 DEF Restart, Foreign
<1>6. CASE RemoteRegister \/ RemoteReject \/ ReaderStep \/ WorkerStep \/ SetWSReporter \/ Tick
  BY <1>6 DEF RemoteRegister, RemoteReject, ReaderStep, RemoteEnqueue, RemoteRollback,
     RemoteReportRefusal, WorkerStep, WorkerTake, PrintOk, PrintFail, WorkerReport,
     WorkerApiReport, WorkerSettle, SetWSReporter, Tick, Foreign
<1>7. CASE UNCHANGED vars
  BY <1>7 DEF vars, Foreign
<1> QED
  BY <1>1, <1>2, <1>3, <1>4, <1>5, <1>6, <1>7 DEF Next, Exhausted

\* A step that leaves the channel alone and brings no new copy of job i
\* keeps it single, if it neither clears its mark nor remembers it.
LEMMA KeepSingle ==
    ASSUME NEW i \in RemoteOnly, Foreign, Foreign', Single(i), ticketQ' = ticketQ,
           AtReader(i)' => AtReader(i), AtWorker(i)' => AtWorker(i),
           InFlight(i)' /\ i \in processing => i \in processing',
           InFlight(i)' /\ Remembered(i)' => Remembered(i)
    PROVE  Single(i)'
<1>1. InFlight(i)' => InFlight(i)
  BY NotAtHandlerNext DEF InFlight, InQueue
<1>2. OneCopy(i)'
  BY DEF Single, OneCopy, InQueue
<1> QED
  BY <1>1, <1>2 DEF Single

LEMMA AppendQueue ==
    ASSUME QueueTyped, NEW e \in JobIds, ticketQ' = Append(ticketQ, e)
    PROVE  /\ Len(ticketQ') = Len(ticketQ) + 1 /\ Len(ticketQ) \in Nat
           /\ \A k \in 1..Len(ticketQ') :
                  ticketQ'[k] = IF k = Len(ticketQ) + 1 THEN e ELSE ticketQ[k]
BY DEF QueueTyped

LEMMA TailQueue ==
    ASSUME QueueTyped, ticketQ # <<>>, ticketQ' = Tail(ticketQ)
    PROVE  /\ Len(ticketQ') = Len(ticketQ) - 1 /\ Len(ticketQ) \in Nat \ {0}
           /\ \A k \in 1..Len(ticketQ') : ticketQ'[k] = ticketQ[k + 1]
           /\ Head(ticketQ) = ticketQ[1]
BY DEF QueueTyped
\* The steps of POST /print/ticket: they register, queue and take back ids
\* that are not the gateway's.
LEMMA HandlerStepSingle ==
    ASSUME NEW i \in RemoteOnly, Typed, Foreign, Foreign', Single(i), NEW h \in Handlers,
           HttpCheck(h) \/ HttpStep(h)
    PROVE  Single(i)'
<1> USE DEF memory, history, bounds
<1>0. QueueTyped /\ HandlerTyped
  BY DEF Typed, TypeOK
<1>1. CASE HttpCheck(h)
  BY <1>1, KeepSingle DEF HttpCheck, AtReader, AtWorker, Remembered
<1>2. CASE HttpRegister(h)
  BY <1>2, KeepSingle DEF HttpRegister, Register, AtReader, AtWorker, Remembered
<1>3. CASE HttpRollback(h)
  <2>1. handler[h].id # i
    BY <1>3, RemoteOnlyIds DEF HttpRollback, Foreign
  <2> QED
    BY <1>3, <2>1, KeepSingle DEF HttpRollback, TakeBack, Unmarked, AtReader, AtWorker, Remembered
<1>4. CASE HttpEnqueue(h)
  <2>1. handler[h].id # i /\ handler[h].id \in JobIds
    BY <1>0, <1>4, RemoteOnlyIds DEF HttpEnqueue, Foreign, HandlerTyped
  <2>2. UNCHANGED <<processing, processed, reader, worker>>
    BY <1>4 DEF HttpEnqueue
  <2>3. CASE ticketQ' = ticketQ
    BY <2>2, <2>3, KeepSingle DEF AtReader, AtWorker, Remembered
  <2>4. CASE ticketQ' = Append(ticketQ, handler[h].id)
    <3>1. /\ Len(ticketQ') = Len(ticketQ) + 1 /\ Len(ticketQ) \in Nat
          /\ \A k \in 1..Len(ticketQ') :
                 ticketQ'[k] = IF k = Len(ticketQ) + 1 THEN handler[h].id ELSE ticketQ[k]
      BY <1>0, <2>1, <2>4, AppendQueue
    <3>2. \A k \in 1..Len(ticketQ') : ticketQ'[k] = i => k \in 1..Len(ticketQ) /\ ticketQ[k] = i
      BY <2>1, <3>1
    <3>3. OneCopy(i)'
      BY <2>2, <3>2 DEF Single, OneCopy, InQueue, AtReader, AtWorker
    <3>4. InFlight(i)' => InFlight(i)
      BY <2>2, <3>2, NotAtHandlerNext DEF InFlight, InQueue, AtReader, AtWorker
    <3> QED
      BY <2>2, <3>3, <3>4 DEF Single, Remembered
  <2> QED
    BY <1>4, <2>3, <2>4 DEF HttpEnqueue
<1> QED
  BY <1>1, <1>2, <1>3, <1>4 DEF HttpStep

\* The steps of EnqueueRemoteJob.
LEMMA ReaderStepSingle ==
    ASSUME NEW i \in RemoteOnly, Typed, Foreign, Foreign', Single(i),
           RemoteRegister \/ RemoteReject \/ ReaderStep
    PROVE  Single(i)'
<1> USE DEF memory, history, bounds
<1>0. QueueTyped /\ ReaderTyped /\ TablesTyped
  BY DEF Typed, TypeOK
<1>1. CASE RemoteRegister
  <2>1. /\ UNCHANGED <<ticketQ, processed, worker>> /\ reader.pc = "idle"
        /\ \E e \in RemoteIds :
              \/ reader' = [pc |-> "refuse", id |-> e] /\ processing' = processing
              \/ /\ ~Duplicate(e)
                 /\ processing' = processing \union ({e} \ {Blank})
                 /\ reader' = [pc |-> "enqueue", id |-> e]
    BY <1>1 DEF RemoteRegister, Register
  <2>2. CASE AtReader(i)'
    <3>1. ~Duplicate(i) /\ i \in processing'
      BY <2>1, <2>2, RemoteOnlyIds DEF AtReader
    <3>2. ~InQueue(i) /\ ~AtWorker(i) /\ ~Remembered(i)
      BY <3>1 DEF Single, InFlight, Duplicate
    <3>3. ~InQueue(i)' /\ ~AtWorker(i)' /\ ~Remembered(i)'
      BY <2>1, <3>2 DEF InQueue, AtWorker, Remembered
    <3>4. OneCopy(i)'
      BY <2>1, <3>3 DEF Single, OneCopy, InQueue
    <3> QED
      BY <3>1, <3>3, <3>4 DEF Single
  <2>3. CASE ~AtReader(i)'
    BY <2>1, <2>3, KeepSingle DEF AtWorker, Remembered
  <2> QED
    BY <2>2, <2>3
<1>2. CASE RemoteReject
  BY <1>2, KeepSingle DEF RemoteReject, AtReader, AtWorker, Remembered
<1>3. CASE RemoteReportRefusal
  BY <1>3, KeepSingle DEF RemoteReportRefusal, IdleHandler, AtReader, AtWorker, Remembered
<1>4. CASE RemoteRollback
  <2>1. /\ UNCHANGED <<ticketQ, processed, worker>>
        /\ reader.pc = "rollback" /\ reader' = [reader EXCEPT !.pc = "refuse"]
        /\ processing' = processing \ {reader.id}
    BY <1>4 DEF RemoteRollback, TakeBack, Unmarked
  <2>2. ~AtReader(i)'
    BY <1>0, <2>1 DEF AtReader, ReaderTyped
  <2>3. reader.id = i => ~InFlight(i)'
    BY <2>1, <2>2, NotAtHandlerNext DEF Single, OneCopy, AtReader, InFlight, InQueue, AtWorker
  <2> QED
    BY <2>1, <2>2, <2>3, KeepSingle DEF AtWorker, Remembered
<1>5. CASE RemoteEnqueue
  <2>1. /\ UNCHANGED <<processing, processed, worker>>
        /\ reader.pc = "enqueue" /\ reader.id \in JobIds
        /\ \/ ticketQ' = Append(ticketQ, reader.id) /\ reader' = IdleHandler
           \/ ticketQ' = ticketQ /\ reader' = [reader EXCEPT !.pc = "rollback"]
    BY <1>0, <1>5 DEF RemoteEnqueue, ReaderTyped
  <2>2. CASE ticketQ' = ticketQ /\ reader' = [reader EXCEPT !.pc = "rollback"]
    <3>1. AtReader(i)' => AtReader(i)
      BY <1>0, <2>1, <2>2 DEF AtReader, ReaderTyped
    <3> QED
      BY <2>1, <2>2, <3>1, KeepSingle DEF AtWorker, Remembered
  <2>3. CASE ticketQ' = Append(ticketQ, reader.id) /\ reader' = IdleHandler
    <3>1. /\ Len(ticketQ') = Len(ticketQ) + 1 /\ Len(ticketQ) \in Nat
          /\ \A k \in 1..Len(ticketQ') :
                 ticketQ'[k] = IF k = Len(ticketQ) + 1 THEN reader.id ELSE ticketQ[k]
      BY <1>0, <2>1, <2>3, AppendQueue
    <3>2. ~AtReader(i)' /\ (AtWorker(i)' <=> AtWorker(i))
      BY <2>1, <2>3 DEF AtReader, AtWorker, IdleHandler
    <3>3. CASE reader.id = i
      <4>1. AtReader(i) /\ ~InQueue(i) /\ ~AtWorker(i) /\ i \in processing /\ ~Remembered(i)
        BY <2>1, <3>3 DEF AtReader, Single, OneCopy, InFlight
      <4>2. \A k \in 1..Len(ticketQ') : ticketQ'[k] = i => k = Len(ticketQ) + 1
        BY <3>1, <4>1 DEF InQueue
      <4>3. OneCopy(i)'
        BY <3>2, <4>1, <4>2 DEF OneCopy
      <4> QED
        BY <2>1, <4>1, <4>3 DEF Single, Remembered
    <3>4. CASE reader.id # i
      <4>1. \A k \in 1..Len(ticketQ') :
               ticketQ'[k] = i => k \in 1..Len(ticketQ) /\ ticketQ[k] = i
        BY <3>1, <3>4
      <4>2. OneCopy(i)'
        BY <3>2, <4>1 DEF Single, OneCopy, InQueue
      <4>3. InFlight(i)' => InFlight(i)
        BY <3>2, <4>1, NotAtHandlerNext DEF InFlight, InQueue
      <4> QED
        BY <2>1, <4>2, <4>3 DEF Single, Remembered
    <3> QED
      BY <3>3, <3>4
  <2> QED
    BY <2>1, <2>2, <2>3
<1> QED
  BY <1>1, <1>2, <1>3, <1>4, <1>5 DEF ReaderStep

\* The steps of the worker: it takes the only copy there is, and gives up the
\* mark in the same critical section in which the job becomes remembered.
LEMMA WorkerStepSingle ==
    ASSUME NEW i \in RemoteOnly, Typed, Foreign, Foreign', Single(i), WorkerStep
    PROVE  Single(i)'
<1> USE DEF memory, history, bounds
<1>0. QueueTyped /\ WorkerTyped /\ TablesTyped /\ WorkerOk
  BY DEF Typed, TypeOK
<1>1. CASE WorkerTake
  <2>1. /\ UNCHANGED <<processing, processed, reader>>
        /\ worker.pc = "idle" /\ ticketQ # <<>> /\ ticketQ' = Tail(ticketQ)
        /\ worker'.pc = "print" /\ worker'.id = Head(ticketQ)
    BY <1>1 DEF WorkerTake, IdleWorker
  <2>2. /\ Len(ticketQ') = Len(ticketQ) - 1 /\ Len(ticketQ) \in Nat \ {0}
        /\ \A k \in 1..Len(ticketQ') : ticketQ'[k] = ticketQ[k + 1]
        /\ Head(ticketQ) = ticketQ[1]
    BY <1>0, <2>1, TailQueue
  <2>3. \A k \in 1..Len(ticketQ') : k + 1 \in 1..Len(ticketQ) /\ k + 1 # 1
    BY <2>2
  <2>4. 1 \in 1..Len(ticketQ)
    BY <2>2
  <2>5. InQueue(i)' => InQueue(i)
    BY <2>2, <2>3 DEF InQueue
  <2>6. AtWorker(i)' => InQueue(i)
    BY <2>1, <2>2, <2>4 DEF AtWorker, InQueue
  <2>7. AtReader(i)' <=> AtReader(i)
    BY <2>1 DEF AtReader
  <2>8. AtWorker(i)' => ~InQueue(i)'
    BY <2>1, <2>2, <2>3, <2>4 DEF AtWorker, InQueue, Single, OneCopy
  <2>9. \A k, l \in 1..Len(ticketQ') : ticketQ'[k] = i /\ ticketQ'[l] = i => k = l
    <3> SUFFICES ASSUME NEW k \in 1..Len(ticketQ'), NEW l \in 1..Len(ticketQ'),
                        ticketQ'[k] = i, ticketQ'[l] = i
                 PROVE  k = l
      OBVIOUS
    <3>1. k + 1 = l + 1
      BY <2>2, <2>3 DEF Single, OneCopy
    <3> QED
      BY <3>1, <2>2
  <2>10. OneCopy(i)'
    BY <2>5, <2>6, <2>7, <2>8, <2>9 DEF OneCopy, Single
  <2>11. InFlight(i)' => InFlight(i)
    BY <2>5, <2>6, <2>7, NotAtHandlerNext DEF InFlight
  <2> QED
    BY <2>1, <2>10, <2>11 DEF Single, Remembered
<1>2. CASE PrintOk \/ PrintFail \/ WorkerReport \/ WorkerApiReport
  <2>1. /\ UNCHANGED <<ticketQ, processing, processed, reader>>
        /\ worker.pc # "idle" /\ worker'.id = worker.id
    BY <1>0, <1>2 DEF PrintOk, PrintFail, WorkerReport, WorkerApiReport, WorkerTyped
  <2> QED
    BY <2>1, KeepSingle DEF AtReader, AtWorker, Remembered
<1>3. CASE WorkerSettle
  <2>1. /\ UNCHANGED <<ticketQ, reader>> /\ worker.pc = "settle" /\ worker' = IdleWorker
        /\ processing' = processing \ {worker.id}
        /\ Remember(worker.id, worker.outcome, worker.at)
    BY <1>3 DEF WorkerSettle, Unmarked
  <2>2. worker.id \in JobIds /\ worker.outcome \in Outcomes /\ worker.at \in Nat
    BY <1>0, <2>1 DEF WorkerTyped, WorkerOk
  <2>3. processed \in [JobIds -> Entry]
    BY <1>0 DEF TablesTyped, Entry
  <2>4. worker.id # i /\ Remembered(i)' => Remembered(i)
    BY <2>1, <2>2, <2>3, RememberOthers, RemoteOnlyIds
  <2>5. ~AtWorker(i)'
    BY <2>1 DEF AtWorker, IdleWorker
  <2>6. worker.id = i => ~InFlight(i)'
    BY <2>1, <2>5, NotAtHandlerNext DEF Single, OneCopy, AtWorker, InFlight, InQueue, AtReader
  <2> QED
    BY <2>1, <2>4, <2>5, <2>6, KeepSingle DEF AtReader
<1> QED
  BY <1>1, <1>2, <1>3 DEF WorkerStep

\* The steps of a test print: what it records is not a gateway job.
LEMMA TestStepSingle ==
    ASSUME NEW i \in RemoteOnly, Typed, Foreign, Foreign', Single(i), NEW u \in Testers,
           TestStart(u) \/ TestStep(u)
    PROVE  Single(i)'
<1> USE DEF memory, history, bounds
<1>0. TesterTyped /\ TablesTyped /\ TesterOk
  BY DEF Typed, TypeOK
<1>1. CASE TestStart(u) \/ TestPrint(u) \/ TestReport(u)
  BY <1>1, KeepSingle DEF TestStart, TestPrint, TestReport, AtReader, AtWorker, Remembered
<1>2. CASE TestRecord(u)
  <2>1. /\ UNCHANGED <<ticketQ, processing, reader, worker>> /\ tester[u].pc = "record"
        /\ Remember(tester[u].id, tester[u].outcome, tester[u].at)
    BY <1>2 DEF TestRecord
  <2>2. /\ tester[u].id \in JobIds /\ tester[u].outcome \in Outcomes /\ tester[u].at \in Nat
        /\ tester[u].id # i
    BY <1>0, <2>1, RemoteOnlyIds DEF TesterTyped, TesterOk, Foreign
  <2>3. processed \in [JobIds -> Entry]
    BY <1>0 DEF TablesTyped, Entry
  <2>4. Remembered(i)' => Remembered(i)
    BY <2>1, <2>2, <2>3, RememberOthers, RemoteOnlyIds
  <2> QED
    BY <2>1, <2>4, KeepSingle DEF AtReader, AtWorker
<1> QED
  BY <1>1, <1>2 DEF TestStep
LEMMA StepSingle == IInv /\ [Next]_vars => SingleFlight'
<1> SUFFICES ASSUME IInv, [Next]_vars, NEW i \in RemoteOnly PROVE Single(i)'
  BY DEF SingleFlight, Single
<1>0. Typed /\ Foreign /\ Single(i) /\ Foreign'
  BY StepForeign DEF IInv, SingleFlight, Single
<1>1. CASE \E h \in Handlers : HttpCheck(h) \/ HttpStep(h)
  BY <1>0, <1>1, HandlerStepSingle
<1>2. CASE RemoteRegister \/ RemoteReject \/ ReaderStep
  BY <1>0, <1>2, ReaderStepSingle
<1>3. CASE WorkerStep
  BY <1>0, <1>3, WorkerStepSingle
<1>4. CASE \E u \in Testers : TestStart(u) \/ TestStep(u)
  BY <1>0, <1>4, TestStepSingle
<1>5. CASE SetWSReporter \/ Tick
  BY <1>0, <1>5, KeepSingle DEF SetWSReporter, Tick, memory, actors, AtReader, AtWorker, Remembered
<1>6. CASE Restart
  BY <1>6 DEF Restart, Single, OneCopy, InFlight, InQueue, AtReader, AtWorker, AtHandler,
     IdleHandler, IdleWorker
<1>7. CASE UNCHANGED vars
  BY <1>0, <1>7, KeepSingle DEF vars, memory, actors, AtReader, AtWorker, Remembered
<1> QED
  BY <1>1, <1>2, <1>3, <1>4, <1>5, <1>6, <1>7 DEF Next, Exhausted

-----------------------------------------------------------------------------
(* Marks never outlive the copies that will clear them.                     *)

\* A step that moves no copy of job i keeps it in flight.
LEMMA KeepFlight ==
    ASSUME NEW i, InFlight(i), InQueue(i) => InQueue(i)',
           AtReader(i) => AtReader(i)', AtWorker(i) => AtWorker(i)',
           \A h \in Handlers : AtHandler(h, i) => AtHandler(h, i)'
    PROVE  InFlight(i)'
BY DEF InFlight

\* Whatever is put into the channel, what was in it stays.
LEMMA AppendKeeps ==
    ASSUME QueueTyped, NEW e \in JobIds, ticketQ' = Append(ticketQ, e), NEW i
    PROVE  InQueue(i)' <=> InQueue(i) \/ i = e
<1>1. /\ Len(ticketQ') = Len(ticketQ) + 1 /\ Len(ticketQ) \in Nat
      /\ \A k \in 1..Len(ticketQ') :
             ticketQ'[k] = IF k = Len(ticketQ) + 1 THEN e ELSE ticketQ[k]
  BY AppendQueue
<1>2. Len(ticketQ) + 1 \in 1..Len(ticketQ')
  BY <1>1
<1>3. \A k \in 1..Len(ticketQ) : k \in 1..Len(ticketQ') /\ k # Len(ticketQ) + 1
  BY <1>1
<1>4. \A k \in 1..Len(ticketQ') : k = Len(ticketQ) + 1 \/ k \in 1..Len(ticketQ)
  BY <1>1
<1> QED
  BY <1>1, <1>2, <1>3, <1>4 DEF InQueue

\* Taking the head leaves the rest.
LEMMA TailKeeps ==
    ASSUME QueueTyped, ticketQ # <<>>, ticketQ' = Tail(ticketQ), NEW i, InQueue(i)
    PROVE  InQueue(i)' \/ i = Head(ticketQ)
<1>1. /\ Len(ticketQ') = Len(ticketQ) - 1 /\ Len(ticketQ) \in Nat \ {0}
      /\ \A k \in 1..Len(ticketQ') : ticketQ'[k] = ticketQ[k + 1]
      /\ Head(ticketQ) = ticketQ[1]
  BY TailQueue
<1>2. PICK k \in 1..Len(ticketQ) : ticketQ[k] = i
  BY DEF InQueue
<1>3. CASE k # 1
  <2>1. k - 1 \in 1..Len(ticketQ') /\ (k - 1) + 1 = k
    BY <1>1, <1>3
  <2> QED
    BY <1>1, <1>2, <2>1 DEF InQueue
<1> QED
  BY <1>1, <1>2, <1>3

\* A job leaves the pipeline by a rollback, by the worker settling it or by the
\* end of the process; no other step loses it.
LEMMA FlightLasts ==
    ASSUME Typed, [Next]_vars, NEW i, InFlight(i)
    PROVE  InFlight(i)' \/ (\E h \in Handlers : HttpRollback(h)) \/ RemoteRollback
             \/ WorkerSettle \/ Restart
<1> USE DEF memory, actors, history, bounds
<1>0. QueueTyped /\ HandlerTyped /\ ReaderTyped /\ WorkerTyped
  BY DEF Typed, TypeOK
<1>1. ASSUME NEW h \in Handlers, HttpCheck(h) \/ HttpRegister(h) PROVE InFlight(i)'
  <2>1. /\ UNCHANGED <<ticketQ, reader, worker>>
        /\ handler[h].pc \in {"idle", "register"}
        /\ \A g \in Handlers \ {h} : handler'[g] = handler[g]
    BY <1>0, <1>1 DEF HttpCheck, HttpRegister, HandlerTyped
  <2> QED
    BY <2>1, KeepFlight DEF InQueue, AtReader, AtWorker, AtHandler
<1>2. ASSUME NEW h \in Handlers, HttpEnqueue(h) PROVE InFlight(i)'
  <2>1. UNCHANGED <<reader, worker>> /\ handler[h].id \in JobIds
    BY <1>0, <1>2 DEF HttpEnqueue, HandlerTyped
  <2>2. CASE ticketQ' = ticketQ /\ handler' = [handler EXCEPT ![h].pc = "rollback"]
    BY <1>0, <2>1, <2>2, KeepFlight DEF HandlerTyped, InQueue, AtReader, AtWorker, AtHandler
  <2>3. CASE ticketQ' = Append(ticketQ, handler[h].id)
             /\ handler' = [handler EXCEPT ![h] = IdleHandler]
    <3>1. InQueue(i)' <=> InQueue(i) \/ i = handler[h].id
      BY <1>0, <2>1, <2>3, AppendKeeps
    <3>2. CASE i = handler[h].id
      BY <3>1, <3>2 DEF InFlight
    <3>3. CASE i # handler[h].id
      BY <1>0, <2>1, <2>3, <3>1, <3>3, KeepFlight DEF HandlerTyped, AtReader, AtWorker, AtHandler
    <3> QED
      BY <3>2, <3>3
  <2> QED
    BY <1>2, <2>2, <2>3 DEF HttpEnqueue
<1>3. CASE RemoteRegister \/ RemoteReject \/ RemoteReportRefusal
  <2>1. UNCHANGED <<ticketQ, handler, worker>> /\ reader.pc \in {"idle", "refuse"}
    BY <1>3 DEF RemoteRegister, RemoteReject, RemoteReportRefusal
  <2> QED
    BY <2>1, KeepFlight DEF InQueue, AtReader, AtWorker, AtHandler
<1>4. CASE RemoteEnqueue
  <2>1. UNCHANGED <<handler, worker>> /\ reader.id \in JobIds
    BY <1>0, <1>4 DEF RemoteEnqueue, ReaderTyped
  <2>2. CASE ticketQ' = ticketQ /\ reader' = [reader EXCEPT !.pc = "rollback"]
    BY <1>0, <2>1, <2>2, KeepFlight DEF ReaderTyped, InQueue, AtReader, AtWorker, AtHandler
  <2>3. CASE ticketQ' = Append(ticketQ, reader.id)
    <3>1. InQueue(i)' <=> InQueue(i) \/ i = reader.id
      BY <1>0, <2>1, <2>3, AppendKeeps
    <3>2. CASE i = reader.id
      BY <3>1, <3>2 DEF InFlight
    <3>3. CASE i # reader.id
      BY <2>1, <3>1, <3>3, KeepFlight DEF AtReader, AtWorker, AtHandler
    <3> QED
      BY <3>2, <3>3
  <2> QED
    BY <1>4, <2>2, <2>3 DEF RemoteEnqueue
<1>5. CASE WorkerTake
  <2>1. /\ UNCHANGED <<handler, reader>> /\ worker.pc = "idle"
        /\ ticketQ # <<>> /\ ticketQ' = Tail(ticketQ)
        /\ worker'.pc = "print" /\ worker'.id = Head(ticketQ)
    BY <1>5 DEF WorkerTake, IdleWorker
  <2>2. InQueue(i) => InQueue(i)' \/ i = Head(ticketQ)
    BY <1>0, <2>1, TailKeeps
  <2>3. CASE i = Head(ticketQ)
    BY <2>1, <2>3 DEF InFlight, AtWorker
  <2>4. CASE i # Head(ticketQ)
    BY <2>1, <2>2, <2>4, KeepFlight DEF AtReader, AtWorker, AtHandler
  <2> QED
    BY <2>3, <2>4
<1>6. CASE PrintOk \/ PrintFail \/ WorkerReport \/ WorkerApiReport
  <2>1. /\ UNCHANGED <<ticketQ, handler, reader>>
        /\ worker'.pc # "idle" /\ worker'.id = worker.id
    BY <1>0, <1>6 DEF PrintOk, PrintFail, WorkerReport, WorkerApiReport, WorkerTyped
  <2> QED
    BY <2>1, KeepFlight DEF InQueue, AtReader, AtWorker, AtHandler
<1>7. ASSUME NEW u \in Testers, TestStart(u) \/ TestStep(u) PROVE InFlight(i)'
  BY <1>7, KeepFlight DEF TestStart, TestStep, TestPrint, TestRecord, TestReport,
     InQueue, AtReader, AtWorker, AtHandler
<1>8. CASE SetWSReporter \/ Tick \/ UNCHANGED vars
  BY <1>8, KeepFlight DEF SetWSReporter, Tick, vars, InQueue, AtReader, AtWorker, AtHandler
<1> QED
  BY <1>1, <1>2, <1>3, <1>4, <1>5, <1>6, <1>7, <1>8
     DEF Next, Exhausted, HttpStep, ReaderStep, WorkerStep

LEMMA StepNoOrphan == Typed /\ NoOrphanMark /\ [Next]_vars => NoOrphanMark'
<1> SUFFICES ASSUME Typed, NoOrphanMark, [Next]_vars, NEW i \in processing'
             PROVE  InFlight(i)'
  BY DEF NoOrphanMark
<1> USE DEF memory, actors, history, bounds
<1>0. /\ HandlerTyped /\ ReaderTyped /\ WorkerTyped
      /\ i \in processing => InFlight(i)
  BY DEF Typed, TypeOK, NoOrphanMark
<1>1. CASE i \notin processing
  <2>1. ASSUME NEW h \in Handlers, HttpRegister(h) PROVE InFlight(i)'
    BY <1>0, <1>1, <2>1 DEF HttpRegister, Register, HandlerTyped, InFlight, AtHandler
  <2>2. CASE RemoteRegister
    BY <1>1, <2>2 DEF RemoteRegister, Register, InFlight, AtReader
  <2>3. ASSUME NEW h \in Handlers, HttpCheck(h) \/ HttpEnqueue(h) \/ HttpRollback(h) PROVE FALSE
    BY <1>1, <2>3 DEF HttpCheck, HttpEnqueue, HttpRollback, TakeBack, Unmarked
  <2>4. CASE SetWSReporter \/ RemoteReject \/ ReaderStep \/ Tick \/ Restart \/ UNCHANGED vars
    BY <1>1, <2>4 DEF SetWSReporter, RemoteReject, ReaderStep, RemoteEnqueue, RemoteRollback,
       RemoteReportRefusal, TakeBack, Unmarked, Tick, Restart, vars
  <2>5. CASE WorkerStep
    BY <1>1, <2>5 DEF WorkerStep, WorkerTake, PrintOk, PrintFail, WorkerReport, WorkerApiReport,
       WorkerSettle, Unmarked
  <2>6. ASSUME NEW u \in Testers, TestStart(u) \/ TestStep(u) PROVE processing' = processing
    BY <2>6 DEF TestStart, TestStep, TestPrint, TestRecord, TestReport
  <2> QED
    BY <1>1, <2>1, <2>2, <2>3, <2>4, <2>5, <2>6 DEF Next, Exhausted, HttpStep
<1>2. CASE i \in processing
  <2>1. ASSUME NEW h \in Handlers, HttpRollback(h) PROVE InFlight(i)'
    <3>1. InFlight(i) /\ i # handler[h].id
      BY <1>0, <1>2, <2>1 DEF HttpRollback, TakeBack, Unmarked
    <3> QED
      BY <1>0, <2>1, <3>1, KeepFlight DEF HttpRollback, HandlerTyped, InQueue, AtReader,
         AtWorker, AtHandler
  <2>2. CASE RemoteRollback
    <3>1. InFlight(i) /\ i # reader.id
      BY <1>0, <1>2, <2>2 DEF RemoteRollback, TakeBack, Unmarked
    <3> QED
      BY <2>2, <3>1, KeepFlight DEF RemoteRollback, InQueue, AtReader, AtWorker, AtHandler
  <2>3. CASE WorkerSettle
    <3>1. InFlight(i) /\ i # worker.id
      BY <1>0, <1>2, <2>3 DEF WorkerSettle, Unmarked
    <3> QED
      BY <2>3, <3>1, KeepFlight DEF WorkerSettle, InQueue, AtReader, AtWorker, AtHandler
  <2>4. ~Restart
    BY DEF Restart
  <2> QED
    BY <1>0, <1>2, <2>1, <2>2, <2>3, <2>4, FlightLasts
<1> QED
  BY <1>1, <1>2

LEMMA StepIInv == IInv /\ [Next]_vars => IInv'
BY StepTyped, StepForeign, StepSingle, StepNoOrphan DEF IInv

\* However many HTTP handlers and test prints run beside them, the gateway's
\* own jobs are in one place at a time, marked and not remembered
\* (server.go:202-221, 593-602, 642-651).
THEOREM SingleFlightAlways == Safety => []SingleFlight
<1>1. Init => IInv
  BY InitIInv
<1>2. IInv /\ [Next]_vars => IInv'
  BY StepIInv
<1>3. IInv => SingleFlight
  BY DEF IInv
<1> QED
  BY <1>1, <1>2, <1>3, PTL DEF Safety
\* Whoever registered an id, and however many times, some copy of it is still
\* on its way while it is marked (server.go:228-231, 540-543, 594-595, 643-644).
THEOREM NoOrphanMarkAlways == Safety => []NoOrphanMark
<1>1. Init => IInv
  BY InitIInv
<1>2. IInv /\ [Next]_vars => IInv'
  BY StepIInv
<1>3. IInv => NoOrphanMark
  BY DEF IInv
<1> QED
  BY <1>1, <1>2, <1>3, PTL DEF Safety

\* /status says "queued" only of a job that somebody is going to finish: every
\* step that ends a job writes another word (server.go:210-220, 227-236, 521-551,
\* 603-611).
THEOREM QueuedIsLive == Safety => []QueuedStatusIsLive
<1>1. Init => QueuedStatusIsLive
  BY DEF Init, QueuedStatusIsLive
<1>2. Typed /\ QueuedStatusIsLive /\ [Next]_vars => QueuedStatusIsLive'
  <2> SUFFICES ASSUME Typed, QueuedStatusIsLive, [Next]_vars, stat'.lastPrintStatus = "queued",
                      NEW i, i = stat'.lastJobID
               PROVE  InFlight(i)'
    BY DEF QueuedStatusIsLive, InFlight, InQueue, AtReader, AtWorker, AtHandler
  <2> USE DEF memory, actors, history, bounds
  <2>0. StatTyped /\ HandlerTyped /\ WorkerTyped /\ TesterTyped /\ WorkerOk /\ TesterOk
    BY DEF Typed, TypeOK
  <2>1. ASSUME NEW h \in Handlers, HttpRegister(h) PROVE InFlight(i)'
    BY <2>0, <2>1 DEF HttpRegister, Register, StatTyped, HandlerTyped, InFlight, AtHandler
  <2>2. CASE RemoteRegister /\ stat' # stat
    <3>1. PICK j \in RemoteIds : Register(j) /\ reader' = [pc |-> "enqueue", id |-> j]
      BY <2>2 DEF RemoteRegister
    <3>2. i = j
      BY <2>0, <3>1 DEF Register, StatTyped
    <3> QED
      BY <3>1, <3>2 DEF InFlight, AtReader
  <2>3. ASSUME NEW h \in Handlers, HttpRollback(h) PROVE FALSE
    BY <2>0, <2>3 DEF HttpRollback, TakeBack, StatTyped
  <2>4. ~RemoteRollback
    BY <2>0 DEF RemoteRollback, TakeBack, StatTyped
  <2>5. ~WorkerSettle /\ ~Restart
    BY <2>0 DEF WorkerSettle, Restart, StatTyped
  <2>6. ASSUME NEW u \in Testers, TestRecord(u) PROVE FALSE
    BY <2>0, <2>6 DEF TestRecord, StatTyped, TesterOk, Outcomes
  <2>7. CASE stat' = stat
    <3>1. InFlight(i)
      BY <2>7 DEF QueuedStatusIsLive
    <3> QED
      BY <2>3, <2>4, <2>5, <3>1, FlightLasts
  <2>8. ASSUME NEW h \in Handlers, HttpCheck(h) \/ HttpEnqueue(h) PROVE stat' = stat
    BY <2>8 DEF HttpCheck, HttpEnqueue
  <2>9. CASE SetWSReporter \/ RemoteReject \/ RemoteEnqueue \/ RemoteReportRefusal \/ WorkerTake
             \/ PrintOk \/ PrintFail \/ WorkerReport \/ WorkerApiReport \/ Tick \/ UNCHANGED vars
    BY <2>7, <2>9 DEF SetWSReporter, RemoteReject, RemoteEnqueue, RemoteReportRefusal, WorkerTake,
       PrintOk, PrintFail, WorkerReport, WorkerApiReport, Tick, vars
  <2>10. ASSUME NEW u \in Testers, TestStart(u) \/ TestPrint(u) \/ TestReport(u) PROVE stat' = stat
    BY <2>10 DEF TestStart, TestPrint, TestReport
  <2> QED
    BY <2>1, <2>2, <2>3, <2>4, <2>5, <2>6, <2>7, <2>8, <2>9, <2>10
       DEF Next, Exhausted, HttpStep, ReaderStep, WorkerStep, TestStep
<1> QED
  BY <1>1, <1>2, InitTyped, StepTyped, PTL DEF Safety

\* Remembering trims: whatever was known before, at most MaxProcessedEntries
\* are known after, given that no more were known before a nameless job.
LEMMA RememberBounded ==
    ASSUME processed \in [JobIds -> Entry], ProcessedBounded,
           NEW i \in JobIds, NEW outcome \in Outcomes, NEW at \in Nat,
           Remember(i, outcome, at)
    PROVE  ProcessedBounded'
<1>1. CASE i = Blank
  BY <1>1 DEF Remember, ProcessedBounded, Remembered
<1>2. CASE i # Blank
  <2> DEFINE memo == [processed EXCEPT ![i] = [status |-> outcome, at |-> at]]
             known == {j \in JobIds : memo[j].status # "none"}
  <2>1. PICK gone \in SUBSET known :
            /\ Cardinality(known \ gone) = Kept(Cardinality(known))
            /\ processed' = Without(memo, gone)
    BY <1>2 DEF Remember, Evictions
  <2>2. {j \in JobIds : Remembered(j)'} = known \ gone
    BY <2>1 DEF Without, Remembered, NotRemembered
  <2>3. Cardinality(known) \in Nat
    BY FS_Subset, FS_CardinalityType, SizeAssumption
  <2>4. Kept(Cardinality(known)) =< MaxProcessedEntries
    BY <2>3, SizeAssumption DEF Kept
  <2> QED
    BY <2>1, <2>2, <2>4 DEF ProcessedBounded
<1> QED
  BY <1>1, <1>2

\* The memory of finished jobs stays within its bound, whoever adds to it and
\* however many ids there are (server.go:600, 649, 686-710).
THEOREM MemoryBounded == Safety => []ProcessedBounded
<1>1. Init => ProcessedBounded
  <2> SUFFICES ASSUME Init PROVE ProcessedBounded
    OBVIOUS
  <2>1. {i \in JobIds : Remembered(i)} = {}
    BY DEF Init, Remembered, NotRemembered
  <2> QED
    BY <2>1, FS_EmptySet, SizeAssumption DEF ProcessedBounded
<1>2. Typed /\ ProcessedBounded /\ [Next]_vars => ProcessedBounded'
  <2> SUFFICES ASSUME Typed, ProcessedBounded, [Next]_vars PROVE ProcessedBounded'
    OBVIOUS
  <2> USE DEF memory, actors, history, bounds
  <2>0. /\ processed \in [JobIds -> Entry] /\ WorkerTyped /\ TesterTyped
        /\ WorkerOk /\ TesterOk
    BY DEF Typed, TypeOK, TablesTyped, Entry
  <2>1. CASE processed' = processed
    BY <2>1 DEF ProcessedBounded, Remembered
  <2>2. CASE WorkerSettle
    <3>1. /\ Remember(worker.id, worker.outcome, worker.at)
          /\ worker.id \in JobIds /\ worker.outcome \in Outcomes /\ worker.at \in Nat
      BY <2>0, <2>2 DEF WorkerSettle, WorkerTyped, WorkerOk
    <3> QED
      BY <2>0, <3>1, RememberBounded
  <2>3. ASSUME NEW u \in Testers, TestRecord(u) PROVE ProcessedBounded'
    <3>1. /\ Remember(tester[u].id, tester[u].outcome, tester[u].at)
          /\ tester[u].id \in JobIds /\ tester[u].outcome \in Outcomes /\ tester[u].at \in Nat
      BY <2>0, <2>3 DEF TestRecord, TesterTyped, TesterOk
    <3> QED
      BY <2>0, <3>1, RememberBounded
  <2>4. CASE Restart
    <3>1. {i \in JobIds : Remembered(i)'} = {}
      BY <2>4 DEF Restart, Remembered, NotRemembered
    <3> QED
      BY <3>1, FS_EmptySet, SizeAssumption DEF ProcessedBounded
  <2>5. ASSUME NEW h \in Handlers, HttpCheck(h) \/ HttpStep(h) PROVE processed' = processed
    BY <2>5 DEF HttpCheck, HttpStep, HttpRegister, HttpEnqueue, HttpRollback
  <2>6. CASE \/ SetWSReporter \/ RemoteRegister \/ RemoteReject \/ ReaderStep
             \/ WorkerTake \/ PrintOk \/ PrintFail \/ WorkerReport \/ WorkerApiReport
             \/ Tick \/ UNCHANGED vars
    BY <2>1, <2>6 DEF SetWSReporter, RemoteRegister, RemoteReject, ReaderStep, RemoteEnqueue,
       RemoteRollback, RemoteReportRefusal, WorkerTake, PrintOk, PrintFail, WorkerReport,
       WorkerApiReport, Tick, vars
  <2>7. ASSUME NEW u \in Testers, TestStart(u) \/ TestPrint(u) \/ TestReport(u)
        PROVE processed' = processed
    BY <2>7 DEF TestStart, TestPrint, TestReport
  <2> QED
    BY <2>1, <2>2, <2>3, <2>4, <2>5, <2>6, <2>7 DEF Next, Exhausted, WorkerStep, TestStep
<1> QED
  BY <1>1, <1>2, InitTyped, StepTyped, PTL DEF Safety

-----------------------------------------------------------------------------
(* No second copy on paper while the first is remembered. *)

\* Only two steps put something on paper, and of the gateway's jobs only the
\* one the worker holds.
LEMMA StepPrints ==
    ASSUME IInv, [Next]_vars, NEW i \in RemoteOnly, prints'[i] # prints[i]
    PROVE  PrintOk /\ worker.id = i
<1>0. Typed /\ Foreign
  BY DEF IInv
<1>1. CASE PrintOk
  <2>1. prints \in [JobIds -> Nat] /\ worker.id \in JobIds
    BY <1>0 DEF Typed, TypeOK, HistoryTyped, WorkerTyped
  <2> QED
    BY <1>1, <2>1, RemoteOnlyIds DEF PrintOk
<1>2. ASSUME NEW u \in Testers, TestPrint(u) PROVE FALSE
  <2>1. prints \in [JobIds -> Nat] /\ tester[u].id \in TestIds
    BY <1>0, <1>2 DEF Typed, TypeOK, HistoryTyped, Foreign, TestPrint
  <2>2. tester[u].id # i
    BY <2>1, RemoteOnlyIds
  <2> QED
    BY <1>2, <2>1, <2>2, RemoteOnlyIds DEF TestPrint
<1>3. CASE \/ \E h \in Handlers : HttpCheck(h) \/ HttpStep(h)
           \/ SetWSReporter \/ RemoteRegister \/ RemoteReject \/ ReaderStep
  BY <1>3 DEF HttpCheck, HttpStep, HttpRegister, HttpEnqueue, HttpRollback, SetWSReporter,
     RemoteRegister, RemoteReject, ReaderStep, RemoteEnqueue, RemoteRollback,
     RemoteReportRefusal, history
<1>4. CASE WorkerTake \/ PrintFail \/ WorkerReport \/ WorkerApiReport \/ WorkerSettle
  BY <1>4 DEF WorkerTake, PrintFail, WorkerReport, WorkerApiReport, WorkerSettle, history
<1>5. ASSUME NEW u \in Testers, TestStart(u) \/ TestRecord(u) \/ TestReport(u) PROVE FALSE
  BY <1>5 DEF TestStart, TestRecord, TestReport, history
<1>6. CASE Tick \/ Restart \/ UNCHANGED vars
  BY <1>6 DEF Tick, Restart, history, vars
<1> QED
  BY <1>1, <1>2, <1>3, <1>4, <1>5, <1>6 DEF Next, Exhausted, WorkerStep, TestStep

\* What goes to paper is in progress and not yet finished as far as the tables
\* know (server.go:202-209, 563-564).
THEOREM NoReprint == Safety => NoReprintWhileRemembered
<1>1. Init => IInv
  BY InitIInv
<1>2. IInv /\ [Next]_vars => IInv'
  BY StepIInv
<1>3. IInv /\ [Next]_vars =>
          [\A i \in RemoteOnly :
              prints'[i] # prints[i] => i \in processing /\ ~Remembered(i)]_vars
  BY StepPrints DEF IInv, SingleFlight, InFlight, AtWorker, PrintOk
<1> QED
  BY <1>1, <1>2, <1>3, PTL DEF Safety, NoReprintWhileRemembered

-----------------------------------------------------------------------------
(* What the agent says of a job is so, and is said before it is remembered.  *)
(*                                                                           *)
(* Neither invariant is inductive alone: a result travels in the worker's or *)
(* a tester's hands before it is told, and the reporter a gateway job is     *)
(* reported to has to be there as long as the job is marked.                 *)

OnPaper ==
    /\ worker.outcome = "printed" => prints[worker.id] > 0
    /\ \A u \in Testers : tester[u].outcome = "printed" => prints[tester[u].id] > 0

Truthful == OnPaper /\ PrintedReportsAreTrue

Listened == \A i \in RemoteOnly : i \in processing => wsReporter

ToldBeforeSettling ==
    \A i \in RemoteOnly :
        AtWorker(i) /\ worker.pc \in {"api", "settle"} /\ TrimSpace[i] # Blank
            => <<i, worker.outcome>> \in told

Spoken == Listened /\ ToldBeforeSettling /\ RemoteOutcomeReported

LEMMA InitTold == Init => Truthful /\ Spoken
BY RemoteOnlyIds DEF Init, Truthful, OnPaper, PrintedReportsAreTrue, Spoken, Listened,
   ToldBeforeSettling, RemoteOutcomeReported, Remembered, NotRemembered, AtWorker, IdleWorker,
   IdleTester

LEMMA StepTruthful == Typed /\ Truthful /\ [Next]_vars => Truthful'
<1> SUFFICES ASSUME Typed, Truthful, [Next]_vars PROVE Truthful'
  OBVIOUS
<1> USE DEF memory, actors, history, bounds
<1>0. /\ prints \in [JobIds -> Nat] /\ WorkerTyped /\ TesterTyped
      /\ Blank \in JobIds
  BY ConstantTypes DEF Typed, TypeOK, HistoryTyped
<1>1. CASE PrintOk
  BY <1>0, <1>1 DEF PrintOk, Truthful, OnPaper, PrintedReportsAreTrue, WorkerTyped, TesterTyped
<1>2. CASE WorkerTake \/ PrintFail \/ WorkerApiReport \/ WorkerSettle
  <2>1. UNCHANGED <<prints, told, tester>>
    BY <1>2 DEF WorkerTake, PrintFail, WorkerApiReport, WorkerSettle
  <2>2. worker'.outcome = "printed" => worker.outcome = "printed" /\ worker'.id = worker.id
    <3>1. CASE WorkerTake
      BY <3>1 DEF WorkerTake, IdleWorker
    <3>2. CASE PrintFail
      BY <1>0, <3>2 DEF PrintFail, WorkerTyped
    <3>3. CASE WorkerApiReport
      BY <1>0, <3>3 DEF WorkerApiReport, WorkerTyped
    <3>4. CASE WorkerSettle
      BY <3>4 DEF WorkerSettle, IdleWorker
    <3> QED
      BY <1>2, <3>1, <3>2, <3>3, <3>4
  <2> QED
    BY <2>1, <2>2 DEF Truthful, OnPaper, PrintedReportsAreTrue
<1>3. CASE WorkerReport
  BY <1>0, <1>3 DEF WorkerReport, Handed, Truthful, OnPaper, PrintedReportsAreTrue, WorkerTyped
<1>4. ASSUME NEW u \in Testers, TestStart(u) PROVE Truthful'
  BY <1>0, <1>4 DEF TestStart, IdleTester, Truthful, OnPaper, PrintedReportsAreTrue, TesterTyped
<1>5. ASSUME NEW u \in Testers, TestPrint(u) PROVE Truthful'
  BY <1>0, <1>5 DEF TestPrint, Outcomes, Truthful, OnPaper, PrintedReportsAreTrue, WorkerTyped,
     TesterTyped
<1>6. ASSUME NEW u \in Testers, TestRecord(u) PROVE Truthful'
  BY <1>0, <1>6 DEF TestRecord, IdleTester, Truthful, OnPaper, PrintedReportsAreTrue, TesterTyped
<1>7. ASSUME NEW u \in Testers, TestReport(u) PROVE Truthful'
  BY <1>0, <1>7 DEF TestReport, Handed, IdleTester, Truthful, OnPaper, PrintedReportsAreTrue,
     TesterTyped
<1>8. CASE RemoteReportRefusal
  BY <1>0, <1>8 DEF RemoteReportRefusal, Truthful, OnPaper, PrintedReportsAreTrue
<1>9. CASE \/ \E h \in Handlers : HttpCheck(h) \/ HttpStep(h)
           \/ SetWSReporter \/ RemoteRegister \/ RemoteReject \/ RemoteEnqueue \/ RemoteRollback
           \/ Tick \/ UNCHANGED vars
  BY <1>9 DEF HttpCheck, HttpStep, HttpRegister, HttpEnqueue, HttpRollback, SetWSReporter,
     RemoteRegister, RemoteReject, RemoteEnqueue, RemoteRollback, Tick, vars, Truthful, OnPaper,
     PrintedReportsAreTrue
<1>10. CASE Restart
  BY <1>0, <1>10 DEF Restart, IdleWorker, IdleTester, Truthful, OnPaper, PrintedReportsAreTrue
<1> QED
  BY <1>1, <1>2, <1>3, <1>4, <1>5, <1>6, <1>7, <1>8, <1>9, <1>10
     DEF Next, Exhausted, ReaderStep, WorkerStep, TestStep

LEMMA StepListened == Typed /\ Foreign /\ Listened /\ [Next]_vars => Listened'
<1> SUFFICES ASSUME Typed, Foreign, Listened, [Next]_vars, NEW i \in RemoteOnly, i \in processing'
             PROVE  wsReporter'
  BY DEF Listened
<1> USE DEF memory, actors, history, bounds
<1>1. ASSUME NEW h \in Handlers, HttpRegister(h) PROVE wsReporter'
  BY <1>1, RemoteOnlyIds DEF HttpRegister, Register, Foreign, Listened
<1>2. CASE RemoteRegister
  BY <1>2 DEF RemoteRegister, Register, Listened
<1>3. CASE Restart
  BY <1>3 DEF Restart
<1>4. CASE SetWSReporter
  BY <1>4 DEF SetWSReporter
<1>5. ASSUME NEW h \in Handlers, HttpCheck(h) \/ HttpEnqueue(h) \/ HttpRollback(h)
      PROVE wsReporter'
  BY <1>5 DEF HttpCheck, HttpEnqueue, HttpRollback, TakeBack, Unmarked, Listened
<1>6. CASE RemoteReject \/ ReaderStep \/ WorkerStep \/ Tick \/ UNCHANGED vars
  BY <1>6 DEF RemoteReject, ReaderStep, RemoteEnqueue, RemoteRollback, RemoteReportRefusal,
     TakeBack, Unmarked, WorkerStep, WorkerTake, PrintOk, PrintFail, WorkerReport,
     WorkerApiReport, WorkerSettle, Tick, vars, Listened
<1>7. ASSUME NEW u \in Testers, TestStart(u) \/ TestStep(u) PROVE wsReporter'
  <2>1. UNCHANGED <<processing, wsReporter>>
    BY <1>7 DEF TestStart, TestStep, TestPrint, TestRecord, TestReport
  <2> QED
    BY <2>1 DEF Listened
<1> QED
  BY <1>1, <1>2, <1>3, <1>4, <1>5, <1>6, <1>7 DEF Next, Exhausted, HttpStep

LEMMA StepToldBeforeSettling ==
    IInv /\ Listened /\ ToldBeforeSettling /\ [Next]_vars => ToldBeforeSettling'
<1> SUFFICES ASSUME IInv, Listened, ToldBeforeSettling, [Next]_vars, NEW i \in RemoteOnly,
                    AtWorker(i)', worker'.pc \in {"api", "settle"}, TrimSpace[i] # Blank
             PROVE  <<i, worker'.outcome>> \in told'
  BY DEF ToldBeforeSettling
<1> USE DEF memory, actors, history, bounds
<1>0. WorkerTyped /\ (AtWorker(i) => i \in processing)
  BY DEF IInv, Typed, TypeOK, SingleFlight, InFlight
<1>1. CASE WorkerReport
  BY <1>0, <1>1 DEF WorkerReport, Handed, AtWorker, WorkerTyped, Listened
<1>2. CASE WorkerApiReport
  BY <1>0, <1>2 DEF WorkerApiReport, AtWorker, WorkerTyped, ToldBeforeSettling
<1>3. CASE WorkerTake \/ WorkerSettle \/ Restart
  <2>1. worker'.pc \in {"print", "idle"}
    <3>1. CASE WorkerTake
      BY <3>1 DEF WorkerTake, IdleWorker
    <3>2. CASE WorkerSettle
      BY <3>2 DEF WorkerSettle, IdleWorker
    <3>3. CASE Restart
      BY <3>3 DEF Restart, IdleWorker
    <3> QED
      BY <1>3, <3>1, <3>2, <3>3
  <2> QED
    BY <2>1
<1>4. CASE PrintOk \/ PrintFail
  BY <1>0, <1>4 DEF PrintOk, PrintFail, WorkerTyped
<1>5. worker' = worker /\ told \subseteq told' => <<i, worker'.outcome>> \in told'
  BY DEF AtWorker, ToldBeforeSettling
<1>6. ASSUME NEW h \in Handlers, HttpCheck(h) \/ HttpStep(h)
      PROVE worker' = worker /\ told \subseteq told'
  BY <1>6 DEF HttpCheck, HttpStep, HttpRegister, HttpEnqueue, HttpRollback
<1>7. CASE SetWSReporter \/ RemoteRegister \/ RemoteReject \/ ReaderStep \/ Tick \/ UNCHANGED vars
  BY <1>5, <1>7 DEF SetWSReporter, RemoteRegister, RemoteReject, ReaderStep, RemoteEnqueue,
     RemoteRollback, RemoteReportRefusal, Tick, vars
<1>8. ASSUME NEW u \in Testers, TestStart(u) \/ TestStep(u)
      PROVE worker' = worker /\ told \subseteq told'
  BY <1>8 DEF TestStart, TestStep, TestPrint, TestRecord, TestReport
<1> QED
  BY <1>1, <1>2, <1>3, <1>4, <1>5, <1>6, <1>7, <1>8 DEF Next, Exhausted, WorkerStep

LEMMA StepOutcomeReported ==
    IInv /\ ToldBeforeSettling /\ RemoteOutcomeReported /\ [Next]_vars => RemoteOutcomeReported'
<1> SUFFICES ASSUME IInv, ToldBeforeSettling, RemoteOutcomeReported, [Next]_vars,
                    NEW i \in RemoteOnly, Remembered(i)', TrimSpace[i] # Blank
             PROVE  <<i, processed'[i].status>> \in told'
  BY DEF RemoteOutcomeReported
<1> USE DEF memory, actors, history, bounds
<1>0. /\ processed \in [JobIds -> Entry] /\ WorkerTyped /\ TesterTyped /\ WorkerOk /\ TesterOk
      /\ i \in JobIds
  BY RemoteOnlyIds DEF IInv, Typed, TypeOK, TablesTyped, Entry
<1>1. Remembered(i) /\ processed'[i] = processed[i] /\ told \subseteq told'
          => <<i, processed'[i].status>> \in told'
  BY DEF RemoteOutcomeReported
<1>2. CASE WorkerSettle
  <2>1. /\ Remember(worker.id, worker.outcome, worker.at) /\ told' = told
        /\ worker.id \in JobIds /\ worker.outcome \in Outcomes /\ worker.at \in Nat
        /\ worker.pc = "settle"
    BY <1>0, <1>2 DEF WorkerSettle, WorkerTyped, WorkerOk
  <2>2. CASE i = worker.id
    <3>1. <<i, worker.outcome>> \in told'
      BY <2>1, <2>2 DEF ToldBeforeSettling, AtWorker
    <3>2. PICK gone \in SUBSET {j \in JobIds : Remembered(j) \/ j = worker.id} :
              \A j \in JobIds :
                  processed'[j] = IF j \in gone THEN NotRemembered
                                  ELSE IF j = worker.id /\ worker.id # Blank
                                       THEN [status |-> worker.outcome, at |-> worker.at]
                                       ELSE processed[j]
      BY <1>0, <2>1, RememberEffect
    <3>3. i # Blank /\ i \notin gone
      BY <1>0, <3>2, RemoteOnlyIds DEF Remembered, NotRemembered
    <3> QED
      BY <1>0, <2>2, <3>1, <3>2, <3>3
  <2>3. CASE i # worker.id
    BY <1>0, <1>1, <2>1, <2>3, RememberOthers
  <2> QED
    BY <2>2, <2>3
<1>3. ASSUME NEW u \in Testers, TestRecord(u) PROVE <<i, processed'[i].status>> \in told'
  <2>1. /\ Remember(tester[u].id, tester[u].outcome, tester[u].at) /\ told' = told
        /\ tester[u].id \in JobIds /\ tester[u].outcome \in Outcomes /\ tester[u].at \in Nat
    BY <1>0, <1>3 DEF TestRecord, TesterTyped, TesterOk
  <2>2. i # tester[u].id
    BY <1>3, RemoteOnlyIds DEF TestRecord, IInv, Foreign
  <2> QED
    BY <1>0, <1>1, <2>1, <2>2, RememberOthers
<1>4. CASE Restart
  BY <1>0, <1>4 DEF Restart, Remembered, NotRemembered
<1>5. CASE UNCHANGED processed /\ told \subseteq told'
  BY <1>1, <1>5 DEF Remembered
<1>6. ASSUME NEW h \in Handlers, HttpCheck(h) \/ HttpStep(h)
      PROVE UNCHANGED processed /\ told \subseteq told'
  BY <1>6 DEF HttpCheck, HttpStep, HttpRegister, HttpEnqueue, HttpRollback
<1>7. CASE \/ SetWSReporter \/ RemoteRegister \/ RemoteReject \/ ReaderStep
           \/ WorkerTake \/ PrintOk \/ PrintFail \/ WorkerReport \/ WorkerApiReport
           \/ Tick \/ UNCHANGED vars
  BY <1>5, <1>7 DEF SetWSReporter, RemoteRegister, RemoteReject, ReaderStep, RemoteEnqueue,
     RemoteRollback, RemoteReportRefusal, WorkerTake, PrintOk, PrintFail, WorkerReport,
     WorkerApiReport, Tick, vars
<1>8. ASSUME NEW u \in Testers, TestStart(u) \/ TestPrint(u) \/ TestReport(u)
      PROVE UNCHANGED processed /\ told \subseteq told'
  BY <1>8 DEF TestStart, TestPrint, TestReport
<1> QED
  BY <1>2, <1>3, <1>4, <1>5, <1>6, <1>7, <1>8 DEF Next, Exhausted, WorkerStep, TestStep

\* The agent never says "printed" of a ticket that no printer took, whoever
\* printed it and whoever tells (server.go:563-585).
THEOREM PrintedIsTrue == Safety => []PrintedReportsAreTrue
<1>1. Init => Typed /\ Truthful
  BY InitTyped, InitTold
<1>2. Typed /\ Truthful /\ [Next]_vars => (Typed /\ Truthful)'
  BY StepTyped, StepTruthful
<1>3. Truthful => PrintedReportsAreTrue
  BY DEF Truthful
<1> QED
  BY <1>1, <1>2, <1>3, PTL DEF Safety

\* What the memory of finished jobs suppresses was told to the gateway client
\* first, with the outcome that is remembered (server.go:582-601, 630-650).
THEOREM OutcomeReportedFirst == Safety => []RemoteOutcomeReported
<1>1. Init => IInv /\ Spoken
  BY InitIInv, InitTold
<1>2. IInv /\ Spoken /\ [Next]_vars => (IInv /\ Spoken)'
  BY StepIInv, StepListened, StepToldBeforeSettling, StepOutcomeReported DEF Spoken, IInv
<1>3. Spoken => RemoteOutcomeReported
  BY DEF Spoken
<1> QED
  BY <1>1, <1>2, <1>3, PTL DEF Safety

-----------------------------------------------------------------------------
(* What a client was answered 202 for.                                       *)
(*                                                                           *)
(* The answer "already queued" rests on a mark, and a mark on a copy on its  *)
(* way (NoOrphanMark); a copy ends on paper or in a count of failures.       *)

Accounted ==
    \A i \in promised :
        prints[i] > 0 \/ restarts > 0 \/ stat.failedPrints > 0 \/ InFlight(i)

\* No step lowers a count, short of the end of the process, which is counted.
LEMMA CountsStay ==
    ASSUME Typed, [Next]_vars
    PROVE  /\ \A i \in JobIds : prints'[i] >= prints[i]
           /\ restarts' >= restarts
           /\ restarts' > 0 \/ stat'.failedPrints >= stat.failedPrints
<1> USE DEF memory, actors, history, bounds
<1>0. /\ prints \in [JobIds -> Nat] /\ restarts \in Nat /\ StatTyped /\ WorkerTyped /\ TesterTyped
      /\ stat.failedPrints \in Nat
  BY DEF Typed, TypeOK, HistoryTyped, StatTyped
<1>1. CASE UNCHANGED <<prints, restarts>> /\ stat'.failedPrints >= stat.failedPrints
  BY <1>0, <1>1
<1>2. ASSUME NEW h \in Handlers, HttpCheck(h) \/ HttpStep(h)
      PROVE UNCHANGED <<prints, restarts>> /\ stat'.failedPrints >= stat.failedPrints
  <2>1. CASE HttpCheck(h) \/ HttpEnqueue(h)
    BY <1>0, <2>1 DEF HttpCheck, HttpEnqueue
  <2>2. CASE HttpRegister(h)
    BY <1>0, <2>2 DEF HttpRegister, Register, StatTyped
  <2>3. CASE HttpRollback(h)
    BY <1>0, <2>3 DEF HttpRollback, TakeBack, StatTyped
  <2> QED
    BY <1>2, <2>1, <2>2, <2>3 DEF HttpStep
<1>3. CASE RemoteRegister
  <2>1. UNCHANGED <<prints, restarts>>
        /\ (UNCHANGED stat \/ \E j \in RemoteIds : Register(j))
    BY <1>3 DEF RemoteRegister
  <2>2. stat'.failedPrints = stat.failedPrints
    BY <1>0, <2>1 DEF Register, StatTyped
  <2> QED
    BY <1>0, <1>1, <2>1, <2>2
<1>4. CASE RemoteRollback
  BY <1>0, <1>1, <1>4 DEF RemoteRollback, TakeBack, StatTyped
<1>5. CASE \/ SetWSReporter \/ RemoteReject \/ RemoteEnqueue \/ RemoteReportRefusal
           \/ WorkerTake \/ PrintFail \/ WorkerReport \/ WorkerApiReport
           \/ Tick \/ UNCHANGED vars
  BY <1>0, <1>5 DEF SetWSReporter, RemoteReject, RemoteEnqueue, RemoteReportRefusal,
     WorkerTake, PrintFail, WorkerReport, WorkerApiReport, Tick, vars
<1>6. CASE PrintOk
  BY <1>0, <1>6 DEF PrintOk
<1>7. CASE WorkerSettle
  <2>1. UNCHANGED <<prints, restarts>>
    BY <1>7 DEF WorkerSettle
  <2>2. stat'.failedPrints = stat.failedPrints + (IF worker.outcome = "failed" THEN 1 ELSE 0)
    BY <1>0, <1>7 DEF WorkerSettle, StatTyped
  <2> QED
    BY <1>0, <2>1, <2>2
<1>8. ASSUME NEW u \in Testers, TestRecord(u)
      PROVE UNCHANGED <<prints, restarts>> /\ stat'.failedPrints >= stat.failedPrints
  <2>1. stat'.failedPrints = stat.failedPrints + (IF tester[u].outcome = "failed" THEN 1 ELSE 0)
    BY <1>0, <1>8 DEF TestRecord, StatTyped
  <2> QED
    BY <1>0, <1>8, <2>1 DEF TestRecord
<1>9. ASSUME NEW u \in Testers, TestPrint(u)
      PROVE /\ \A i \in JobIds : prints'[i] >= prints[i]
            /\ UNCHANGED <<restarts, stat>>
  BY <1>0, <1>9 DEF TestPrint
<1>10. ASSUME NEW u \in Testers, TestStart(u) \/ TestReport(u)
       PROVE UNCHANGED <<prints, restarts, stat>>
  BY <1>10 DEF TestStart, TestReport
<1>11. CASE Restart
  BY <1>0, <1>11 DEF Restart
<1> QED
  BY <1>0, <1>1, <1>2, <1>3, <1>4, <1>5, <1>6, <1>7, <1>8, <1>9, <1>10, <1>11
     DEF Next, Exhausted, ReaderStep, WorkerStep, TestStep

LEMMA StepAccounted ==
    Typed /\ Truthful /\ NoOrphanMark /\ Accounted /\ [Next]_vars => Accounted'
<1> SUFFICES ASSUME Typed, Truthful, NoOrphanMark, Accounted, [Next]_vars, NEW i \in promised'
             PROVE  \/ prints'[i] > 0 \/ restarts' > 0 \/ stat'.failedPrints > 0
                    \/ InFlight(i)'
  BY DEF Accounted
<1> USE DEF memory, actors, history, bounds
<1>0. /\ QueueTyped /\ HandlerTyped /\ WorkerTyped /\ StatTyped
      /\ stat.failedPrints \in Nat /\ prints \in [JobIds -> Nat] /\ promised \subseteq JobIds
      /\ restarts \in Nat /\ stat'.failedPrints \in Nat /\ restarts' \in Nat
      /\ prints' \in [JobIds -> Nat] /\ promised' \subseteq JobIds
  BY StepTyped DEF Typed, TypeOK, StatTyped, HistoryTyped
<1>1. CASE i \notin promised
  <2>1. PICK h \in Handlers : HttpCheck(h) \/ HttpEnqueue(h)
    BY <1>1 DEF Next, Exhausted, HttpStep, HttpRegister, HttpRollback, SetWSReporter,
       RemoteRegister, RemoteReject, ReaderStep, RemoteEnqueue, RemoteRollback,
       RemoteReportRefusal, WorkerStep, WorkerTake, PrintOk, PrintFail, WorkerReport,
       WorkerApiReport, WorkerSettle, TestStep, TestStart, TestPrint, TestRecord, TestReport,
       Tick, Restart, vars
  <2>2. CASE HttpCheck(h)
    <3>1. InFlight(i) /\ UNCHANGED <<ticketQ, reader, worker, handler>>
      BY <1>1, <2>2 DEF HttpCheck, NoOrphanMark
    <3> QED
      BY <3>1, KeepFlight DEF InQueue, AtReader, AtWorker, AtHandler
  <2>3. CASE HttpEnqueue(h)
    <3>1. ticketQ' = Append(ticketQ, i) /\ i \in JobIds
      BY <1>0, <1>1, <2>3 DEF HttpEnqueue, HandlerTyped
    <3> QED
      BY <1>0, <3>1, AppendKeeps DEF InFlight
  <2> QED
    BY <2>1, <2>2, <2>3
<1>2. CASE i \in promised /\ ~InFlight(i)
  BY <1>0, <1>2, CountsStay DEF Accounted
<1>3. CASE i \in promised /\ InFlight(i)
  <2>1. ASSUME NEW h \in Handlers, HttpRollback(h) PROVE stat'.failedPrints > 0
    BY <1>0, <2>1 DEF HttpRollback, TakeBack, StatTyped
  <2>2. RemoteRollback => stat'.failedPrints > 0
    BY <1>0 DEF RemoteRollback, TakeBack, StatTyped
  <2>3. Restart => restarts' > 0
    BY <1>0 DEF Restart
  <2>4. CASE WorkerSettle
    <3>1. CASE worker.outcome = "failed"
      BY <1>0, <2>4, <3>1 DEF WorkerSettle, StatTyped
    <3>2. CASE worker.outcome # "failed" /\ worker.id = i
      <4>1. worker.outcome = "printed"
        BY <2>4, <3>2 DEF WorkerSettle, Typed, WorkerOk, Outcomes
      <4> QED
        BY <2>4, <3>2, <4>1 DEF WorkerSettle, Truthful, OnPaper
    <3>3. CASE worker.id # i
      BY <1>3, <2>4, <3>3, KeepFlight DEF WorkerSettle, InQueue, AtReader, AtWorker, AtHandler
    <3> QED
      BY <3>1, <3>2, <3>3
  <2> QED
    BY <1>3, <2>1, <2>2, <2>3, <2>4, FlightLasts
<1> QED
  BY <1>1, <1>2, <1>3

\* Once nothing is left to do, an id that was answered 202 has been printed,
\* or /status shows a failure or the agent was started again
\* (server.go:503-512, 529-552).
THEOREM AcceptedIsAccounted == Safety => []AcceptedLossIsCounted
<1>1. Init => Typed /\ Truthful /\ NoOrphanMark /\ Accounted
  BY InitTyped, InitTold, InitIInv DEF Init, Accounted, IInv
<1>2. Typed /\ Truthful /\ NoOrphanMark /\ Accounted /\ [Next]_vars
          => (Typed /\ Truthful /\ NoOrphanMark /\ Accounted)'
  BY StepTyped, StepTruthful, StepNoOrphan, StepAccounted
<1>3. Accounted => AcceptedLossIsCounted
  BY DEF Accounted, AcceptedLossIsCounted, Quiescent, InFlight, InQueue, AtReader, AtWorker,
     AtHandler
<1> QED
  BY <1>1, <1>2, <1>3, PTL DEF Safety

-----------------------------------------------------------------------------
(* The counters of /status.                                                  *)
(*                                                                           *)
(* However many handlers and testers there could be, those that hold a job   *)
(* are finitely many: nobody holds one at the start, and a step changes the  *)
(* state of one.                                                             *)

Registering == {h \in Handlers : handler[h].pc \in {"enqueue", "rollback"}}
Testing == {t \in Testers : tester[t].pc \in {"print", "record"}}
Holding(r) == IF r.pc \in {"enqueue", "rollback"} THEN 1 ELSE 0
Busy(w) == IF w.pc # "idle" THEN 1 ELSE 0
Ended == stat.successfulPrints + stat.failedPrints

Counted ==
    /\ IsFiniteSet(Registering) /\ IsFiniteSet(Testing)
    /\ begun = Ended + Len(ticketQ) + Cardinality(Registering) + Holding(reader)
               + Busy(worker) + Cardinality(Testing)

LEMMA CountedConserves == Counted => CountersConserve
<1>1. Cardinality({r \in {reader} : r.pc \in {"enqueue", "rollback"}}) = Holding(reader)
  <2>1. CASE reader.pc \in {"enqueue", "rollback"}
    <3>1. {r \in {reader} : r.pc \in {"enqueue", "rollback"}} = {reader}
      BY <2>1
    <3> QED
      BY <2>1, <3>1, FS_Singleton DEF Holding
  <2>2. CASE reader.pc \notin {"enqueue", "rollback"}
    <3>1. {r \in {reader} : r.pc \in {"enqueue", "rollback"}} = {}
      BY <2>2
    <3> QED
      BY <2>2, <3>1, FS_EmptySet DEF Holding
  <2> QED
    BY <2>1, <2>2
<1>2. Cardinality({w \in {worker} : w.pc # "idle"}) = Busy(worker)
  <2>1. CASE worker.pc # "idle"
    <3>1. {w \in {worker} : w.pc # "idle"} = {worker}
      BY <2>1
    <3> QED
      BY <2>1, <3>1, FS_Singleton DEF Busy
  <2>2. CASE worker.pc = "idle"
    <3>1. {w \in {worker} : w.pc # "idle"} = {}
      BY <2>2
    <3> QED
      BY <2>2, <3>1, FS_EmptySet DEF Busy
  <2> QED
    BY <2>1, <2>2
<1> QED
  BY <1>1, <1>2 DEF Counted, CountersConserve, Registering, Testing, Ended

\* One goes in, one comes out.
LEMMA OneIn ==
    ASSUME NEW S, NEW x, IsFiniteSet(S), x \notin S
    PROVE  IsFiniteSet(S \union {x}) /\ Cardinality(S \union {x}) = Cardinality(S) + 1
  BY FS_AddElement

LEMMA OneOut ==
    ASSUME NEW S, NEW x, IsFiniteSet(S), x \in S
    PROVE  IsFiniteSet(S \ {x}) /\ Cardinality(S \ {x}) = Cardinality(S) - 1
  BY FS_RemoveElement

LEMMA CountsAreNumbers ==
    ASSUME Typed, Counted
    PROVE  /\ stat.successfulPrints \in Nat /\ stat.failedPrints \in Nat /\ Ended \in Nat
           /\ ticketQ \in Seq(JobIds) /\ Len(ticketQ) \in Nat /\ begun \in Nat
           /\ Cardinality(Registering) \in Nat /\ Cardinality(Testing) \in Nat
           /\ Holding(reader) \in Nat /\ Busy(worker) \in Nat
<1>1. Cardinality(Registering) \in Nat /\ Cardinality(Testing) \in Nat
  BY FS_CardinalityType DEF Counted
<1>2. stat.successfulPrints \in Nat /\ stat.failedPrints \in Nat
  BY DEF Typed, TypeOK, StatTyped
<1> QED
  BY <1>1, <1>2 DEF Typed, TypeOK, QueueTyped, HistoryTyped, Ended, Holding, Busy

LEMMA InitCounted == Init => Counted
<1> SUFFICES ASSUME Init PROVE Counted
  OBVIOUS
<1>1. Registering = {} /\ Testing = {}
  BY DEF Init, Registering, Testing, IdleHandler, IdleTester
<1>2. Ended = 0 /\ Len(ticketQ) = 0 /\ Holding(reader) = 0 /\ Busy(worker) = 0 /\ begun = 0
  BY DEF Init, Ended, Holding, Busy, IdleHandler, IdleWorker
<1> QED
  BY <1>1, <1>2, FS_EmptySet DEF Counted

LEMMA HandlerCounted ==
    ASSUME Typed, Counted, NEW h \in Handlers, HttpCheck(h) \/ HttpStep(h)
    PROVE  Counted'
<1> USE DEF memory, actors, history, bounds
<1>0. /\ HandlerTyped /\ StatTyped
      /\ UNCHANGED <<reader, worker, tester>> /\ Testing' = Testing
      /\ Holding(reader') = Holding(reader) /\ Busy(worker') = Busy(worker)
  BY DEF Typed, TypeOK, HttpCheck, HttpStep, HttpRegister, HttpEnqueue, HttpRollback, Testing
<1>1. CASE HttpCheck(h)
  <2>1. Registering' = Registering
    BY <1>0, <1>1 DEF HttpCheck, Registering, HandlerTyped
  <2> QED
    BY <1>0, <1>1, <2>1 DEF HttpCheck, Counted, Ended
<1>2. CASE HttpRegister(h)
  <2>1. Registering' = Registering \union {h} /\ h \notin Registering
    BY <1>0, <1>2 DEF HttpRegister, Registering, HandlerTyped
  <2>2. Ended' = Ended /\ begun' = begun + 1 /\ ticketQ' = ticketQ
    BY <1>0, <1>2 DEF HttpRegister, Register, StatTyped, Ended
  <2>3. IsFiniteSet(Registering') /\ Cardinality(Registering') = Cardinality(Registering) + 1
    BY <2>1, OneIn DEF Counted
  <2> QED
    BY <1>0, <2>2, <2>3, CountsAreNumbers DEF Counted
<1>3. CASE HttpEnqueue(h) /\ QueueHasRoom /\ ticketQ' = Append(ticketQ, handler[h].id)
           /\ handler' = [handler EXCEPT ![h] = IdleHandler]
  <2>1. Registering' = Registering \ {h} /\ h \in Registering
    BY <1>0, <1>3 DEF HttpEnqueue, Registering, HandlerTyped, IdleHandler
  <2>2. Ended' = Ended /\ begun' = begun /\ Len(ticketQ') = Len(ticketQ) + 1
    BY <1>3, CountsAreNumbers DEF HttpEnqueue, Ended
  <2>3. IsFiniteSet(Registering') /\ Cardinality(Registering') = Cardinality(Registering) - 1
    BY <2>1, OneOut DEF Counted
  <2> QED
    BY <1>0, <2>2, <2>3, CountsAreNumbers DEF Counted
<1>4. CASE HttpEnqueue(h) /\ UNCHANGED ticketQ
           /\ handler' = [handler EXCEPT ![h].pc = "rollback"]
  <2>1. Registering' = Registering
    BY <1>0, <1>4 DEF HttpEnqueue, Registering, HandlerTyped
  <2> QED
    BY <1>0, <1>4, <2>1 DEF HttpEnqueue, Counted, Ended
<1>5. CASE HttpRollback(h)
  <2>1. Registering' = Registering \ {h} /\ h \in Registering
    BY <1>0, <1>5 DEF HttpRollback, Registering, HandlerTyped, IdleHandler
  <2>2. Ended' = Ended + 1 /\ begun' = begun /\ ticketQ' = ticketQ
    BY <1>0, <1>5, CountsAreNumbers DEF HttpRollback, TakeBack, StatTyped, Ended
  <2>3. IsFiniteSet(Registering') /\ Cardinality(Registering') = Cardinality(Registering) - 1
    BY <2>1, OneOut DEF Counted
  <2> QED
    BY <1>0, <2>2, <2>3, CountsAreNumbers DEF Counted
<1> QED
  BY <1>1, <1>2, <1>3, <1>4, <1>5 DEF HttpStep, HttpEnqueue

LEMMA ReaderCounted ==
    ASSUME Typed, Counted, SetWSReporter \/ RemoteRegister \/ RemoteReject \/ ReaderStep
    PROVE  Counted'
<1> USE DEF memory, actors, history, bounds
<1>0. /\ ReaderTyped /\ StatTyped
      /\ Registering' = Registering /\ Testing' = Testing /\ Busy(worker') = Busy(worker)
  BY DEF Typed, TypeOK, SetWSReporter, RemoteRegister, RemoteReject, ReaderStep, RemoteEnqueue,
     RemoteRollback, RemoteReportRefusal, Registering, Testing
<1>1. CASE SetWSReporter
  BY <1>0, <1>1 DEF SetWSReporter, Counted, Ended
<1>2. CASE RemoteRegister
  <2>0. reader.pc = "idle" /\ ticketQ' = ticketQ /\ Holding(reader) = 0
    BY <1>2 DEF RemoteRegister, Holding
  <2>1. PICK i \in RemoteIds :
           \/ /\ reader' = [pc |-> "refuse", id |-> i]
              /\ UNCHANGED <<processing, stat, begun>>
           \/ /\ Register(i)
              /\ reader' = [pc |-> "enqueue", id |-> i]
    BY <1>2 DEF RemoteRegister
  <2>2. CASE UNCHANGED <<processing, stat, begun>> /\ reader' = [pc |-> "refuse", id |-> i]
    <3>1. Holding(reader') = 0 /\ Ended' = Ended
      BY <2>2 DEF Holding, Ended
    <3> QED
      BY <1>0, <2>0, <2>2, <3>1 DEF Counted
  <2>3. CASE Register(i) /\ reader' = [pc |-> "enqueue", id |-> i]
    <3>1. Holding(reader') = 1
      BY <2>3 DEF Holding
    <3>2. Ended' = Ended /\ begun' = begun + 1
      BY <1>0, <2>3 DEF Register, StatTyped, Ended
    <3> QED
      BY <1>0, <2>0, <3>1, <3>2, CountsAreNumbers DEF Counted
  <2> QED
    BY <2>1, <2>2, <2>3
<1>3. CASE RemoteReject
  <2>1. Holding(reader) = 0 /\ Holding(reader') = 0
    BY <1>3 DEF RemoteReject, Holding
  <2> QED
    BY <1>0, <1>3, <2>1 DEF RemoteReject, Counted, Ended
<1>4. CASE RemoteEnqueue
  <2>0. Ended' = Ended /\ begun' = begun /\ Holding(reader) = 1
    BY <1>4 DEF RemoteEnqueue, Ended, Holding
  <2>1. CASE ticketQ' = Append(ticketQ, reader.id) /\ reader' = IdleHandler
    <3>1. Len(ticketQ') = Len(ticketQ) + 1 /\ Holding(reader') = 0
      BY <2>1, CountsAreNumbers DEF Holding, IdleHandler
    <3> QED
      BY <1>0, <2>0, <3>1, CountsAreNumbers DEF Counted
  <2>2. CASE UNCHANGED ticketQ /\ reader' = [reader EXCEPT !.pc = "rollback"]
    <3>1. Holding(reader') = 1
      BY <1>0, <2>2 DEF Holding, ReaderTyped
    <3> QED
      BY <1>0, <2>0, <2>2, <3>1 DEF Counted
  <2> QED
    BY <1>4, <2>1, <2>2 DEF RemoteEnqueue
<1>5. CASE RemoteRollback
  <2>1. Holding(reader) = 1 /\ Holding(reader') = 0
    BY <1>0, <1>5 DEF RemoteRollback, Holding, ReaderTyped
  <2>2. Ended' = Ended + 1 /\ begun' = begun /\ ticketQ' = ticketQ
    BY <1>0, <1>5, CountsAreNumbers DEF RemoteRollback, TakeBack, StatTyped, Ended
  <2> QED
    BY <1>0, <2>1, <2>2, CountsAreNumbers DEF Counted
<1>6. CASE RemoteReportRefusal
  <2>1. Holding(reader) = 0 /\ Holding(reader') = 0
    BY <1>6 DEF RemoteReportRefusal, Holding, IdleHandler
  <2> QED
    BY <1>0, <1>6, <2>1 DEF RemoteReportRefusal, Counted, Ended
<1> QED
  BY <1>1, <1>2, <1>3, <1>4, <1>5, <1>6 DEF ReaderStep

LEMMA WorkerCounted == ASSUME Typed, Counted, WorkerStep PROVE Counted'
<1> USE DEF memory, actors, history, bounds
<1>0. /\ WorkerTyped /\ StatTyped /\ begun' = begun
      /\ Registering' = Registering /\ Testing' = Testing /\ Holding(reader') = Holding(reader)
  BY DEF Typed, TypeOK, WorkerStep, WorkerTake, PrintOk, PrintFail, WorkerReport,
     WorkerApiReport, WorkerSettle, Registering, Testing
<1>1. CASE WorkerTake
  <2>1. Busy(worker) = 0 /\ Busy(worker') = 1 /\ Ended' = Ended
    BY <1>1 DEF WorkerTake, Busy, IdleWorker, Ended
  <2>2. Len(ticketQ') = Len(ticketQ) - 1
    BY <1>1, CountsAreNumbers DEF WorkerTake
  <2> QED
    BY <1>0, <2>1, <2>2, CountsAreNumbers DEF Counted
<1>2. CASE PrintOk \/ PrintFail \/ WorkerReport \/ WorkerApiReport
  <2>1. Busy(worker) = 1 /\ Busy(worker') = 1
    BY <1>0, <1>2 DEF PrintOk, PrintFail, WorkerReport, WorkerApiReport, Busy, WorkerTyped
  <2>2. Ended' = Ended /\ ticketQ' = ticketQ
    BY <1>2 DEF PrintOk, PrintFail, WorkerReport, WorkerApiReport, Ended
  <2> QED
    BY <1>0, <2>1, <2>2 DEF Counted
<1>3. CASE WorkerSettle
  <2>1. Busy(worker) = 1 /\ Busy(worker') = 0 /\ ticketQ' = ticketQ
    BY <1>3 DEF WorkerSettle, Busy, IdleWorker
  <2>2. worker.outcome \in {"printed", "failed"}
    BY <1>3 DEF WorkerSettle, Typed, WorkerOk, Outcomes
  <2>3. /\ stat'.successfulPrints
              = stat.successfulPrints + (IF worker.outcome = "printed" THEN 1 ELSE 0)
        /\ stat'.failedPrints = stat.failedPrints + (IF worker.outcome = "failed" THEN 1 ELSE 0)
    BY <1>0, <1>3 DEF WorkerSettle, StatTyped
  <2>4. Ended' = Ended + 1
    BY <2>2, <2>3, CountsAreNumbers DEF Ended
  <2> QED
    BY <1>0, <2>1, <2>4, CountsAreNumbers DEF Counted
<1> QED
  BY <1>1, <1>2, <1>3 DEF WorkerStep

LEMMA TesterCounted ==
    ASSUME Typed, Counted, NEW u \in Testers, TestStart(u) \/ TestStep(u)
    PROVE  Counted'
<1> USE DEF memory, actors, history, bounds
<1>0. /\ TesterTyped /\ StatTyped /\ ticketQ' = ticketQ
      /\ Registering' = Registering
      /\ Holding(reader') = Holding(reader) /\ Busy(worker') = Busy(worker)
  BY DEF Typed, TypeOK, TestStart, TestStep, TestPrint, TestRecord, TestReport, Registering
<1>1. CASE TestStart(u)
  <2>0. /\ tester[u].pc = "idle" /\ tester'[u].pc = "print"
        /\ \A t \in Testers \ {u} : tester'[t] = tester[t]
    <3>1. PICK i \in TestIds, remote \in BOOLEAN :
             tester' = [tester EXCEPT ![u] = [IdleTester EXCEPT !.pc = "print", !.id = i,
                                                 !.at = clock, !.remote = remote]]
      BY <1>1 DEF TestStart
    <3> QED
      BY <1>0, <1>1, <3>1 DEF TestStart, TesterTyped, IdleTester
  <2>1. Testing' = Testing \union {u} /\ u \notin Testing
    BY <2>0 DEF Testing
  <2>2. Ended' = Ended /\ begun' = begun + 1
    BY <1>1 DEF TestStart, Ended
  <2>3. IsFiniteSet(Testing') /\ Cardinality(Testing') = Cardinality(Testing) + 1
    BY <2>1, OneIn DEF Counted
  <2> QED
    BY <1>0, <2>2, <2>3, CountsAreNumbers DEF Counted
<1>2. CASE TestPrint(u)
  <2>1. Testing' = Testing
    BY <1>0, <1>2 DEF TestPrint, Testing, TesterTyped
  <2> QED
    BY <1>0, <1>2, <2>1 DEF TestPrint, Counted, Ended
<1>3. CASE TestRecord(u)
  <2>1. Testing' = Testing \ {u} /\ u \in Testing
    BY <1>0, <1>3 DEF TestRecord, Testing, TesterTyped, IdleTester
  <2>2. tester[u].outcome \in {"printed", "failed"}
    BY <1>3 DEF TestRecord, Typed, TesterOk, Outcomes
  <2>3. /\ stat'.successfulPrints
              = stat.successfulPrints + (IF tester[u].outcome = "printed" THEN 1 ELSE 0)
        /\ stat'.failedPrints
              = stat.failedPrints + (IF tester[u].outcome = "failed" THEN 1 ELSE 0)
    BY <1>0, <1>3 DEF TestRecord, StatTyped
  <2>4. Ended' = Ended + 1 /\ begun' = begun
    BY <1>3, <2>2, <2>3, CountsAreNumbers DEF TestRecord, Ended
  <2>5. IsFiniteSet(Testing') /\ Cardinality(Testing') = Cardinality(Testing) - 1
    BY <2>1, OneOut DEF Counted
  <2>6. begun' = Ended' + Len(ticketQ') + Cardinality(Registering') + Holding(reader')
                 + Busy(worker') + Cardinality(Testing')
    <3>1. /\ begun = Ended + Len(ticketQ) + Cardinality(Registering) + Holding(reader)
                     + Busy(worker) + Cardinality(Testing)
          /\ Ended \in Nat /\ Len(ticketQ) \in Nat /\ Cardinality(Registering) \in Nat
          /\ Holding(reader) \in Nat /\ Busy(worker) \in Nat /\ Cardinality(Testing) \in Nat
      BY CountsAreNumbers DEF Counted
    <3>2. /\ begun' = begun /\ Ended' = Ended + 1 /\ ticketQ' = ticketQ
          /\ Cardinality(Registering') = Cardinality(Registering)
          /\ Holding(reader') = Holding(reader) /\ Busy(worker') = Busy(worker)
          /\ Cardinality(Testing') = Cardinality(Testing) - 1
      BY <1>0, <2>4, <2>5
    <3> QED
      BY <3>1, <3>2
  <2> QED
    BY <1>0, <2>5, <2>6 DEF Counted
<1>4. CASE TestReport(u)
  <2>1. Testing' = Testing
    BY <1>0, <1>4 DEF TestReport, Testing, TesterTyped, IdleTester
  <2> QED
    BY <1>0, <1>4, <2>1 DEF TestReport, Counted, Ended
<1> QED
  BY <1>1, <1>2, <1>3, <1>4 DEF TestStep

LEMMA StepCounted == Typed /\ Counted /\ [Next]_vars => Counted'
<1> SUFFICES ASSUME Typed, Counted, [Next]_vars PROVE Counted'
  OBVIOUS
<1> USE DEF memory, actors, history, bounds
<1>1. CASE Tick \/ UNCHANGED vars
  BY <1>1 DEF Tick, vars, Counted, Registering, Testing, Holding, Busy, Ended
<1>2. CASE Restart
  <2>1. Registering' = {} /\ Testing' = {}
    BY <1>2 DEF Restart, Registering, Testing, IdleHandler, IdleTester
  <2>2. stat'.successfulPrints = 0 /\ stat'.failedPrints = 0
    BY <1>2 DEF Restart, Typed, TypeOK, StatTyped
  <2>3. /\ Ended' = 0 /\ Len(ticketQ') = 0 /\ Holding(reader') = 0 /\ Busy(worker') = 0
        /\ begun' = 0
    BY <1>2, <2>2 DEF Restart, Ended, Holding, Busy, IdleHandler, IdleWorker
  <2> QED
    BY <2>1, <2>3, FS_EmptySet DEF Counted
<1> QED
  BY <1>1, <1>2, HandlerCounted, ReaderCounted, WorkerCounted, TesterCounted
     DEF Next, Exhausted

\* Since the process started every registered job and every test print has been
\* counted once, as a success or as a failure, or is still on its way
\* (server.go:235, 326, 382, 547, 609, 658).
THEOREM CountersAlwaysConserve == Safety => []CountersConserve
<1>1. Init => Typed /\ Counted
  BY InitTyped, InitCounted
<1>2. Typed /\ Counted /\ [Next]_vars => (Typed /\ Counted)'
  BY StepTyped, StepCounted
<1>3. Counted => CountersConserve
  BY CountedConserves
<1> QED
  BY <1>1, <1>2, <1>3, PTL DEF Safety

-----------------------------------------------------------------------------
(* The pipeline implements the ledger. *)

LEMMA InitLedger == Init => Ledger!Init
BY RemoteOnlyIds DEF Init, Ledger!Init, LedgerPhase, Remembered, NotRemembered

\* What the ledger shows of a job depends on four things only.
LEMMA SamePhase ==
    ASSUME NEW i, processed'[i] = processed[i], i \in processing' <=> i \in processing,
           (AtWorker(i) /\ worker.outcome = "printed")'
               <=> (AtWorker(i) /\ worker.outcome = "printed")
    PROVE  LedgerPhase(i)' = LedgerPhase(i)
BY DEF LedgerPhase, Remembered

\* The ledger does not see a step that changes nothing it shows.
LEMMA LedgerStutters ==
    ASSUME \A i \in RemoteOnly : LedgerPhase(i)' = LedgerPhase(i) /\ prints'[i] = prints[i]
    PROVE  UNCHANGED Ledger!vars
BY DEF Ledger!vars

LEMMA HandlerLedger ==
    ASSUME IInv, NEW h \in Handlers, HttpCheck(h) \/ HttpStep(h)
    PROVE  UNCHANGED Ledger!vars
<1> USE DEF memory, history, bounds
<1>1. UNCHANGED <<processed, worker, prints>>
  BY DEF HttpCheck, HttpStep, HttpRegister, HttpEnqueue, HttpRollback
<1>2. \A i \in RemoteOnly : i \in processing' <=> i \in processing
  BY RemoteOnlyIds DEF IInv, Foreign, HttpCheck, HttpStep, HttpRegister, HttpEnqueue,
     HttpRollback, Register, TakeBack, Unmarked
<1>3. \A i \in RemoteOnly : LedgerPhase(i)' = LedgerPhase(i)
  BY <1>1, <1>2, SamePhase DEF AtWorker
<1> QED
  BY <1>1, <1>3, LedgerStutters
\* EnqueueRemoteJob accepts a job the ledger does not know, or takes back one
\* that no room was found for.
LEMMA ReaderLedger ==
    ASSUME IInv, RemoteRegister \/ RemoteReject \/ ReaderStep
    PROVE  [Ledger!Next]_Ledger!vars
<1> USE DEF memory, history, bounds
<1>0. Typed /\ Foreign /\ (\A i \in RemoteOnly : Single(i))
  BY DEF IInv, SingleFlight, Single
<1>1. CASE RemoteRegister
  <2>1. PICK e \in RemoteIds :
            \/ UNCHANGED processing
            \/ ~Duplicate(e) /\ processing' = processing \union ({e} \ {Blank})
    BY <1>1 DEF RemoteRegister, Register
  <2>2. UNCHANGED <<processed, worker, prints>>
    BY <1>1 DEF RemoteRegister
  <2>3. CASE e \in RemoteOnly /\ ~Duplicate(e) /\ processing' = processing \union ({e} \ {Blank})
    <3>1. LedgerPhase(e) = "new"
      BY <2>3 DEF LedgerPhase, Duplicate
    <3>2. ~AtWorker(e)
      BY <1>0, <2>3 DEF Single, InFlight, Duplicate
    <3>3. LedgerPhase(e)' = "pending"
      BY <2>2, <2>3, <3>2, RemoteOnlyIds DEF LedgerPhase, Duplicate, Remembered, AtWorker
    <3>4. \A i \in RemoteOnly \ {e} : LedgerPhase(i)' = LedgerPhase(i)
      BY <2>2, <2>3, SamePhase DEF AtWorker
    <3>5. Ledger!Accept(e)
      BY <2>2, <2>3, <3>1, <3>3, <3>4 DEF Ledger!Accept
    <3> QED
      BY <2>3, <3>5 DEF Ledger!Next
  <2>4. CASE UNCHANGED processing \/ e \notin RemoteOnly
    <3>1. \A i \in RemoteOnly : LedgerPhase(i)' = LedgerPhase(i)
      BY <2>1, <2>2, <2>4, SamePhase DEF AtWorker
    <3> QED
      BY <2>2, <3>1, LedgerStutters
  <2> QED
    BY <2>1, <2>3, <2>4
<1>2. CASE RemoteRollback
  <2>0. PICK e : e = reader.id
    OBVIOUS
  <2>1. processing' = processing \ {e} /\ UNCHANGED <<processed, worker, prints>> /\ AtReader(e)
    BY <1>2, <2>0 DEF RemoteRollback, TakeBack, Unmarked, AtReader
  <2>2. \A i \in RemoteOnly \ {e} : LedgerPhase(i)' = LedgerPhase(i)
    BY <2>1, SamePhase DEF AtWorker
  <2>3. CASE e \in RemoteOnly
    <3>1. e \in processing /\ ~Remembered(e) /\ ~AtWorker(e)
      BY <1>0, <2>1, <2>3 DEF Single, InFlight, OneCopy
    <3>2. LedgerPhase(e) = "pending" /\ LedgerPhase(e)' = "new"
      BY <2>1, <3>1 DEF LedgerPhase, Remembered
    <3>3. Ledger!Refuse(e)
      BY <2>1, <2>2, <2>3, <3>2 DEF Ledger!Refuse
    <3> QED
      BY <2>3, <3>3 DEF Ledger!Next, Ledger!Progress
  <2>4. CASE e \notin RemoteOnly
    BY <2>1, <2>2, <2>4, LedgerStutters
  <2> QED
    BY <2>3, <2>4
<1>3. CASE RemoteReject \/ RemoteEnqueue \/ RemoteReportRefusal
  <2>1. UNCHANGED <<processing, processed, worker, prints>>
    BY <1>3 DEF RemoteReject, RemoteEnqueue, RemoteReportRefusal
  <2>2. \A i \in RemoteOnly : LedgerPhase(i)' = LedgerPhase(i)
    BY <2>1, SamePhase DEF AtWorker
  <2> QED
    BY <2>1, <2>2, LedgerStutters
<1> QED
  BY <1>1, <1>2, <1>3 DEF ReaderStep

LEMMA WorkerLedger ==
    ASSUME IInv, WorkerStep
    PROVE  [Ledger!Next]_Ledger!vars
<1> USE DEF memory, history, bounds
<1>0. /\ Typed /\ Foreign /\ (\A i \in RemoteOnly : Single(i))
      /\ WorkerTyped /\ WorkerOk /\ TablesTyped /\ HistoryTyped /\ NoOrphanMark
  BY DEF IInv, SingleFlight, Single, Typed, TypeOK
<1>1. CASE PrintOk
  <2>0. PICK e : e = worker.id
    OBVIOUS
  <2>1. /\ UNCHANGED <<processing, processed>> /\ AtWorker(e) /\ worker.outcome = "none"
        /\ worker'.pc = "report" /\ worker'.id = e /\ worker'.outcome = "printed"
        /\ prints' = [prints EXCEPT ![e] = @ + 1] /\ e \in JobIds
    BY <1>0, <1>1, <2>0 DEF PrintOk, AtWorker, WorkerTyped, WorkerOk
  <2>2. \A i \in RemoteOnly \ {e} : LedgerPhase(i)' = LedgerPhase(i) /\ prints'[i] = prints[i]
    BY <1>0, <2>1, SamePhase, RemoteOnlyIds DEF AtWorker, HistoryTyped
  <2>3. CASE e \in RemoteOnly
    <3>1. e \in processing /\ ~Remembered(e)
      BY <1>0, <2>1, <2>3 DEF Single, InFlight
    <3>2. LedgerPhase(e) = "pending" /\ LedgerPhase(e)' = "onPaper"
      BY <2>1, <3>1 DEF LedgerPhase, Remembered, AtWorker
    <3>3. prints'[e] = prints[e] + 1
      BY <1>0, <2>1 DEF HistoryTyped
    <3>4. Ledger!PutOnPaper(e)
      BY <2>2, <2>3, <3>2, <3>3 DEF Ledger!PutOnPaper
    <3> QED
      BY <2>3, <3>4 DEF Ledger!Next, Ledger!Progress
  <2>4. CASE e \notin RemoteOnly
    BY <2>2, <2>4, LedgerStutters
  <2> QED
    BY <2>3, <2>4
<1>2. CASE WorkerTake
  <2>1. /\ UNCHANGED <<processing, processed, prints>>
        /\ worker.pc = "idle" /\ worker'.outcome = "none"
    BY <1>2 DEF WorkerTake, IdleWorker
  <2>2. \A i \in RemoteOnly : LedgerPhase(i)' = LedgerPhase(i)
    BY <2>1, SamePhase DEF AtWorker
  <2> QED
    BY <2>1, <2>2, LedgerStutters
<1>3. CASE PrintFail \/ WorkerReport \/ WorkerApiReport
  <2>1. /\ UNCHANGED <<processing, processed, prints>>
        /\ worker.pc # "idle" /\ worker'.pc # "idle" /\ worker'.id = worker.id
        /\ worker'.outcome = "printed" <=> worker.outcome = "printed"
    BY <1>0, <1>3 DEF PrintFail, WorkerReport, WorkerApiReport, WorkerTyped, WorkerOk
  <2>2. \A i \in RemoteOnly : LedgerPhase(i)' = LedgerPhase(i)
    BY <2>1, SamePhase DEF AtWorker
  <2> QED
    BY <2>1, <2>2, LedgerStutters
<1>4. CASE WorkerSettle
  <2>0. PICK e, outcome, at : e = worker.id /\ outcome = worker.outcome /\ at = worker.at
    OBVIOUS
  <2>1. /\ processing' = processing \ {e} /\ UNCHANGED prints
        /\ worker.pc = "settle" /\ worker'.pc = "idle"
        /\ Remember(e, outcome, at)
    BY <1>4, <2>0 DEF WorkerSettle, Unmarked, IdleWorker
  <2>2. e \in JobIds /\ outcome \in Outcomes /\ at \in Nat
    BY <1>0, <2>0, <2>1 DEF WorkerTyped, WorkerOk
  <2>3. processed \in [JobIds -> Entry]
    BY <1>0 DEF TablesTyped, Entry
  <2>4. PICK gone \in SUBSET {j \in JobIds : Remembered(j) \/ j = e} :
            \A j \in JobIds :
                processed'[j] = IF j \in gone THEN NotRemembered
                                ELSE IF j = e /\ e # Blank
                                     THEN [status |-> outcome, at |-> at]
                                     ELSE processed[j]
    BY <2>1, <2>2, <2>3, RememberEffect
  <2> DEFINE forgotten == gone \intersect RemoteOnly
  <2>5. \A i \in RemoteOnly \ {e} :
            LedgerPhase(i)' = IF i \in forgotten THEN "new" ELSE LedgerPhase(i)
    <3> SUFFICES ASSUME NEW i \in RemoteOnly \ {e}
                 PROVE  LedgerPhase(i)' = IF i \in forgotten THEN "new" ELSE LedgerPhase(i)
      OBVIOUS
    <3>1. CASE i \in gone
      <4>1. Remembered(i) /\ ~Remembered(i)'
        BY <2>4, <3>1, RemoteOnlyIds DEF Remembered, NotRemembered
      <4>2. i \notin processing'
        BY <1>0, <2>1, <4>1 DEF Single, NoOrphanMark
      <4> QED
        BY <3>1, <4>1, <4>2 DEF LedgerPhase
    <3>2. CASE i \notin gone
      <4>1. processed'[i] = processed[i]
        BY <2>4, <3>2, RemoteOnlyIds
      <4> QED
        BY <2>0, <2>1, <3>2, <4>1, SamePhase DEF AtWorker
    <3> QED
      BY <3>1, <3>2
  <2>6. \A i \in forgotten : i = e \/ LedgerPhase(i) \in {"printed", "failed"}
    BY <2>3, <2>4 DEF LedgerPhase, Remembered, Entry, Outcomes
  <2>7. CASE e \in RemoteOnly
    <3>1. e \in processing /\ ~Remembered(e) /\ AtWorker(e)
      BY <1>0, <2>0, <2>1, <2>7 DEF Single, InFlight, AtWorker
    <3>2. LedgerPhase(e) = IF outcome = "printed" THEN "onPaper" ELSE "pending"
      BY <2>0, <3>1 DEF LedgerPhase
    <3>3. LedgerPhase(e)' = IF e \in forgotten THEN "new" ELSE outcome
      BY <2>1, <2>2, <2>4, <2>7, RemoteOnlyIds DEF LedgerPhase, Remembered, NotRemembered, Outcomes
    <3>4. Ledger!Settle(e, outcome, forgotten)
      BY <2>1, <2>5, <2>7, <3>2, <3>3 DEF Ledger!Settle
    <3>5. forgotten \in SUBSET (Ledger!Settled \union {e})
      BY <2>6 DEF Ledger!Settled
    <3>6. Ledger!Finish(e)
      BY <2>2, <3>4, <3>5 DEF Ledger!Finish, Outcomes
    <3> QED
      BY <2>7, <3>6 DEF Ledger!Next, Ledger!Progress
  <2>8. CASE e \notin RemoteOnly
    <3>1. forgotten \in SUBSET Ledger!Settled
      BY <2>6, <2>8 DEF Ledger!Settled
    <3>2. Ledger!Forget(forgotten)
      BY <2>1, <2>5, <2>8 DEF Ledger!Forget
    <3> QED
      BY <3>1, <3>2 DEF Ledger!Next
  <2> QED
    BY <2>7, <2>8
<1> QED
  BY <1>1, <1>2, <1>3, <1>4 DEF WorkerStep
\* A test print can only make the memory forget.
LEMMA TestLedger ==
    ASSUME IInv, NEW u \in Testers, TestStart(u) \/ TestStep(u)
    PROVE  [Ledger!Next]_Ledger!vars
<1> USE DEF memory, history, bounds
<1>0. /\ Foreign /\ (\A i \in RemoteOnly : Single(i)) /\ NoOrphanMark
      /\ TesterTyped /\ TesterOk /\ TablesTyped /\ HistoryTyped
  BY DEF IInv, SingleFlight, Single, Typed, TypeOK
<1>1. CASE TestStart(u) \/ TestPrint(u) \/ TestReport(u)
  <2>1. UNCHANGED <<processing, processed, worker>>
    BY <1>1 DEF TestStart, TestPrint, TestReport
  <2>2. \A i \in RemoteOnly : LedgerPhase(i)' = LedgerPhase(i)
    BY <2>1, SamePhase DEF AtWorker
  <2>3. ~PrintOk
    <3>1. tester'[u].pc # tester[u].pc
      <4>1. CASE TestStart(u)
        BY <1>0, <4>1 DEF TestStart, TesterTyped, IdleTester
      <4>2. CASE TestPrint(u)
        <5>1. tester[u].pc = "print" /\ tester'[u].pc = "record"
          BY <1>0, <4>2 DEF TestPrint, TesterTyped
        <5> QED
          BY <5>1
      <4>3. CASE TestReport(u)
        BY <1>0, <4>3 DEF TestReport, TesterTyped, IdleTester
      <4> QED
        BY <1>1, <4>1, <4>2, <4>3
    <3> QED
      BY <3>1 DEF PrintOk
  <2>4. \A i \in RemoteOnly : prints'[i] = prints[i]
    BY <1>1, <2>3, StepPrints DEF Next, TestStep
  <2> QED
    BY <2>2, <2>4, LedgerStutters
<1>2. CASE TestRecord(u)
  <2>0. PICK e, outcome, at :
            e = tester[u].id /\ outcome = tester[u].outcome /\ at = tester[u].at
    OBVIOUS
  <2>1. /\ UNCHANGED <<processing, worker, prints>> /\ tester[u].pc = "record"
        /\ Remember(e, outcome, at)
    BY <1>2, <2>0 DEF TestRecord
  <2>2. e \in JobIds /\ e \notin RemoteOnly /\ outcome \in Outcomes /\ at \in Nat
    BY <1>0, <2>0, <2>1, RemoteOnlyIds DEF TesterTyped, TesterOk, Foreign
  <2>3. processed \in [JobIds -> Entry]
    BY <1>0 DEF TablesTyped, Entry
  <2>4. PICK gone \in SUBSET {j \in JobIds : Remembered(j) \/ j = e} :
            \A j \in JobIds :
                processed'[j] = IF j \in gone THEN NotRemembered
                                ELSE IF j = e /\ e # Blank
                                     THEN [status |-> outcome, at |-> at]
                                     ELSE processed[j]
    BY <2>1, <2>2, <2>3, RememberEffect
  <2> DEFINE forgotten == gone \intersect RemoteOnly
  <2>5. \A i \in RemoteOnly :
            LedgerPhase(i)' = IF i \in forgotten THEN "new" ELSE LedgerPhase(i)
    <3> SUFFICES ASSUME NEW i \in RemoteOnly
                 PROVE  LedgerPhase(i)' = IF i \in forgotten THEN "new" ELSE LedgerPhase(i)
      OBVIOUS
    <3>1. CASE i \in gone
      <4>1. Remembered(i) /\ ~Remembered(i)'
        BY <2>2, <2>4, <3>1, RemoteOnlyIds DEF Remembered, NotRemembered
      <4>2. i \notin processing'
        BY <1>0, <2>1, <4>1 DEF Single, NoOrphanMark
      <4> QED
        BY <3>1, <4>1, <4>2 DEF LedgerPhase
    <3>2. CASE i \notin gone
      <4>1. processed'[i] = processed[i]
        BY <2>2, <2>4, <3>2, RemoteOnlyIds
      <4> QED
        BY <2>1, <3>2, <4>1, SamePhase DEF AtWorker
    <3> QED
      BY <3>1, <3>2
  <2>6. forgotten \in SUBSET Ledger!Settled
    BY <2>2, <2>3, <2>4 DEF Ledger!Settled, LedgerPhase, Remembered, Entry, Outcomes
  <2>7. Ledger!Forget(forgotten)
    BY <2>1, <2>5 DEF Ledger!Forget
  <2> QED
    BY <2>6, <2>7 DEF Ledger!Next
<1> QED
  BY <1>1, <1>2 DEF TestStep

LEMMA StepLedger == IInv /\ [Next]_vars => [Ledger!Next]_Ledger!vars
<1> SUFFICES ASSUME IInv, [Next]_vars PROVE [Ledger!Next]_Ledger!vars
  OBVIOUS
<1>1. CASE \E h \in Handlers : HttpCheck(h) \/ HttpStep(h)
  BY <1>1, HandlerLedger
<1>2. CASE RemoteRegister \/ RemoteReject \/ ReaderStep
  BY <1>2, ReaderLedger
<1>3. CASE WorkerStep
  BY <1>3, WorkerLedger
<1>4. CASE \E u \in Testers : TestStart(u) \/ TestStep(u)
  BY <1>4, TestLedger
<1>5. CASE Restart
  <2>1. \A i \in RemoteOnly : LedgerPhase(i)' = "new"
    BY <1>5, RemoteOnlyIds DEF Restart, LedgerPhase, Remembered, NotRemembered
  <2>2. UNCHANGED prints
    BY <1>5 DEF Restart
  <2>3. Ledger!Restart
    BY <2>1, <2>2 DEF Ledger!Restart
  <2> QED
    BY <2>3 DEF Ledger!Next
<1>6. CASE SetWSReporter \/ Tick \/ UNCHANGED vars
  <2>1. UNCHANGED <<processing, processed, worker, prints>>
    BY <1>6 DEF SetWSReporter, Tick, vars, memory, actors, history
  <2>2. \A i \in RemoteOnly : LedgerPhase(i)' = LedgerPhase(i)
    BY <2>1, SamePhase DEF AtWorker
  <2> QED
    BY <2>1, <2>2, LedgerStutters
<1> QED
  BY <1>1, <1>2, <1>3, <1>4, <1>5, <1>6 DEF Next, Exhausted

\* The channel, the two tables and all the goroutines that share them
\* implement the ledger: between two copies of a gateway job on paper the
\* agent has settled it and forgotten it, or has been restarted
\* (server.go:180-239, 561-662, 686-710).
THEOREM ImplementsLedger == Safety => LedgerSafety
<1>1. Init => Ledger!Init
  BY InitLedger
<1>2. Init => IInv
  BY InitIInv
<1>3. IInv /\ [Next]_vars => IInv'
  BY StepIInv
<1>4. IInv /\ [Next]_vars => [Ledger!Next]_Ledger!vars
  BY StepLedger
<1> QED
  BY <1>1, <1>2, <1>3, <1>4, PTL DEF Safety, LedgerSafety, Ledger!Safety

-----------------------------------------------------------------------------
(* What the ledger promises, carried over to the pipeline. *)

\* What the memory of finished jobs calls printed is on paper.
RememberedOnPaper ==
    \A i \in RemoteOnly : Remembered(i) /\ processed[i].status = "printed" => prints[i] > 0

OnPaperByLedger ==
    /\ \A i \in RemoteOnly : prints[i] \in Nat
    /\ \A i \in RemoteOnly : LedgerPhase(i) \in {"onPaper", "printed"} => prints[i] > 0

LEMMA LedgerInit == Ledger!Init => OnPaperByLedger
<1> SUFFICES ASSUME Ledger!Init PROVE OnPaperByLedger
  OBVIOUS
<1>1. \A i \in RemoteOnly : LedgerPhase(i) = "new" /\ prints[i] = 0
  BY DEF Ledger!Init
<1> QED
  BY <1>1 DEF OnPaperByLedger

LEMMA LedgerKeeps == OnPaperByLedger /\ [Ledger!Next]_(Ledger!vars) => OnPaperByLedger'
<1> SUFFICES ASSUME OnPaperByLedger, [Ledger!Next]_(Ledger!vars)
             PROVE  OnPaperByLedger'
  OBVIOUS
<1>1. ASSUME \A i \in RemoteOnly : prints'[i] = prints[i],
             \A i \in RemoteOnly : LedgerPhase(i)' \in {"onPaper", "printed"} =>
                                     LedgerPhase(i) \in {"onPaper", "printed"}
      PROVE  OnPaperByLedger'
  BY <1>1 DEF OnPaperByLedger
<1>2. CASE UNCHANGED Ledger!vars
  BY <1>1, <1>2 DEF Ledger!vars
<1>3. ASSUME NEW e \in RemoteOnly, Ledger!Accept(e) \/ Ledger!Refuse(e) PROVE OnPaperByLedger'
  BY <1>1, <1>3 DEF Ledger!Accept, Ledger!Refuse
<1>4. ASSUME NEW e \in RemoteOnly, Ledger!PutOnPaper(e) PROVE OnPaperByLedger'
  <2>1. /\ prints'[e] = prints[e] + 1
        /\ \A i \in RemoteOnly \ {e} : prints'[i] = prints[i] /\ LedgerPhase(i)' = LedgerPhase(i)
    BY <1>4 DEF Ledger!PutOnPaper
  <2> QED
    BY <2>1 DEF OnPaperByLedger
<1>5. ASSUME NEW e \in RemoteOnly, Ledger!Finish(e) PROVE OnPaperByLedger'
  <2>1. PICK outcome \in {"printed", "failed"}, forgotten \in SUBSET (Ledger!Settled \union {e}) :
            Ledger!Settle(e, outcome, forgotten)
    BY <1>5 DEF Ledger!Finish
  <2>2. \A i \in RemoteOnly : prints'[i] = prints[i]
    BY <2>1 DEF Ledger!Settle
  <2>3. /\ LedgerPhase(e) = IF outcome = "printed" THEN "onPaper" ELSE "pending"
        /\ \A i \in RemoteOnly : LedgerPhase(i)' = IF i \in forgotten THEN "new"
                                                   ELSE IF i = e THEN outcome ELSE LedgerPhase(i)
    BY <2>1 DEF Ledger!Settle
  <2> QED
    BY <1>1, <2>2, <2>3
<1>6. ASSUME NEW forgotten, Ledger!Forget(forgotten) PROVE OnPaperByLedger'
  BY <1>1, <1>6 DEF Ledger!Forget
<1>7. CASE Ledger!Restart
  BY <1>1, <1>7 DEF Ledger!Restart
<1> QED
  BY <1>2, <1>3, <1>4, <1>5, <1>6, <1>7 DEF Ledger!Next, Ledger!Progress

\* A duplicate is answered from the memory of finished jobs, and for a job of the
\* gateway what the memory calls printed is on paper; the proof looks at the
\* ledger alone (server.go:202-213, 488-514, 593-602).
THEOREM MemoryIsTrue == Safety => []RememberedOnPaper
<1>1. Ledger!Init => OnPaperByLedger
  BY LedgerInit
<1>2. OnPaperByLedger /\ [Ledger!Next]_(Ledger!vars) => OnPaperByLedger'
  BY LedgerKeeps
<1>3. OnPaperByLedger => RememberedOnPaper
  BY DEF OnPaperByLedger, RememberedOnPaper, LedgerPhase
<1> QED
  BY <1>1, <1>2, <1>3, ImplementsLedger, PTL DEF LedgerSafety, Ledger!Safety

=============================================================================
