-------------------------- MODULE GatewayLinkProofs -------------------------
(***************************************************************************)
(* Theorems about GatewayLink, for every set of results, capacity of the   *)
(* outbox and number of connections, failed dials and pings.               *)
(***************************************************************************)
EXTENDS GatewayLink, InductionOverSets, TLAPS

-----------------------------------------------------------------------------
(* Type correctness. *)

LEMMA ConstantTypes ==
    /\ "register" \in Messages /\ "pong" \in Messages /\ Results \subseteq Messages
    /\ "register" \notin Results /\ "pong" \notin Results
    /\ MaxConnections \in Nat /\ MaxConnections >= 1
    /\ SendCapacity \in Nat /\ SendCapacity >= 1
    /\ MaxDialFailures \in Nat /\ MaxPings \in Nat
  BY LinkAssumption DEF Messages

RunnerRecords ==
    [pc : {"top", "dial", "register", "launch", "start", "read", "done", "close", "join",
           "wait", "ended"},
     conn : 0..MaxConnections]
WriterRecords ==
    [pc : {"none", "start", "select", "write", "closing", "finished"},
     conn : 0..MaxConnections, msg : Messages]

LEMMA NoWriterTyped == NoWriter \in WriterRecords /\ Nil \in 0..MaxConnections
  BY ConstantTypes DEF NoWriter, WriterRecords, Nil

LEMMA GoTyped ==
    ASSUME TypeOK, NEW pc \in {"top", "dial", "register", "launch", "start", "read", "done",
                               "close", "join", "wait", "ended"},
           Go(pc)
    PROVE  runner' \in RunnerRecords /\ runner'.pc = pc /\ runner'.conn = runner.conn
  BY DEF Go, TypeOK, RunnerRecords

LEMMA CloseTyped ==
    TypeOK /\ CloseConnection
        => conn' \in 0..MaxConnections /\ sock' \in [Connections -> {"unused", "open", "closed"}]
  BY NoWriterTyped DEF CloseConnection, TypeOK

\* One message more on one connection.
LEMMA WrittenTyped ==
    ASSUME TypeOK, NEW c \in 0..MaxConnections, NEW m \in Messages
    PROVE  [wire EXCEPT ![c] = Append(@, m)] \in [Connections -> Seq(Messages)]
<1>1. \A d \in Connections : wire[d] \in Seq(Messages) /\ Append(wire[d], m) \in Seq(Messages)
  BY DEF TypeOK
<1> QED
  BY <1>1 DEF TypeOK

\* One message more in the outbox.
LEMMA EnqueuedTyped ==
    ASSUME TypeOK, NEW m \in Messages, CanEnqueue, send' = Append(send, m)
    PROVE  send' \in Seq(Messages) /\ Len(send') =< SendCapacity
<1>1. send \in Seq(Messages) /\ Len(send) \in Nat /\ Len(send) < SendCapacity
  BY DEF TypeOK, CanEnqueue, SendHasRoom
<1>2. Len(Append(send, m)) = Len(send) + 1 /\ Append(send, m) \in Seq(Messages)
  BY <1>1
<1> QED
  BY <1>1, <1>2, ConstantTypes

LEMMA InitTypeOK == Init => TypeOK
<1> SUFFICES ASSUME Init PROVE TypeOK
  OBVIOUS
<1>1. /\ conn \in 0..MaxConnections /\ opened \in 0..MaxConnections
      /\ dialFailures \in 0..MaxDialFailures /\ pings \in 0..MaxPings
  BY ConstantTypes DEF Init, Nil
<1>2. /\ wire \in [Connections -> Seq(Messages)] /\ send \in Seq(Messages)
      /\ Len(send) =< SendCapacity /\ accepted \in Seq(Results)
  BY ConstantTypes DEF Init
<1>3. runner \in RunnerRecords /\ writer \in WriterRecords
  BY NoWriterTyped DEF Init, RunnerRecords
<1>4. peer \in [Connections -> BOOLEAN] /\ done \in BOOLEAN /\ stopCh \in BOOLEAN
  BY DEF Init
<1> QED
  BY <1>1, <1>2, <1>3, <1>4 DEF Init, TypeOK, RunnerRecords, WriterRecords

LEMMA DialingTypeOK == TypeOK /\ (RunTop \/ DialFail \/ DialOk \/ RegisterOk \/
   RegisterFail) => TypeOK'
<1> SUFFICES ASSUME TypeOK, RunTop \/ DialFail \/ DialOk \/ RegisterOk \/ RegisterFail
   PROVE TypeOK'
  OBVIOUS
<1> USE DEF sockets, history
<1>1. CASE RunTop
  <2>1. /\ conn' \in 0..MaxConnections /\ runner' \in RunnerRecords
        /\ sock' \in [Connections -> {"unused", "open", "closed"}]
    BY <1>1, CloseTyped, GoTyped DEF RunTop, TypeOK
  <2> QED
    BY <1>1, <2>1 DEF RunTop, CloseConnection, TypeOK, RunnerRecords
<1>2. CASE DialFail
  <2>1. runner' \in RunnerRecords
    BY <1>2, GoTyped DEF DialFail
  <2>2. dialFailures' \in 0..MaxDialFailures
    BY <1>2, ConstantTypes DEF DialFail, TypeOK
  <2> QED
    BY <1>2, <2>1, <2>2 DEF DialFail, TypeOK, RunnerRecords
<1>3. CASE DialOk
  <2>1. runner' \in RunnerRecords
    BY <1>3, GoTyped DEF DialOk
  <2>2. opened' \in 1..MaxConnections /\ conn' = opened'
    BY <1>3, ConstantTypes DEF DialOk, TypeOK
  <2>3. opened' \in 0..MaxConnections /\ conn' \in 0..MaxConnections
    BY <2>2, ConstantTypes
  <2>4. /\ sock' \in [Connections -> {"unused", "open", "closed"}]
        /\ peer' \in [Connections -> BOOLEAN]
    BY <1>3 DEF DialOk, TypeOK
  <2> QED
    BY <1>3, <2>1, <2>3, <2>4 DEF DialOk, TypeOK, RunnerRecords
<1>4. CASE RegisterOk
  <2>1. runner' \in RunnerRecords
    BY <1>4, GoTyped DEF RegisterOk
  <2>2. wire' \in [Connections -> Seq(Messages)]
    BY <1>4, WrittenTyped, ConstantTypes DEF RegisterOk, TypeOK
  <2> QED
    BY <1>4, <2>1, <2>2 DEF RegisterOk, TypeOK, RunnerRecords
<1>5. CASE RegisterFail
  BY <1>5, ConstantTypes DEF RegisterFail, At, Go, Connections, Nil, TypeOK
<1> QED
  BY <1>1, <1>2, <1>3, <1>4, <1>5

LEMMA PumpingTypeOK == TypeOK /\ (Launch \/ ReadStart \/ ReadPing \/ ReadClosed \/
   ReadPeerGone) => TypeOK'
<1> SUFFICES ASSUME TypeOK, Launch \/ ReadStart \/ ReadPing \/ ReadClosed \/ ReadPeerGone
   PROVE TypeOK'
  OBVIOUS
<1> USE DEF sockets, history
<1>1. CASE Launch
  <2>1. runner' \in RunnerRecords
    BY <1>1, GoTyped DEF Launch
  <2>2. writer' \in WriterRecords
    BY <1>1, NoWriterTyped DEF Launch, WriterRecords
  <2> QED
    BY <1>1, <2>1, <2>2 DEF Launch, TypeOK, RunnerRecords, WriterRecords
<1>2. CASE ReadStart
  BY <1>2, ConstantTypes DEF ReadStart, At, Connections, Nil, TypeOK
<1>3. CASE ReadPing
  <2>1. runner' \in RunnerRecords
    BY <1>3, GoTyped DEF ReadPing, TypeOK, RunnerRecords
  <2>2. send' \in Seq(Messages) /\ Len(send') =< SendCapacity
    BY <1>3, EnqueuedTyped, ConstantTypes DEF ReadPing, TypeOK
  <2>3. pings' \in 0..MaxPings
    BY <1>3, ConstantTypes DEF ReadPing, TypeOK
  <2> QED
    BY <1>3, <2>1, <2>2, <2>3 DEF ReadPing, TypeOK, RunnerRecords
<1>4. CASE ReadClosed
  BY <1>4, ConstantTypes DEF ReadClosed, At, Go, Connections, Nil, TypeOK
<1>5. CASE ReadPeerGone
  BY <1>5, ConstantTypes DEF ReadPeerGone, At, Go, Connections, Nil, TypeOK
<1> QED
  BY <1>1, <1>2, <1>3, <1>4, <1>5

LEMMA LeavingTypeOK == TypeOK /\ (CloseDone \/ RunClose \/ RunJoin \/ RunWait) => TypeOK'
<1> SUFFICES ASSUME TypeOK, CloseDone \/ RunClose \/ RunJoin \/ RunWait PROVE TypeOK'
  OBVIOUS
<1> USE DEF sockets, history
<1>1. CASE CloseDone
  BY <1>1, ConstantTypes DEF CloseDone, At, Go, Connections, Nil, TypeOK
<1>2. CASE RunClose
  <2>1. runner' \in RunnerRecords
    BY <1>2, GoTyped DEF RunClose
  <2> QED
    BY <1>2, <2>1, CloseTyped DEF RunClose, CloseConnection, TypeOK, RunnerRecords
<1>3. CASE RunJoin
  BY <1>3, ConstantTypes DEF RunJoin, At, Go, Joined, Connections, Nil, TypeOK
<1>4. CASE RunWait
  BY <1>4, ConstantTypes DEF RunWait, At, Go, Connections, Nil, TypeOK
<1> QED
  BY <1>1, <1>2, <1>3, <1>4

LEMMA WriterTypeOK == TypeOK /\ (WriterStart \/ WriterQuit \/ WriterTake \/ WriterWrite \/
   WriterFail \/ WriterPingFail \/ WriterClose) => TypeOK'
<1> SUFFICES ASSUME TypeOK, WriterStart \/ WriterQuit \/ WriterTake \/ WriterWrite \/
   WriterFail \/ WriterPingFail \/ WriterClose PROVE TypeOK'
  OBVIOUS
<1> USE DEF sockets, history
<1>1. CASE WriterStart
  BY <1>1, ConstantTypes DEF WriterStart, Connections, Nil, TypeOK
<1>2. CASE WriterQuit
  BY <1>2, ConstantTypes DEF WriterQuit, QuitSignal, Connections, Nil, TypeOK
<1>3. CASE WriterTake
  <2>1. /\ Head(send) \in Messages /\ Tail(send) \in Seq(Messages)
        /\ Len(Tail(send)) =< SendCapacity
    <3>1. send \in Seq(Messages) /\ send # <<>> /\ Len(send) =< SendCapacity
      BY <1>3 DEF WriterTake, TypeOK
    <3>2. Len(Tail(send)) = Len(send) - 1 /\ Len(send) \in Nat
      BY <3>1
    <3> QED
      BY <3>1, <3>2, ConstantTypes
  <2>2. writer' \in WriterRecords
    BY <1>3, <2>1 DEF WriterTake, TypeOK, WriterRecords
  <2> QED
    BY <1>3, <2>1, <2>2 DEF WriterTake, TypeOK, WriterRecords
<1>4. CASE WriterWrite
  <2>1. wire' \in [Connections -> Seq(Messages)]
    BY <1>4, WrittenTyped DEF WriterWrite, TypeOK
  <2>2. writer' \in WriterRecords
    BY <1>4 DEF WriterWrite, TypeOK, WriterRecords
  <2> QED
    BY <1>4, <2>1, <2>2 DEF WriterWrite, TypeOK, WriterRecords
<1>5. CASE WriterFail
  BY <1>5, ConstantTypes DEF WriterFail, Broken, Connections, Nil, TypeOK
<1>6. CASE WriterPingFail
  BY <1>6, ConstantTypes DEF WriterPingFail, Broken, Connections, Nil, TypeOK
<1>7. CASE WriterClose
  <2>1. writer' \in WriterRecords
    BY <1>7 DEF WriterClose, TypeOK, WriterRecords
  <2> QED
    BY <1>7, <2>1, CloseTyped DEF WriterClose, CloseConnection, TypeOK, WriterRecords
<1> QED
  BY <1>1, <1>2, <1>3, <1>4, <1>5, <1>6, <1>7

LEMMA WorldTypeOK == TypeOK /\ (PeerGone \/ Stop \/ AtRest) => TypeOK'
<1> SUFFICES ASSUME TypeOK, PeerGone \/ Stop \/ AtRest PROVE TypeOK'
  OBVIOUS
<1> USE DEF sockets, history
<1>1. CASE PeerGone
  BY <1>1, ConstantTypes DEF PeerGone, Connections, Nil, TypeOK
<1>2. CASE Stop
  BY <1>2, ConstantTypes DEF Stop, Connections, Nil, TypeOK
<1>3. CASE AtRest
  BY <1>3, ConstantTypes DEF AtRest, At, vars, Connections, Nil, TypeOK
<1> QED
  BY <1>1, <1>2, <1>3

LEMMA ReportTypeOK == ASSUME TypeOK, NEW m \in Results, ReportResult(m) PROVE TypeOK'
<1> USE DEF sockets, history
<1>1. CASE /\ CanEnqueue /\ send' = Append(send, m) /\ accepted' = Append(accepted, m)
           /\ UNCHANGED refused
  <2>1. send' \in Seq(Messages) /\ Len(send') =< SendCapacity
    BY <1>1, EnqueuedTyped, ConstantTypes
  <2>2. accepted' \in Seq(Results)
    BY <1>1 DEF TypeOK
  <2> QED
    BY <1>1, <2>1, <2>2 DEF ReportResult, TypeOK
<1>2. CASE refused' = refused \union {m} /\ UNCHANGED <<send, accepted>>
  BY <1>2 DEF ReportResult, TypeOK
<1> QED
  BY <1>1, <1>2 DEF ReportResult

LEMMA StepTypeOK == TypeOK /\ [Next]_vars => TypeOK'
<1> SUFFICES ASSUME TypeOK, [Next]_vars PROVE TypeOK'
  OBVIOUS
<1>1. CASE UNCHANGED vars
  BY <1>1 DEF vars, sockets, history, TypeOK
<1> QED
  BY <1>1, DialingTypeOK, PumpingTypeOK, LeavingTypeOK, WriterTypeOK, WorldTypeOK, ReportTypeOK
     DEF Next, RunnerStep, WriterStep

\* Every reachable state is well typed; in particular c.send never holds more
\* than its capacity, whatever it is (ws_client.go:341-354).
THEOREM TypeCorrect == Safety => []TypeOK
<1>1. Init => TypeOK
  BY InitTypeOK
<1>2. TypeOK /\ [Next]_vars => TypeOK'
  BY StepTypeOK
<1> QED
  BY <1>1, <1>2, PTL DEF Safety

-----------------------------------------------------------------------------
(* The inductive invariant. *)

\* No writePump is left when Run dials and registers, and one that writes or
\* closes does so on the newest connection.
Goroutines ==
    /\ runner.pc \in {"top", "dial", "register", "launch", "wait", "ended"}
          => writer.pc \in {"none", "finished"}
    /\ writer.pc \in {"select", "write", "closing"} => writer.conn = opened

\* Only the connection c.conn names can be open, and none is between two.
OpenSockets ==
    /\ conn \in {Nil, opened}
    /\ \A c \in Connections : sock[c] = "open" => c = conn
    /\ runner.pc \in {"top", "dial", "join", "wait", "ended"}
          => \A c \in Connections : sock[c] # "open"

\* The newest connection is silent until it is registered, and only registered
\* ones are written on.
Registered ==
    /\ \A c \in Connections : c > opened => wire[c] = <<>>
    /\ runner.pc = "register" => conn = opened /\ opened >= 1 /\ wire[opened] = <<>>
    /\ runner.pc \in {"launch", "start", "read", "done", "close", "join"}
          => opened >= 1 /\ Len(wire[opened]) >= 1

\* Nobody but Run writes a registration.
NotRegister ==
    /\ \A k \in 1..Len(send) : send[k] # "register"
    /\ writer.msg # "register"

IInv ==
    TypeOK /\ Goroutines /\ OpenSockets /\ Registered /\ NotRegister /\ RegistersFirst

LEMMA InitIInv == Init => IInv
<1> SUFFICES ASSUME Init PROVE IInv
  OBVIOUS
<1>1. Goroutines /\ OpenSockets
  BY DEF Init, NoWriter, Goroutines, OpenSockets
<1>2. Registered /\ NotRegister /\ RegistersFirst
  BY DEF Init, NoWriter, Registered, NotRegister, RegistersFirst
<1> QED
  BY <1>1, <1>2, InitTypeOK DEF IInv

LEMMA DialingGoroutines == IInv /\ (RunTop \/ DialFail \/ DialOk \/ RegisterOk \/
   RegisterFail) => Goroutines'
<1> SUFFICES ASSUME IInv, RunTop \/ DialFail \/ DialOk \/ RegisterOk \/ RegisterFail PROVE
   Goroutines'
  OBVIOUS
<1> USE DEF sockets, history
<1>1. CASE RunTop
  BY <1>1 DEF RunTop, CloseConnection, At, Go, IInv, TypeOK, OpenSockets, Goroutines
<1>2. CASE DialFail
  BY <1>2 DEF DialFail, At, Go, IInv, TypeOK, OpenSockets, Goroutines
<1>3. CASE DialOk
  BY <1>3 DEF DialOk, At, Go, IInv, TypeOK, OpenSockets, Goroutines
<1>4. CASE RegisterOk
  BY <1>4 DEF RegisterOk, At, Go, IInv, TypeOK, OpenSockets, Goroutines
<1>5. CASE RegisterFail
  BY <1>5 DEF RegisterFail, At, Go, IInv, TypeOK, OpenSockets, Goroutines
<1> QED
  BY <1>1, <1>2, <1>3, <1>4, <1>5

LEMMA PumpingGoroutines == IInv /\ (Launch \/ ReadStart \/ ReadPing \/ ReadClosed \/
   ReadPeerGone) => Goroutines'
<1> SUFFICES ASSUME IInv, Launch \/ ReadStart \/ ReadPing \/ ReadClosed \/ ReadPeerGone
   PROVE Goroutines'
  OBVIOUS
<1> USE DEF sockets, history
<1>1. CASE Launch
  BY <1>1 DEF Launch, At, Go, NoWriter, IInv, TypeOK, OpenSockets, Goroutines
<1>2. CASE ReadStart
  BY <1>2 DEF ReadStart, At, IInv, TypeOK, OpenSockets, Goroutines
<1>3. CASE ReadPing
  BY <1>3 DEF ReadPing, CanEnqueue, At, Go, SendHasRoom, IInv, TypeOK, OpenSockets,
     Goroutines
<1>4. CASE ReadClosed
  BY <1>4 DEF ReadClosed, At, Go, IInv, TypeOK, OpenSockets, Goroutines
<1>5. CASE ReadPeerGone
  BY <1>5 DEF ReadPeerGone, At, Go, IInv, TypeOK, OpenSockets, Goroutines
<1> QED
  BY <1>1, <1>2, <1>3, <1>4, <1>5

LEMMA LeavingGoroutines == IInv /\ (CloseDone \/ RunClose \/ RunJoin \/ RunWait) =>
   Goroutines'
<1> SUFFICES ASSUME IInv, CloseDone \/ RunClose \/ RunJoin \/ RunWait PROVE Goroutines'
  OBVIOUS
<1> USE DEF sockets, history
<1>1. CASE CloseDone
  BY <1>1 DEF CloseDone, At, Go, IInv, TypeOK, OpenSockets, Goroutines
<1>2. CASE RunClose
  BY <1>2 DEF RunClose, CloseConnection, At, Go, IInv, TypeOK, OpenSockets, Goroutines
<1>3. CASE RunJoin
  BY <1>3 DEF RunJoin, At, Go, Joined, IInv, TypeOK, OpenSockets, Goroutines
<1>4. CASE RunWait
  BY <1>4 DEF RunWait, At, Go, IInv, TypeOK, OpenSockets, Goroutines
<1> QED
  BY <1>1, <1>2, <1>3, <1>4

LEMMA WriterGoroutines == IInv /\ (WriterStart \/ WriterQuit \/ WriterTake \/ WriterWrite
   \/ WriterFail \/ WriterPingFail \/ WriterClose) => Goroutines'
<1> SUFFICES ASSUME IInv, WriterStart \/ WriterQuit \/ WriterTake \/ WriterWrite \/
   WriterFail \/ WriterPingFail \/ WriterClose PROVE Goroutines'
  OBVIOUS
<1> USE DEF sockets, history
<1>1. CASE WriterStart
  BY <1>1 DEF WriterStart, IInv, TypeOK, OpenSockets, Goroutines
<1>2. CASE WriterQuit
  BY <1>2 DEF WriterQuit, QuitSignal, IInv, TypeOK, OpenSockets, Goroutines
<1>3. CASE WriterTake
  BY <1>3 DEF WriterTake, IInv, TypeOK, OpenSockets, Goroutines
<1>4. CASE WriterWrite
  BY <1>4 DEF WriterWrite, IInv, TypeOK, OpenSockets, Goroutines
<1>5. CASE WriterFail
  BY <1>5 DEF WriterFail, Broken, IInv, TypeOK, OpenSockets, Goroutines
<1>6. CASE WriterPingFail
  BY <1>6 DEF WriterPingFail, Broken, IInv, TypeOK, OpenSockets, Goroutines
<1>7. CASE WriterClose
  BY <1>7 DEF WriterClose, CloseConnection, IInv, TypeOK, OpenSockets, Goroutines
<1> QED
  BY <1>1, <1>2, <1>3, <1>4, <1>5, <1>6, <1>7

LEMMA WorldGoroutines == IInv /\ (PeerGone \/ Stop \/ AtRest) => Goroutines'
<1> SUFFICES ASSUME IInv, PeerGone \/ Stop \/ AtRest PROVE Goroutines'
  OBVIOUS
<1> USE DEF sockets, history
<1>1. CASE PeerGone
  BY <1>1 DEF PeerGone, IInv, TypeOK, OpenSockets, Goroutines
<1>2. CASE Stop
  BY <1>2 DEF Stop, IInv, TypeOK, OpenSockets, Goroutines
<1>3. CASE AtRest
  BY <1>3 DEF AtRest, At, vars, IInv, TypeOK, OpenSockets, Goroutines
<1> QED
  BY <1>1, <1>2, <1>3

LEMMA DialingSockets == IInv /\ (RunTop \/ DialFail \/ DialOk \/ RegisterOk \/
   RegisterFail) => OpenSockets'
<1> SUFFICES ASSUME IInv, RunTop \/ DialFail \/ DialOk \/ RegisterOk \/ RegisterFail PROVE
   OpenSockets'
  OBVIOUS
<1> USE DEF sockets, history
<1>1. CASE RunTop
  BY <1>1 DEF RunTop, CloseConnection, At, Go, Connections, Nil, IInv, TypeOK, OpenSockets
<1>2. CASE DialFail
  BY <1>2 DEF DialFail, At, Go, Connections, Nil, IInv, TypeOK, OpenSockets
<1>3. CASE DialOk
  BY <1>3 DEF DialOk, At, Go, Connections, Nil, IInv, TypeOK, OpenSockets
<1>4. CASE RegisterOk
  BY <1>4 DEF RegisterOk, At, Go, Connections, Nil, IInv, TypeOK, OpenSockets
<1>5. CASE RegisterFail
  BY <1>5 DEF RegisterFail, At, Go, Connections, Nil, IInv, TypeOK, OpenSockets
<1> QED
  BY <1>1, <1>2, <1>3, <1>4, <1>5

LEMMA PumpingSockets == IInv /\ (Launch \/ ReadStart \/ ReadPing \/ ReadClosed \/
   ReadPeerGone) => OpenSockets'
<1> SUFFICES ASSUME IInv, Launch \/ ReadStart \/ ReadPing \/ ReadClosed \/ ReadPeerGone
   PROVE OpenSockets'
  OBVIOUS
<1> USE DEF sockets, history
<1>1. CASE Launch
  BY <1>1 DEF Launch, At, Go, NoWriter, Connections, Nil, IInv, TypeOK, OpenSockets
<1>2. CASE ReadStart
  BY <1>2 DEF ReadStart, At, Connections, Nil, IInv, TypeOK, OpenSockets
<1>3. CASE ReadPing
  BY <1>3 DEF ReadPing, CanEnqueue, At, Go, SendHasRoom, Connections, Nil, IInv, TypeOK,
     OpenSockets
<1>4. CASE ReadClosed
  BY <1>4 DEF ReadClosed, At, Go, Connections, Nil, IInv, TypeOK, OpenSockets
<1>5. CASE ReadPeerGone
  BY <1>5 DEF ReadPeerGone, At, Go, Connections, Nil, IInv, TypeOK, OpenSockets
<1> QED
  BY <1>1, <1>2, <1>3, <1>4, <1>5

LEMMA LeavingSockets == IInv /\ (CloseDone \/ RunClose \/ RunJoin \/ RunWait) =>
   OpenSockets'
<1> SUFFICES ASSUME IInv, CloseDone \/ RunClose \/ RunJoin \/ RunWait PROVE OpenSockets'
  OBVIOUS
<1> USE DEF sockets, history
<1>1. CASE CloseDone
  BY <1>1 DEF CloseDone, At, Go, Connections, Nil, IInv, TypeOK, OpenSockets
<1>2. CASE RunClose
  BY <1>2 DEF RunClose, CloseConnection, At, Go, Connections, Nil, IInv, TypeOK,
     OpenSockets
<1>3. CASE RunJoin
  BY <1>3 DEF RunJoin, At, Go, Joined, Connections, Nil, IInv, TypeOK, OpenSockets
<1>4. CASE RunWait
  BY <1>4 DEF RunWait, At, Go, Connections, Nil, IInv, TypeOK, OpenSockets
<1> QED
  BY <1>1, <1>2, <1>3, <1>4

LEMMA WriterSockets == IInv /\ (WriterStart \/ WriterQuit \/ WriterTake \/ WriterWrite \/
   WriterFail \/ WriterPingFail \/ WriterClose) => OpenSockets'
<1> SUFFICES ASSUME IInv, WriterStart \/ WriterQuit \/ WriterTake \/ WriterWrite \/
   WriterFail \/ WriterPingFail \/ WriterClose PROVE OpenSockets'
  OBVIOUS
<1> USE DEF sockets, history
<1>1. CASE WriterStart
  BY <1>1 DEF WriterStart, Connections, Nil, IInv, TypeOK, OpenSockets
<1>2. CASE WriterQuit
  BY <1>2 DEF WriterQuit, QuitSignal, Connections, Nil, IInv, TypeOK, OpenSockets
<1>3. CASE WriterTake
  BY <1>3 DEF WriterTake, Connections, Nil, IInv, TypeOK, OpenSockets
<1>4. CASE WriterWrite
  BY <1>4 DEF WriterWrite, Connections, Nil, IInv, TypeOK, OpenSockets
<1>5. CASE WriterFail
  BY <1>5 DEF WriterFail, Broken, Connections, Nil, IInv, TypeOK, OpenSockets
<1>6. CASE WriterPingFail
  BY <1>6 DEF WriterPingFail, Broken, Connections, Nil, IInv, TypeOK, OpenSockets
<1>7. CASE WriterClose
  BY <1>7 DEF WriterClose, CloseConnection, Connections, Nil, IInv, TypeOK, OpenSockets
<1> QED
  BY <1>1, <1>2, <1>3, <1>4, <1>5, <1>6, <1>7

LEMMA WorldSockets == IInv /\ (PeerGone \/ Stop \/ AtRest) => OpenSockets'
<1> SUFFICES ASSUME IInv, PeerGone \/ Stop \/ AtRest PROVE OpenSockets'
  OBVIOUS
<1> USE DEF sockets, history
<1>1. CASE PeerGone
  BY <1>1 DEF PeerGone, Connections, Nil, IInv, TypeOK, OpenSockets
<1>2. CASE Stop
  BY <1>2 DEF Stop, Connections, Nil, IInv, TypeOK, OpenSockets
<1>3. CASE AtRest
  BY <1>3 DEF AtRest, At, vars, Connections, Nil, IInv, TypeOK, OpenSockets
<1> QED
  BY <1>1, <1>2, <1>3

\* A registration goes first on a silent connection, anything else after one.
LEMMA WrittenFirst ==
    ASSUME IInv, NEW c \in Connections, NEW m \in Messages,
           wire' = [wire EXCEPT ![c] = Append(@, m)],
           (wire[c] = <<>> /\ m = "register") \/ (Len(wire[c]) >= 1 /\ m # "register")
    PROVE  /\ RegistersFirst' /\ Len(wire'[c]) >= 1
           /\ \A d \in Connections \ {c} : wire'[d] = wire[d]
<1>1. /\ wire \in [Connections -> Seq(Messages)] /\ RegistersFirst
  BY DEF IInv, TypeOK
<1>2. /\ wire'[c] = Append(wire[c], m) /\ wire[c] \in Seq(Messages)
      /\ \A d \in Connections \ {c} : wire'[d] = wire[d]
  BY <1>1
<1>3. /\ Len(wire'[c]) = Len(wire[c]) + 1 /\ Len(wire[c]) \in Nat
      /\ wire'[c][Len(wire[c]) + 1] = m
      /\ \A k \in 1..Len(wire[c]) : wire'[c][k] = wire[c][k]
  BY <1>2
<1>4. \A k \in 1..Len(wire'[c]) : wire'[c][k] = "register" <=> k = 1
  <2> SUFFICES ASSUME NEW k \in 1..Len(wire'[c])
               PROVE  wire'[c][k] = "register" <=> k = 1
    OBVIOUS
  <2>1. CASE k \in 1..Len(wire[c])
    BY <1>1, <1>3, <2>1 DEF RegistersFirst
  <2>2. CASE k = Len(wire[c]) + 1
    <3>1. m = "register" <=> Len(wire[c]) = 0
      BY <1>2, <1>3
    <3> QED
      BY <1>3, <2>2, <3>1
  <2> QED
    BY <1>3, <2>1, <2>2
<1> QED
  BY <1>1, <1>2, <1>3, <1>4 DEF RegistersFirst

LEMMA EnqueuedPlain ==
    ASSUME IInv, NEW m \in Messages, m # "register", send' = Append(send, m),
           writer'.msg = writer.msg
    PROVE  NotRegister'
<1>1. send \in Seq(Messages)
  BY DEF IInv, TypeOK
<1>2. /\ Len(send') = Len(send) + 1 /\ Len(send) \in Nat /\ send'[Len(send) + 1] = m
      /\ \A k \in 1..Len(send) : send'[k] = send[k]
  BY <1>1
<1> QED
  BY <1>2 DEF IInv, NotRegister

LEMMA DialingWires == IInv /\ (RunTop \/ DialFail \/ DialOk \/ RegisterOk \/ RegisterFail)
   => Registered' /\ NotRegister' /\ RegistersFirst'
<1> SUFFICES ASSUME IInv, RunTop \/ DialFail \/ DialOk \/ RegisterOk \/ RegisterFail PROVE
   Registered' /\ NotRegister' /\ RegistersFirst'
  OBVIOUS
<1> USE DEF sockets, history
<1>1. CASE RunTop
  <2>1. UNCHANGED <<opened, wire, send, writer>> /\ runner'.pc \in {"ended", "dial"}
    BY <1>1 DEF RunTop, CloseConnection, At, Go, IInv, TypeOK
  <2> QED
    BY <2>1 DEF IInv, Registered, NotRegister, RegistersFirst
<1>2. CASE DialFail
  BY <1>2, ConstantTypes DEF DialFail, At, Go, Connections, IInv, TypeOK, Goroutines,
     Registered, NotRegister, RegistersFirst
<1>3. CASE DialOk
  BY <1>3, ConstantTypes DEF DialOk, At, Go, Connections, IInv, TypeOK, Goroutines,
     Registered, NotRegister, RegistersFirst
<1>4. CASE RegisterOk
  <2>1. /\ conn = opened /\ opened \in Connections /\ wire[opened] = <<>>
        /\ wire' = [wire EXCEPT ![opened] = Append(@, "register")]
        /\ UNCHANGED <<opened, send, writer>> /\ runner'.pc = "launch"
    BY <1>4, ConstantTypes DEF RegisterOk, At, Go, Connections, IInv, TypeOK, Registered
  <2>2. /\ RegistersFirst' /\ Len(wire'[opened]) >= 1
        /\ \A d \in Connections \ {opened} : wire'[d] = wire[d]
    BY <2>1, WrittenFirst, ConstantTypes
  <2>3. Registered'
    BY <2>1, <2>2 DEF Connections, IInv, TypeOK, Registered
  <2> QED
    BY <2>1, <2>2, <2>3 DEF IInv, NotRegister
<1>5. CASE RegisterFail
  BY <1>5, ConstantTypes DEF RegisterFail, At, Go, Connections, IInv, TypeOK, Goroutines,
     Registered, NotRegister, RegistersFirst
<1> QED
  BY <1>1, <1>2, <1>3, <1>4, <1>5

LEMMA PumpingWires == IInv /\ (Launch \/ ReadStart \/ ReadPing \/ ReadClosed \/
   ReadPeerGone) => Registered' /\ NotRegister' /\ RegistersFirst'
<1> SUFFICES ASSUME IInv, Launch \/ ReadStart \/ ReadPing \/ ReadClosed \/ ReadPeerGone
   PROVE Registered' /\ NotRegister' /\ RegistersFirst'
  OBVIOUS
<1> USE DEF sockets, history
<1>1. CASE Launch
  BY <1>1, ConstantTypes DEF Launch, At, Go, NoWriter, Connections, IInv, TypeOK,
     Goroutines, Registered, NotRegister, RegistersFirst
<1>2. CASE ReadStart
  BY <1>2, ConstantTypes DEF ReadStart, At, Connections, IInv, TypeOK, Goroutines,
     Registered, NotRegister, RegistersFirst
<1>3. CASE ReadPing
  <2>1. /\ UNCHANGED <<opened, wire, writer>> /\ runner.pc = "read"
        /\ runner'.pc \in {"read", "done"}
    BY <1>3 DEF ReadPing, At, Go, IInv, TypeOK
  <2>2. NotRegister'
    BY <1>3, <2>1, EnqueuedPlain, ConstantTypes DEF ReadPing, IInv, NotRegister
  <2> QED
    BY <2>1, <2>2 DEF IInv, Registered, RegistersFirst
<1>4. CASE ReadClosed
  BY <1>4, ConstantTypes DEF ReadClosed, At, Go, Connections, IInv, TypeOK, Goroutines,
     Registered, NotRegister, RegistersFirst
<1>5. CASE ReadPeerGone
  BY <1>5, ConstantTypes DEF ReadPeerGone, At, Go, Connections, IInv, TypeOK, Goroutines,
     Registered, NotRegister, RegistersFirst
<1> QED
  BY <1>1, <1>2, <1>3, <1>4, <1>5

LEMMA LeavingWires == IInv /\ (CloseDone \/ RunClose \/ RunJoin \/ RunWait) => Registered'
   /\ NotRegister' /\ RegistersFirst'
<1> SUFFICES ASSUME IInv, CloseDone \/ RunClose \/ RunJoin \/ RunWait PROVE Registered' /\
   NotRegister' /\ RegistersFirst'
  OBVIOUS
<1> USE DEF sockets, history
<1>1. CASE CloseDone
  BY <1>1, ConstantTypes DEF CloseDone, At, Go, Connections, IInv, TypeOK, Goroutines,
     Registered, NotRegister, RegistersFirst
<1>2. CASE RunClose
  BY <1>2, ConstantTypes DEF RunClose, CloseConnection, At, Go, Connections, IInv, TypeOK,
     Goroutines, Registered, NotRegister, RegistersFirst
<1>3. CASE RunJoin
  BY <1>3, ConstantTypes DEF RunJoin, At, Go, Joined, Connections, IInv, TypeOK,
     Goroutines, Registered, NotRegister, RegistersFirst
<1>4. CASE RunWait
  BY <1>4, ConstantTypes DEF RunWait, At, Go, Connections, IInv, TypeOK, Goroutines,
     Registered, NotRegister, RegistersFirst
<1> QED
  BY <1>1, <1>2, <1>3, <1>4

LEMMA WriterWires == IInv /\ (WriterStart \/ WriterQuit \/ WriterTake \/ WriterWrite \/
   WriterFail \/ WriterPingFail \/ WriterClose) => Registered' /\ NotRegister' /\
   RegistersFirst'
<1> SUFFICES ASSUME IInv, WriterStart \/ WriterQuit \/ WriterTake \/ WriterWrite \/
   WriterFail \/ WriterPingFail \/ WriterClose PROVE Registered' /\ NotRegister' /\
   RegistersFirst'
  OBVIOUS
<1> USE DEF sockets, history
<1>1. CASE WriterStart
  BY <1>1, ConstantTypes DEF WriterStart, Connections, IInv, TypeOK, Goroutines,
     Registered, NotRegister, RegistersFirst
<1>2. CASE WriterQuit
  BY <1>2, ConstantTypes DEF WriterQuit, QuitSignal, Connections, IInv, TypeOK,
     Goroutines, Registered, NotRegister, RegistersFirst
<1>3. CASE WriterTake
  <2>1. UNCHANGED <<conn, opened, wire, runner>>
    BY <1>3 DEF WriterTake
  <2>2. send \in Seq(Messages) /\ Len(send) >= 1
    BY <1>3 DEF WriterTake, IInv, TypeOK
  <2>3. writer'.msg = send[1] /\ send' = Tail(send)
    BY <1>3, <2>2 DEF WriterTake, IInv, TypeOK
  <2>4. \A k \in 1..Len(send') : send'[k] = send[k + 1] /\ k + 1 \in 1..Len(send)
    BY <2>2, <2>3
  <2>5. NotRegister'
    BY <2>2, <2>3, <2>4 DEF IInv, NotRegister
  <2>6. Registered'
    BY <2>1 DEF IInv, Registered, Connections
  <2>7. RegistersFirst'
    BY <2>1 DEF IInv, RegistersFirst, Connections
  <2> QED
    BY <2>5, <2>6, <2>7
<1>4. CASE WriterWrite
  <2>1. /\ writer.conn = opened /\ writer.pc = "write" /\ opened >= 1
        /\ Len(wire[opened]) >= 1
        /\ runner.pc \notin {"top", "dial", "register", "wait", "ended"}
    BY <1>4 DEF WriterWrite, IInv, TypeOK, Goroutines, Registered
  <2>2. opened \in Connections /\ writer.msg \in Messages /\ writer.msg # "register"
    BY <2>1 DEF IInv, TypeOK, Connections, NotRegister
  <2>3. /\ wire' = [wire EXCEPT ![opened] = Append(@, writer.msg)]
        /\ UNCHANGED <<opened, runner, send>> /\ writer'.msg = writer.msg
    BY <1>4, <2>1 DEF WriterWrite, IInv, TypeOK
  <2>4. /\ RegistersFirst' /\ Len(wire'[opened]) >= 1
        /\ \A d \in Connections \ {opened} : wire'[d] = wire[d]
    BY <2>1, <2>2, <2>3, WrittenFirst
  <2>5. Registered'
    BY <2>1, <2>3, <2>4 DEF Connections, IInv, TypeOK, Registered
  <2> QED
    BY <2>3, <2>4, <2>5 DEF IInv, NotRegister
<1>5. CASE WriterFail
  BY <1>5, ConstantTypes DEF WriterFail, Broken, Connections, IInv, TypeOK, Goroutines,
     Registered, NotRegister, RegistersFirst
<1>6. CASE WriterPingFail
  BY <1>6, ConstantTypes DEF WriterPingFail, Broken, Connections, IInv, TypeOK,
     Goroutines, Registered, NotRegister, RegistersFirst
<1>7. CASE WriterClose
  BY <1>7, ConstantTypes DEF WriterClose, CloseConnection, Connections, IInv, TypeOK,
     Goroutines, Registered, NotRegister, RegistersFirst
<1> QED
  BY <1>1, <1>2, <1>3, <1>4, <1>5, <1>6, <1>7

LEMMA WorldWires == IInv /\ (PeerGone \/ Stop \/ AtRest) => Registered' /\ NotRegister' /\
   RegistersFirst'
<1> SUFFICES ASSUME IInv, PeerGone \/ Stop \/ AtRest PROVE Registered' /\ NotRegister' /\
   RegistersFirst'
  OBVIOUS
<1> USE DEF sockets, history
<1>1. CASE PeerGone
  BY <1>1, ConstantTypes DEF PeerGone, Connections, IInv, TypeOK, Goroutines, Registered,
     NotRegister, RegistersFirst
<1>2. CASE Stop
  BY <1>2, ConstantTypes DEF Stop, Connections, IInv, TypeOK, Goroutines, Registered,
     NotRegister, RegistersFirst
<1>3. CASE AtRest
  BY <1>3, ConstantTypes DEF AtRest, At, vars, Connections, IInv, TypeOK, Goroutines,
     Registered, NotRegister, RegistersFirst
<1> QED
  BY <1>1, <1>2, <1>3

LEMMA ReportIInv == ASSUME IInv, NEW m \in Results, ReportResult(m) PROVE IInv'
<1> USE DEF sockets
<1>1. UNCHANGED <<conn, sockets, runner, writer>>
  BY DEF ReportResult
<1>2. TypeOK'
  BY ReportTypeOK DEF IInv
<1>3. NotRegister'
  <2>1. m \in Messages /\ m # "register"
    BY ConstantTypes
  <2>2. CASE send' = Append(send, m)
    BY <1>1, <2>1, <2>2, EnqueuedPlain
  <2>3. CASE send' = send
    BY <1>1, <2>3 DEF IInv, NotRegister
  <2> QED
    BY <2>2, <2>3 DEF ReportResult
<1> QED
  BY <1>1, <1>2, <1>3 DEF IInv, Goroutines, OpenSockets, Registered, RegistersFirst

LEMMA StepIInv == IInv /\ [Next]_vars => IInv'
<1> SUFFICES ASSUME IInv, [Next]_vars PROVE IInv'
  OBVIOUS
<1>1. CASE UNCHANGED vars
  BY <1>1 DEF vars, sockets, history, IInv, TypeOK, Goroutines, OpenSockets, Registered,
     NotRegister, RegistersFirst
<1>2. CASE \E m \in Results : ReportResult(m)
  BY <1>2, ReportIInv
<1>3. CASE RunnerStep \/ ReadPeerGone \/ WriterStep \/ PeerGone \/ Stop \/ AtRest
  <2>1. TypeOK'
    BY StepTypeOK DEF IInv
  <2>2. Goroutines'
    BY <1>3, DialingGoroutines, PumpingGoroutines, LeavingGoroutines, WriterGoroutines,
       WorldGoroutines DEF RunnerStep, WriterStep
  <2>3. OpenSockets'
    BY <1>3, DialingSockets, PumpingSockets, LeavingSockets, WriterSockets, WorldSockets
       DEF RunnerStep, WriterStep
  <2>4. Registered' /\ NotRegister' /\ RegistersFirst'
    BY <1>3, DialingWires, PumpingWires, LeavingWires, WriterWires, WorldWires
       DEF RunnerStep, WriterStep
  <2> QED
    BY <2>1, <2>2, <2>3, <2>4 DEF IInv
<1> QED
  BY <1>1, <1>2, <1>3 DEF Next

LEMMA Invariance == Safety => []IInv
<1>1. Init => IInv
  BY InitIInv
<1>2. IInv /\ [Next]_vars => IInv'
  BY StepIInv
<1> QED
  BY <1>1, <1>2, PTL DEF Safety

-----------------------------------------------------------------------------
(* Filtering a sequence: the recursion of Kept, by induction on the length. *)

Filters(f, s, S, n) ==
    f = [k \in 0..n |-> IF k = 0 THEN <<>>
                        ELSE IF s[k] \in S THEN Append(f[k - 1], s[k]) ELSE f[k - 1]]

LEMMA FilterExists ==
    ASSUME NEW s, NEW S, NEW n \in Nat
    PROVE  \E f : Filters(f, s, S, n)
<1> DEFINE N == {m \in Nat : \E f : Filters(f, s, S, m)}
<1>1. 0 \in N
  <2> DEFINE f == [k \in 0..0 |-> <<>>]
  <2>1. Filters(f, s, S, 0)
    BY DEF Filters
  <2> QED
    BY <2>1
<1>2. ASSUME NEW m \in Nat, m \in N PROVE m + 1 \in N
  <2>1. PICK f : Filters(f, s, S, m)
    BY <1>2
  <2> DEFINE g == [k \in 0..(m + 1) |->
                      IF k =< m THEN f[k]
                      ELSE IF s[m + 1] \in S THEN Append(f[m], s[m + 1]) ELSE f[m]]
  <2>2. \A k \in 0..m : f[k] = IF k = 0 THEN <<>>
                               ELSE IF s[k] \in S THEN Append(f[k - 1], s[k]) ELSE f[k - 1]
    BY <2>1 DEF Filters
  <2>3. ASSUME NEW k \in 0..(m + 1)
        PROVE  g[k] = IF k = 0 THEN <<>>
                      ELSE IF s[k] \in S THEN Append(g[k - 1], s[k]) ELSE g[k - 1]
    <3>1. CASE k = m + 1
      BY <3>1
    <3>2. CASE k \in 1..m
      BY <2>2, <3>2
    <3>3. CASE k = 0
      BY <2>2, <3>3
    <3> QED
      BY <3>1, <3>2, <3>3
  <2>4. Filters(g, s, S, m + 1)
    BY <2>3 DEF Filters
  <2> QED
    BY <2>4
<1> HIDE DEF N
<1>3. Nat \subseteq N
  BY <1>1, <1>2, AllNaturals
<1> QED
  BY <1>3 DEF N

\* Two filters agree as far as what they read does.
LEMMA FiltersAgree ==
    ASSUME NEW s, NEW t, NEW S, NEW f, NEW g, NEW n \in Nat, NEW m \in Nat, n =< m,
           Filters(f, s, S, n), Filters(g, t, S, m), \A k \in 1..n : s[k] = t[k]
    PROVE  \A k \in 0..n : f[k] = g[k]
<1> DEFINE N == {k \in Nat : k =< n => f[k] = g[k]}
<1>0. /\ \A k \in 0..n : f[k] = IF k = 0 THEN <<>>
                         ELSE IF s[k] \in S THEN Append(f[k - 1], s[k]) ELSE f[k - 1]
      /\ \A k \in 0..m : g[k] = IF k = 0 THEN <<>>
                         ELSE IF t[k] \in S THEN Append(g[k - 1], t[k]) ELSE g[k - 1]
  BY DEF Filters
<1>1. 0 \in N
  BY <1>0
<1>2. ASSUME NEW k \in Nat, k \in N PROVE k + 1 \in N
  <2> SUFFICES ASSUME k + 1 =< n PROVE f[k + 1] = g[k + 1]
    OBVIOUS
  <2>1. k + 1 \in 1..n /\ k + 1 \in 0..m /\ f[k] = g[k] /\ s[k + 1] = t[k + 1]
    BY <1>2
  <2> QED
    BY <1>0, <2>1
<1> HIDE DEF N
<1>3. Nat \subseteq N
  BY <1>1, <1>2, AllNaturals
<1> QED
  BY <1>3 DEF N

LEMMA KeptByFilter ==
    ASSUME NEW s, NEW S, Len(s) \in Nat
    PROVE  \E f : Filters(f, s, S, Len(s)) /\ Kept(s, S) = f[Len(s)]
<1> DEFINE f == CHOOSE f : f = [k \in 0..Len(s) |->
                   IF k = 0 THEN <<>>
                   ELSE IF s[k] \in S THEN Append(f[k - 1], s[k]) ELSE f[k - 1]]
<1>1. \E g : g = [k \in 0..Len(s) |->
                   IF k = 0 THEN <<>>
                   ELSE IF s[k] \in S THEN Append(g[k - 1], s[k]) ELSE g[k - 1]]
  <2>1. PICK g : Filters(g, s, S, Len(s))
    BY FilterExists
  <2> QED
    BY <2>1, Zenon DEF Filters
<1>2. f = [k \in 0..Len(s) |->
              IF k = 0 THEN <<>>
              ELSE IF s[k] \in S THEN Append(f[k - 1], s[k]) ELSE f[k - 1]]
  BY <1>1, Zenon
<1>3. Kept(s, S) = f[Len(s)]
  BY DEF Kept
<1>4. Filters(f, s, S, Len(s))
  BY <1>2 DEF Filters
<1> QED
  BY <1>3, <1>4

LEMMA KeptEmpty == ASSUME NEW S PROVE Kept(<<>>, S) = <<>>
<1>1. PICK f : Filters(f, <<>>, S, 0) /\ Kept(<<>>, S) = f[0]
  BY KeptByFilter
<1> QED
  BY <1>1 DEF Filters

LEMMA KeptAppend ==
    ASSUME NEW T, NEW s \in Seq(T), NEW x \in T, NEW S
    PROVE  Kept(Append(s, x), S) = IF x \in S THEN Append(Kept(s, S), x) ELSE Kept(s, S)
<1> DEFINE n == Len(s)
           t == Append(s, x)
<1>1. n \in Nat /\ Len(t) = n + 1 /\ t[n + 1] = x /\ \A k \in 1..n : s[k] = t[k]
  OBVIOUS
<1>2. PICK f : Filters(f, s, S, n) /\ Kept(s, S) = f[n]
  BY <1>1, KeptByFilter
<1> HIDE DEF n, t
<1>3. PICK g : Filters(g, t, S, n + 1) /\ Kept(t, S) = g[n + 1]
  <2>1. \E g : Filters(g, t, S, Len(t)) /\ Kept(t, S) = g[Len(t)]
    BY <1>1, KeptByFilter
  <2> QED
    BY <1>1, <2>1
<1>4. f[n] = g[n]
  BY <1>1, <1>2, <1>3, FiltersAgree
<1>5. g[n + 1] = IF t[n + 1] \in S THEN Append(g[n], t[n + 1]) ELSE g[n]
  <2>1. n + 1 \in 0..(n + 1) /\ n + 1 # 0 /\ (n + 1) - 1 = n
    BY <1>1
  <2>2. \A k \in 0..(n + 1) : g[k] = IF k = 0 THEN <<>>
            ELSE IF t[k] \in S THEN Append(g[k - 1], t[k]) ELSE g[k - 1]
    BY <1>3 DEF Filters
  <2> QED
    BY <2>1, <2>2
<1> QED
  BY <1>1, <1>2, <1>3, <1>4, <1>5 DEF t

-----------------------------------------------------------------------------
(* What filtering keeps, by induction on the sequence. *)

LEMMA ToSetAppend ==
    ASSUME NEW T, NEW s \in Seq(T), NEW x \in T
    PROVE  ToSet(Append(s, x)) = ToSet(s) \union {x}
<1>1. /\ DOMAIN s = 1..Len(s) /\ DOMAIN Append(s, x) = 1..(Len(s) + 1) /\ Len(s) \in Nat
      /\ \A k \in 1..Len(s) : Append(s, x)[k] = s[k]
      /\ Append(s, x)[Len(s) + 1] = x
  OBVIOUS
<1> QED
  BY <1>1 DEF ToSet

LEMMA KeptElements ==
    ASSUME NEW T, NEW S
    PROVE  \A s \in Seq(T) : /\ Kept(s, S) \in Seq(T)
                            /\ ToSet(Kept(s, S)) = ToSet(s) \intersect S
<1> DEFINE P == {s \in Seq(T) : /\ Kept(s, S) \in Seq(T)
                                /\ ToSet(Kept(s, S)) = ToSet(s) \intersect S}
<1>1. <<>> \in P
  <2>1. <<>> \in Seq(T) /\ ToSet(<<>>) = {}
    BY DEF ToSet
  <2> QED
    BY <2>1, KeptEmpty
<1>2. ASSUME NEW r \in Seq(T), NEW x \in T, r \in P PROVE Append(r, x) \in P
  <2> DEFINE q == Kept(r, S)
             t == Append(r, x)
             u == Append(q, x)
  <2>1. t \in Seq(T) /\ q \in Seq(T) /\ u \in Seq(T) /\ ToSet(q) = ToSet(r) \intersect S
    BY <1>2
  <2>2. ToSet(t) = ToSet(r) \union {x} /\ ToSet(u) = ToSet(q) \union {x}
    BY <2>1, ToSetAppend
  <2>3. Kept(t, S) = IF x \in S THEN u ELSE q
    BY KeptAppend
  <2> HIDE DEF q, t, u
  <2>4. Kept(t, S) \in Seq(T) /\ ToSet(Kept(t, S)) = ToSet(t) \intersect S
    <3>1. CASE x \in S
      BY <2>1, <2>2, <2>3, <3>1
    <3>2. CASE x \notin S
      BY <2>1, <2>2, <2>3, <3>2
    <3> QED
      BY <3>1, <3>2
  <2> QED
    BY <2>1, <2>4 DEF t
<1> HIDE DEF P
<1>3. Seq(T) \subseteq P
  BY <1>1, <1>2, AllSequences
<1> QED
  BY <1>3 DEF P

LEMMA KeptConcat ==
    ASSUME NEW T, NEW S, NEW s \in Seq(T)
    PROVE  \A t \in Seq(T) : Kept(s \o t, S) = Kept(s, S) \o Kept(t, S)
<1> DEFINE P == {t \in Seq(T) : Kept(s \o t, S) = Kept(s, S) \o Kept(t, S)}
<1>0. Kept(s, S) \in Seq(T) /\ \A r \in Seq(T) : Kept(r, S) \in Seq(T)
  BY KeptElements
<1>1. <<>> \in P
  <2>1. s \o <<>> = s /\ Kept(s, S) \o <<>> = Kept(s, S)
    BY <1>0
  <2>2. Kept(s \o <<>>, S) = Kept(s, S) \o Kept(<<>>, S)
    BY <2>1, KeptEmpty, Zenon
  <2> QED
    BY <2>2
<1>2. ASSUME NEW r \in Seq(T), NEW x \in T, r \in P PROVE Append(r, x) \in P
  <2>1. s \o Append(r, x) = Append(s \o r, x) /\ s \o r \in Seq(T)
    OBVIOUS
  <2>2. Kept(s, S) \o Append(Kept(r, S), x) = Append(Kept(s, S) \o Kept(r, S), x)
    BY <1>0
  <2>3. Kept(Append(r, x), S) = IF x \in S THEN Append(Kept(r, S), x) ELSE Kept(r, S)
    BY KeptAppend
  <2>4. Kept(Append(s \o r, x), S)
            = IF x \in S THEN Append(Kept(s \o r, S), x) ELSE Kept(s \o r, S)
    BY <2>1, KeptAppend
  <2>5. Kept(s \o Append(r, x), S) = Kept(s, S) \o Kept(Append(r, x), S)
    <3>1. CASE x \in S
      BY <1>2, <2>1, <2>2, <2>3, <2>4, <3>1, Zenon
    <3>2. CASE x \notin S
      BY <1>2, <2>1, <2>3, <2>4, <3>2, Zenon
    <3> QED
      BY <3>1, <3>2
  <2>6. Append(r, x) \in Seq(T)
    OBVIOUS
  <2> QED
    BY <2>5, <2>6, Zenon
<1> HIDE DEF P
<1>3. Seq(T) \subseteq P
  BY <1>1, <1>2, AllSequences
<1> QED
  BY <1>3 DEF P

LEMMA KeptTwice ==
    ASSUME NEW T, NEW S, NEW U
    PROVE  \A s \in Seq(T) : Kept(Kept(s, S), U) = Kept(s, S \intersect U)
<1> DEFINE P == {s \in Seq(T) : Kept(Kept(s, S), U) = Kept(s, S \intersect U)}
<1>1. <<>> \in P
  BY KeptEmpty
<1>2. ASSUME NEW r \in Seq(T), NEW x \in T, r \in P PROVE Append(r, x) \in P
  <2> DEFINE t == Append(r, x)
             V == S \intersect U
  <2>1. Kept(r, S) \in Seq(T) /\ t \in Seq(T) /\ Kept(Kept(r, S), U) = Kept(r, V)
    BY <1>2, KeptElements
  <2>2. /\ Kept(t, S) = IF x \in S THEN Append(Kept(r, S), x) ELSE Kept(r, S)
        /\ Kept(t, V) = IF x \in V THEN Append(Kept(r, V), x) ELSE Kept(r, V)
    BY KeptAppend
  <2>5. Kept(Append(Kept(r, S), x), U) =
            IF x \in U THEN Append(Kept(Kept(r, S), U), x) ELSE Kept(Kept(r, S), U)
    BY <2>1, KeptAppend
  <2>3. x \in V <=> x \in S /\ x \in U
    OBVIOUS
  <2> HIDE DEF t, V
  <2>4. Kept(Kept(t, S), U) = Kept(t, V)
    <3>1. CASE x \in S /\ x \in U
      BY <2>1, <2>2, <2>3, <2>5, <3>1, Zenon
    <3>2. CASE x \in S /\ x \notin U
      BY <2>1, <2>2, <2>3, <2>5, <3>2, Zenon
    <3>3. CASE x \notin S
      BY <2>1, <2>2, <2>3, <3>3, Zenon
    <3> QED
      BY <3>1, <3>2, <3>3
  <2> QED
    BY <2>1, <2>4 DEF t, V
<1> HIDE DEF P
<1>3. Seq(T) \subseteq P
  BY <1>1, <1>2, AllSequences
<1> QED
  BY <1>3 DEF P

LEMMA KeptAll ==
    ASSUME NEW T, NEW S
    PROVE  \A s \in Seq(T) : ToSet(s) \subseteq S => Kept(s, S) = s
<1> DEFINE P == {s \in Seq(T) : ToSet(s) \subseteq S => Kept(s, S) = s}
<1>1. <<>> \in P
  BY KeptEmpty
<1>2. ASSUME NEW r \in Seq(T), NEW x \in T, r \in P PROVE Append(r, x) \in P
  <2>1. ToSet(Append(r, x)) = ToSet(r) \union {x}
    BY ToSetAppend
  <2>2. Kept(Append(r, x), S) = IF x \in S THEN Append(Kept(r, S), x) ELSE Kept(r, S)
    BY KeptAppend
  <2>3. ASSUME ToSet(Append(r, x)) \subseteq S PROVE Kept(Append(r, x), S) = Append(r, x)
    <3>1. x \in S /\ ToSet(r) \subseteq S
      BY <2>1, <2>3
    <3> QED
      BY <1>2, <2>2, <3>1
  <2>4. Append(r, x) \in Seq(T)
    OBVIOUS
  <2> QED
    BY <2>3, <2>4
<1> HIDE DEF P
<1>3. Seq(T) \subseteq P
  BY <1>1, <1>2, AllSequences
<1> QED
  BY <1>3 DEF P

\* No element twice.
Distinct(s) == \A j, k \in 1..Len(s) : s[j] = s[k] => j = k

LEMMA DistinctAppend ==
    ASSUME NEW T, NEW s \in Seq(T), NEW x \in T
    PROVE  Distinct(Append(s, x)) <=> Distinct(s) /\ x \notin ToSet(s)
<1>1. /\ Len(s) \in Nat /\ Len(Append(s, x)) = Len(s) + 1
      /\ \A k \in 1..Len(s) : Append(s, x)[k] = s[k]
      /\ Append(s, x)[Len(s) + 1] = x
      /\ DOMAIN s = 1..Len(s)
  OBVIOUS
<1>2. ASSUME Distinct(Append(s, x)) PROVE Distinct(s) /\ x \notin ToSet(s)
  <2>1. \A j, k \in 1..(Len(s) + 1) : Append(s, x)[j] = Append(s, x)[k] => j = k
    BY <1>1, <1>2 DEF Distinct
  <2>2. Distinct(s)
    BY <1>1, <2>1 DEF Distinct
  <2>3. \A k \in 1..Len(s) : s[k] # x
    BY <1>1, <2>1
  <2> QED
    BY <1>1, <2>2, <2>3 DEF ToSet
<1>3. ASSUME Distinct(s), x \notin ToSet(s) PROVE Distinct(Append(s, x))
  <2>1. \A k \in 1..Len(s) : s[k] # x
    BY <1>1, <1>3 DEF ToSet
  <2>2. \A j, k \in 1..Len(s) : s[j] = s[k] => j = k
    BY <1>3 DEF Distinct
  <2> SUFFICES ASSUME NEW j \in 1..(Len(s) + 1), NEW k \in 1..(Len(s) + 1),
                      Append(s, x)[j] = Append(s, x)[k]
               PROVE  j = k
    BY <1>1 DEF Distinct
  <2> QED
    BY <1>1, <2>1, <2>2
<1> QED
  BY <1>2, <1>3

LEMMA KeptDistinct ==
    ASSUME NEW T, NEW S
    PROVE  \A s \in Seq(T) : Distinct(s) => Distinct(Kept(s, S))
<1> DEFINE P == {s \in Seq(T) : Distinct(s) => Distinct(Kept(s, S))}
<1>1. <<>> \in P
  BY KeptEmpty DEF Distinct
<1>2. ASSUME NEW r \in Seq(T), NEW x \in T, r \in P PROVE Append(r, x) \in P
  <2>1. Kept(r, S) \in Seq(T) /\ ToSet(Kept(r, S)) = ToSet(r) \intersect S
    BY KeptElements
  <2>2. /\ Distinct(Append(r, x)) <=> Distinct(r) /\ x \notin ToSet(r)
        /\ Distinct(Append(Kept(r, S), x))
              <=> Distinct(Kept(r, S)) /\ x \notin ToSet(Kept(r, S))
    BY <2>1, DistinctAppend
  <2>3. Kept(Append(r, x), S) = IF x \in S THEN Append(Kept(r, S), x) ELSE Kept(r, S)
    BY KeptAppend
  <2>4. ASSUME Distinct(Append(r, x)) PROVE Distinct(Kept(Append(r, x), S))
    <3>1. CASE x \in S
      BY <1>2, <2>1, <2>2, <2>3, <2>4, <3>1
    <3>2. CASE x \notin S
      BY <1>2, <2>2, <2>3, <2>4, <3>2
    <3> QED
      BY <3>1, <3>2
  <2>5. Append(r, x) \in Seq(T)
    OBVIOUS
  <2> QED
    BY <2>4, <2>5
<1> HIDE DEF P
<1>3. Seq(T) \subseteq P
  BY <1>1, <1>2, AllSequences
<1> QED
  BY <1>3 DEF P

\* What is kept of any sequence lies in the set.
LEMMA KeptOnly ==
    ASSUME NEW T, NEW S, NEW s \in Seq(T)
    PROVE  Kept(s, S) \in Seq(S)
<1>1. Kept(s, S) \in Seq(T) /\ ToSet(Kept(s, S)) \subseteq S
  BY KeptElements
<1> DEFINE q == Kept(s, S)
<1>2. \A k \in 1..Len(q) : q[k] \in S
  BY <1>1 DEF ToSet
<1> HIDE DEF q
<1>3. q \in Seq(S)
  BY <1>1, <1>2 DEF q
<1> QED
  BY <1>3 DEF q


-----------------------------------------------------------------------------
(* The order of the results. *)

\* What makes ResultsInOrder inductive: a result is accepted once, so that the
\* one a broken connection takes away leaves no twin behind.
OrderInv ==
    /\ Distinct(accepted)
    /\ lost \subseteq ToSet(accepted)
    /\ ResultsInOrder

LEMMA WiresTyped ==
    ASSUME TypeOK
    PROVE  /\ wire \in Seq(Seq(Messages)) /\ Len(wire) = MaxConnections /\ Len(wire) >= 1
           /\ FlattenSeq(wire) \in Seq(Messages)
<1>1. wire \in Seq(Seq(Messages)) /\ Len(wire) = MaxConnections /\ Len(wire) >= 1
  BY ConstantTypes DEF TypeOK, Connections
<1> QED
  BY <1>1, FlattenTyped

LEMMA OutgoingTyped ==
    ASSUME TypeOK
    PROVE  Outgoing \in Seq(Messages)
<1>1. writer.msg \in Messages /\ send \in Seq(Messages)
  BY DEF TypeOK
<1>2. (IF writer.pc = "write" THEN <<writer.msg>> ELSE <<>>) \in Seq(Messages)
  BY <1>1
<1> QED
  BY <1>1, <1>2, WiresTyped DEF Outgoing

\* A message is written after all that was written before.
LEMMA WrittenLast ==
    ASSUME TypeOK, Registered, opened >= 1, NEW m \in Messages,
           wire' = [wire EXCEPT ![opened] = Append(@, m)]
    PROVE  FlattenSeq(wire') = Append(FlattenSeq(wire), m)
<1>1. /\ opened \in 1..Len(wire)
      /\ wire \in Seq(Seq(Messages)) /\ wire \in [1..Len(wire) -> Seq(Messages)]
  BY WiresTyped DEF TypeOK
<1>2. \A d \in 1..Len(wire) : d > opened => wire[d] = <<>>
  BY WiresTyped DEF Registered, Connections
<1>3. \A i \in 1..Len(wire) : wire'[i] = IF i = opened THEN Append(wire[i], m) ELSE wire[i]
  BY <1>1
<1>4. wire' \in Seq(Seq(Messages)) /\ Len(wire') = Len(wire)
  <2>1. Append(wire[opened], m) \in Seq(Messages)
    BY <1>1
  <2> QED
    BY <1>1, <2>1
<1>5. EndsLonger(wire, wire', opened, m)
  BY <1>2, <1>3, <1>4 DEF EndsLonger
<1> QED
  BY <1>1, <1>4, <1>5, FlattenAppend

LEMMA KeptSplit ==
    ASSUME NEW T, NEW S
    PROVE  \A x \in T, s, t \in Seq(T) :
              Kept(Append(s, x) \o t, S)
                  = (IF x \in S THEN Append(Kept(s, S), x) ELSE Kept(s, S)) \o Kept(t, S)
<1> TAKE x \in T, s, t \in Seq(T)
<1>1. Append(s, x) \in Seq(T)
  OBVIOUS
<1>2. Kept(Append(s, x) \o t, S) = Kept(Append(s, x), S) \o Kept(t, S)
  BY <1>1, KeptConcat
<1>3. Kept(Append(s, x), S) = IF x \in S THEN Append(Kept(s, S), x) ELSE Kept(s, S)
  BY KeptAppend
<1> QED
  BY <1>2, <1>3

\* One of a sequence without doubles is taken out, the others stay as they are.
LEMMA KeptWithout ==
    ASSUME NEW T
    PROVE  \A x \in T, s, t \in Seq(T) :
              Distinct(Append(s, x) \o t) => Kept(Append(s, x) \o t, T \ {x}) = s \o t
<1> SUFFICES ASSUME NEW x \in T, NEW s \in Seq(T), NEW t \in Seq(T),
                    Distinct(Append(s, x) \o t)
             PROVE  Kept(Append(s, x) \o t, T \ {x}) = s \o t
  OBVIOUS
<1> DEFINE u == Append(s, x) \o t
<1>1. /\ Len(s) \in Nat /\ Len(t) \in Nat /\ Len(u) = Len(s) + 1 + Len(t)
      /\ \A k \in 1..Len(s) : u[k] = s[k]
      /\ u[Len(s) + 1] = x
      /\ \A k \in 1..Len(t) : u[Len(s) + 1 + k] = t[k]
  OBVIOUS
<1>2. \A j, k \in 1..Len(u) : u[j] = u[k] => j = k
  BY DEF Distinct
<1>3. \A k \in 1..Len(s) : s[k] # x
  BY <1>1, <1>2
<1>4. \A k \in 1..Len(t) : t[k] # x
  <2> SUFFICES ASSUME NEW k \in 1..Len(t) PROVE t[k] # x
    OBVIOUS
  <2>1. /\ Len(s) + 1 + k \in 1..Len(u) /\ Len(s) + 1 \in 1..Len(u)
        /\ Len(s) + 1 + k # Len(s) + 1
    BY <1>1
  <2> HIDE DEF u
  <2> QED
    BY <1>1, <1>2, <2>1
<1>5. ToSet(s) \subseteq T \ {x} /\ ToSet(t) \subseteq T \ {x}
  BY <1>3, <1>4 DEF ToSet
<1>6. Kept(s, T \ {x}) = s /\ Kept(t, T \ {x}) = t
  BY <1>5, KeptAll
<1> DEFINE S == T \ {x}
<1>7. x \notin S
  OBVIOUS
<1> HIDE DEF S
<1>8. Kept(u, S) = (IF x \in S THEN Append(Kept(s, S), x) ELSE Kept(s, S)) \o Kept(t, S)
  BY KeptSplit
<1> QED
  BY <1>6, <1>7, <1>8 DEF S

LEMMA QuietOrder ==
    ASSUME OrderInv, UNCHANGED <<wire, send, accepted, lost>>,
           writer' = writer \/ (writer.pc # "write" /\ writer'.pc # "write")
    PROVE  OrderInv'
<1>1. Outgoing' = Outgoing
  BY DEF Outgoing
<1> QED
  BY <1>1 DEF OrderInv, ResultsInOrder

LEMMA InitOrder == Init => OrderInv
<1> SUFFICES ASSUME Init PROVE OrderInv
  OBVIOUS
<1>1. TypeOK
  BY InitTypeOK
<1>2. FlattenSeq(wire) = <<>>
  <2>1. \A i \in 1..Len(wire) : wire[i] = <<>>
    BY <1>1, WiresTyped DEF Init, Connections
  <2> QED
    BY <1>1, <2>1, WiresTyped, FlattenSilent
<1>3. Outgoing = <<>>
  BY <1>2 DEF Outgoing, Init, NoWriter
<1>4. ResultsInOrder
  BY <1>3, KeptEmpty DEF ResultsInOrder, Init
<1> QED
  BY <1>4 DEF OrderInv, Init, Distinct

LEMMA RunnerOrder ==
    ASSUME IInv, OrderInv,
           RunTop \/ DialFail \/ DialOk \/ RegisterFail \/ Launch \/ CloseDone \/ RunClose
           \/ RunJoin \/ RunWait \/ ReadStart \/ ReadClosed \/ ReadPeerGone
    PROVE  OrderInv'
<1>1. UNCHANGED <<wire, send, accepted, lost>>
  BY DEF RunTop, DialFail, DialOk, RegisterFail, Launch, CloseDone, RunClose, RunJoin,
     RunWait, ReadStart, ReadClosed, ReadPeerGone, CloseConnection, sockets, history
<1>2. writer' = writer \/ (writer.pc # "write" /\ writer'.pc # "write")
  BY DEF RunTop, DialFail, DialOk, RegisterFail, Launch, CloseDone, RunClose, RunJoin,
     RunWait, ReadStart, ReadClosed, ReadPeerGone, At, NoWriter, IInv, Goroutines
<1> QED
  BY <1>1, <1>2, QuietOrder

LEMMA OthersOrder ==
    ASSUME IInv, OrderInv,
           WriterStart \/ WriterQuit \/ WriterPingFail \/ WriterClose
           \/ PeerGone \/ Stop \/ AtRest
    PROVE  OrderInv'
<1>1. UNCHANGED <<wire, send, accepted, lost>>
  BY DEF WriterStart, WriterQuit, WriterPingFail, WriterClose, PeerGone, Stop, AtRest,
     CloseConnection, vars, sockets, history
<1>2. writer' = writer \/ (writer.pc # "write" /\ writer'.pc # "write")
  BY DEF WriterStart, WriterQuit, WriterPingFail, WriterClose, PeerGone, Stop, AtRest,
     vars, IInv, TypeOK
<1> QED
  BY <1>1, <1>2, QuietOrder

LEMMA RegisterOrder == ASSUME IInv, OrderInv, RegisterOk PROVE OrderInv'
<1> DEFINE held == IF writer.pc = "write" THEN <<writer.msg>> ELSE <<>>
           F == FlattenSeq(wire)
<1>1. TypeOK /\ Registered /\ opened >= 1 /\ conn = opened
  BY DEF IInv, Registered, RegisterOk, At
<1>2. F \in Seq(Messages) /\ send \in Seq(Messages) /\ held \in Seq(Messages)
  BY <1>1, WiresTyped DEF TypeOK
<1>3. FlattenSeq(wire') = Append(F, "register")
  BY <1>1, ConstantTypes, WrittenLast DEF RegisterOk
<1>4. writer' = writer /\ send' = send /\ accepted' = accepted /\ lost' = lost
  BY DEF RegisterOk, history
<1>5. Outgoing = F \o held \o send /\ Outgoing' = Append(F, "register") \o held \o send
  BY <1>3, <1>4 DEF Outgoing
<1> HIDE DEF held, F
<1>6. Append(F, "register") \in Seq(Messages) /\ F \o held \in Seq(Messages)
      /\ Append(F, "register") \o held \in Seq(Messages)
  BY <1>2, ConstantTypes
<1>7. Kept(Append(F, "register"), Results) = Kept(F, Results)
  BY <1>2, ConstantTypes, KeptAppend
<1>8. /\ Kept((F \o held) \o send, Results) = Kept(F \o held, Results) \o Kept(send, Results)
      /\ Kept(F \o held, Results) = Kept(F, Results) \o Kept(held, Results)
  BY <1>2, <1>6, KeptConcat
<1>9. /\ Kept((Append(F, "register") \o held) \o send, Results)
            = Kept(Append(F, "register") \o held, Results) \o Kept(send, Results)
      /\ Kept(Append(F, "register") \o held, Results)
            = Kept(Append(F, "register"), Results) \o Kept(held, Results)
  BY <1>2, <1>6, KeptConcat
<1>10. Kept(Outgoing', Results) = Kept(Outgoing, Results)
  BY <1>5, <1>7, <1>8, <1>9
<1> QED
  BY <1>4, <1>10 DEF OrderInv, ResultsInOrder

\* What is put into the outbox is the last to go out.
LEMMA EnqueuedLast ==
    ASSUME TypeOK, NEW m \in Messages, send' = Append(send, m), UNCHANGED <<wire, writer>>
    PROVE  Outgoing' = Append(Outgoing, m)
<1> DEFINE G == FlattenSeq(wire) \o (IF writer.pc = "write" THEN <<writer.msg>> ELSE <<>>)
<1>1. G \in Seq(Messages) /\ send \in Seq(Messages)
  BY WiresTyped DEF TypeOK
<1>2. Outgoing = G \o send /\ Outgoing' = G \o Append(send, m)
  BY DEF Outgoing
<1> HIDE DEF G
<1> QED
  BY <1>1, <1>2, ConcatAppend

LEMMA PingOrder == ASSUME IInv, OrderInv, ReadPing PROVE OrderInv'
<1> USE DEF sockets, history
<1>1. CASE UNCHANGED send
  BY <1>1, QuietOrder DEF ReadPing
<1>2. CASE send' = Append(send, "pong")
  <2>1. Outgoing' = Append(Outgoing, "pong") /\ Outgoing \in Seq(Messages)
    BY <1>2, ConstantTypes, EnqueuedLast, OutgoingTyped DEF ReadPing, IInv
  <2>2. Kept(Outgoing', Results) = Kept(Outgoing, Results)
    BY <2>1, ConstantTypes, KeptAppend
  <2> QED
    BY <2>2 DEF ReadPing, OrderInv, ResultsInOrder
<1> QED
  BY <1>1, <1>2 DEF ReadPing

LEMMA ReportOrder == ASSUME IInv, OrderInv, NEW m \in Results, ReportResult(m) PROVE OrderInv'
<1> USE DEF sockets, history
<1>1. CASE UNCHANGED <<send, accepted>>
  BY <1>1, QuietOrder DEF ReportResult
<1>2. CASE send' = Append(send, m) /\ accepted' = Append(accepted, m)
  <2>1. Outgoing' = Append(Outgoing, m) /\ Outgoing \in Seq(Messages)
    BY <1>2, ConstantTypes, EnqueuedLast, OutgoingTyped DEF ReportResult, IInv
  <2>2. accepted \in Seq(Results) /\ lost' = lost
    BY DEF ReportResult, IInv, TypeOK
  <2>3. m \notin ToSet(accepted)
    BY <2>2 DEF ReportResult, Contains, ToSet
  <2>4. Distinct(accepted') /\ ToSet(accepted') = ToSet(accepted) \union {m}
    BY <1>2, <2>2, <2>3, DistinctAppend, ToSetAppend DEF OrderInv
  <2>5. m \in Results \ lost
    BY <2>3 DEF OrderInv
  <2>6. Kept(Outgoing', Results) = Append(Kept(Outgoing, Results), m)
    BY <2>1, ConstantTypes, KeptAppend
  <2>7. Kept(accepted', Results \ lost) = Append(Kept(accepted, Results \ lost), m)
    BY <1>2, <2>2, <2>5, KeptAppend
  <2> QED
    BY <2>2, <2>4, <2>6, <2>7 DEF OrderInv, ResultsInOrder
<1> QED
  BY <1>1, <1>2 DEF ReportResult

LEMMA TakeOrder == ASSUME IInv, OrderInv, WriterTake PROVE OrderInv'
<1> USE DEF sockets, history
<1> DEFINE F == FlattenSeq(wire)
<1>1. /\ writer.pc = "select" /\ writer'.pc = "write" /\ writer'.msg = Head(send)
      /\ send' = Tail(send) /\ send # <<>> /\ wire' = wire
      /\ accepted' = accepted /\ lost' = lost
      /\ F \in Seq(Messages) /\ send \in Seq(Messages)
  BY WiresTyped DEF WriterTake, IInv, TypeOK
<1>2. Outgoing = F \o <<>> \o send /\ Outgoing' = F \o <<Head(send)>> \o Tail(send)
  BY <1>1 DEF Outgoing
<1> HIDE DEF F
<1>3. Outgoing' = Outgoing
  <2>1. F \o <<>> = F /\ <<Head(send)>> \o Tail(send) = send
    BY <1>1
  <2>2. <<Head(send)>> \in Seq(Messages) /\ Tail(send) \in Seq(Messages)
    BY <1>1
  <2>3. (F \o <<Head(send)>>) \o Tail(send) = F \o (<<Head(send)>> \o Tail(send))
    BY <1>1, <2>2, ConcatAssociative
  <2> QED
    BY <1>2, <2>1, <2>3
<1> QED
  BY <1>1, <1>3 DEF OrderInv, ResultsInOrder

LEMMA WriteOrder == ASSUME IInv, OrderInv, WriterWrite PROVE OrderInv'
<1> USE DEF sockets, history
<1> DEFINE F == FlattenSeq(wire)
<1>1. /\ writer.pc = "write" /\ writer'.pc = "select" /\ send' = send
      /\ accepted' = accepted /\ lost' = lost
      /\ F \in Seq(Messages) /\ send \in Seq(Messages) /\ writer.msg \in Messages
  BY WiresTyped DEF WriterWrite, IInv, TypeOK
<1>2. opened >= 1 /\ writer.conn = opened
  BY <1>1 DEF IInv, Goroutines, Registered, TypeOK
<1>3. FlattenSeq(wire') = Append(F, writer.msg)
  BY <1>1, <1>2, WrittenLast DEF WriterWrite, IInv
<1>4. Outgoing = F \o <<writer.msg>> \o send /\ Outgoing' = Append(F, writer.msg) \o <<>> \o send
  BY <1>1, <1>3 DEF Outgoing
<1> HIDE DEF F
<1>5. Outgoing' = Outgoing
  <2>1. F \o <<writer.msg>> = Append(F, writer.msg)
        /\ Append(F, writer.msg) \o <<>> = Append(F, writer.msg)
    BY <1>1
  <2> QED
    BY <1>4, <2>1
<1> QED
  BY <1>1, <1>5 DEF OrderInv, ResultsInOrder

LEMMA FailOrder == ASSUME IInv, OrderInv, WriterFail PROVE OrderInv'
<1> USE DEF sockets, history
<1> DEFINE F == FlattenSeq(wire)
           m == writer.msg
           L == Kept(accepted, Results \ lost)
           K == Kept(F, Results)
           Q == Kept(send, Results)
<1>1. /\ writer.pc = "write" /\ writer'.pc = "closing" /\ send' = send /\ wire' = wire
      /\ accepted' = accepted /\ lost' = lost \union ({m} \intersect Results)
      /\ F \in Seq(Messages) /\ send \in Seq(Messages) /\ m \in Messages
      /\ accepted \in Seq(Results)
  BY WiresTyped DEF WriterFail, IInv, TypeOK
<1>2. Outgoing = F \o <<m>> \o send /\ Outgoing' = F \o <<>> \o send
  BY <1>1 DEF Outgoing
<1>3. F \o <<>> = F /\ F \o <<m>> = Append(F, m)
  BY <1>1
<1>4. Kept(Outgoing, Results) = L /\ Distinct(accepted) /\ lost \subseteq ToSet(accepted)
  BY DEF OrderInv, ResultsInOrder
<1>5. Kept(Outgoing, Results) = (IF m \in Results THEN Append(K, m) ELSE K) \o Q
  <2>1. Kept(Append(F, m) \o send, Results)
            = (IF m \in Results THEN Append(K, m) ELSE K) \o Q
    <3>1. F \in Seq(Messages) /\ send \in Seq(Messages) /\ m \in Messages
      BY <1>1
    <3> HIDE DEF F, m
    <3> QED
      BY <3>1, KeptSplit
  <2> QED
    BY <1>2, <1>3, <2>1
<1>6. Kept(Outgoing', Results) = K \o Q
  BY <1>1, <1>2, <1>3, KeptConcat
<1>7. CASE m \notin Results
  <2>1. lost' = lost
    BY <1>1, <1>7
  <2> QED
    BY <1>1, <1>4, <1>5, <1>6, <1>7, <2>1 DEF OrderInv, ResultsInOrder
<1>8. CASE m \in Results
  <2>1. L \in Seq(Results) /\ ToSet(L) = ToSet(accepted) \intersect (Results \ lost)
        /\ Distinct(L)
    BY <1>1, <1>4, KeptElements, KeptDistinct
  <2>2. K \in Seq(Results) /\ Q \in Seq(Results)
    BY <1>1, KeptOnly
  <2>3. L = Append(K, m) \o Q
    BY <1>4, <1>5, <1>8
  <2> HIDE DEF L, K, Q
  <2>4. Kept(L, Results \ {m}) = K \o Q
    <3>1. Distinct(Append(K, m) \o Q)
      BY <2>1, <2>3
    <3>2. Kept(Append(K, m) \o Q, Results \ {m}) = K \o Q
      BY <1>8, <2>2, <3>1, KeptWithout
    <3> QED
      BY <2>3, <3>2
  <2>5. Kept(accepted, Results \ lost') = K \o Q
    <3>1. Results \ lost' = (Results \ lost) \intersect (Results \ {m})
      BY <1>1, <1>8
    <3>2. Kept(Kept(accepted, Results \ lost), Results \ {m})
              = Kept(accepted, (Results \ lost) \intersect (Results \ {m}))
      BY <1>1, KeptTwice
    <3> QED
      BY <2>4, <3>1, <3>2 DEF L
  <2>6. m \in ToSet(accepted)
    <3>1. m \in ToSet(L)
      <4>1. L[Len(K) + 1] = m /\ Len(K) + 1 \in 1..Len(L) /\ DOMAIN L = 1..Len(L)
        BY <1>8, <2>2, <2>3
      <4> QED
        BY <4>1 DEF ToSet
    <3> QED
      BY <2>1, <3>1
  <2>7. lost' \subseteq ToSet(accepted)
    BY <1>1, <1>4, <2>6
  <2> QED
    BY <1>1, <1>4, <1>6, <2>5, <2>7 DEF OrderInv, ResultsInOrder
<1> QED
  BY <1>7, <1>8

LEMMA StepOrder == IInv /\ OrderInv /\ [Next]_vars => OrderInv'
<1> SUFFICES ASSUME IInv, OrderInv, [Next]_vars PROVE OrderInv'
  OBVIOUS
<1>1. CASE UNCHANGED vars
  BY <1>1, QuietOrder DEF vars, sockets, history
<1> QED
  BY <1>1, RunnerOrder, OthersOrder, RegisterOrder, PingOrder, ReportOrder, TakeOrder,
     WriteOrder, FailOrder DEF Next, RunnerStep, WriterStep

-----------------------------------------------------------------------------
(* The theorems. *)

\* No two goroutines write on one connection (ws_client.go:129-134, 166-187).
THEOREM OneWriterAlways == Safety => []OneWriter
<1>1. IInv => OneWriter
  BY DEF IInv, Goroutines, OneWriter, At
<1> QED
  BY <1>1, Invariance, PTL

\* The first message of every connection, and no other, is the registration
\* (ws_client.go:170-190, 237-256).
THEOREM RegistersFirstAlways == Safety => []RegistersFirst
<1>1. IInv => RegistersFirst
  BY DEF IInv
<1> QED
  BY <1>1, Invariance, PTL

\* However many connections there were and however they ended, none is open
\* once Run has returned (ws_client.go:100-105, 132-138, 187-190).
THEOREM NoSocketLeftAlways == Safety => []NoSocketLeft
<1>1. IInv => NoSocketLeft
  BY DEF IInv, OpenSockets, NoSocketLeft, At
<1> QED
  BY <1>1, Invariance, PTL

\* Over all connections the results go out in the order reportResult's callers
\* were told that they were accepted, none twice; one that is missing was taken
\* from c.send when its connection broke (ws_client.go:252-258, 341-354).
THEOREM ResultsInOrderAlways == Safety => []ResultsInOrder
<1>1. Init => OrderInv
  BY InitOrder
<1>2. IInv /\ OrderInv /\ [Next]_vars => OrderInv'
  BY StepOrder
<1>3. OrderInv => ResultsInOrder
  BY DEF OrderInv
<1> QED
  BY <1>1, <1>2, <1>3, Invariance, PTL DEF Safety

=============================================================================
