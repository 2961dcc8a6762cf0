---------------------------- MODULE GatewayLink ----------------------------
(***************************************************************************)
(* The persistent connection to the gateway, internal/agent/ws_client.go:  *)
(*                                                                         *)
(*   runner   the goroutine of WSClient.Run: connect, readPump, wait       *)
(*   writer   the goroutine of writePump, one per connection               *)
(*   others   whoever calls reportResult while they run: the print worker, *)
(*            a test print, or readPump itself refusing a job              *)
(*                                                                         *)
(* A socket is known by the number of its connection.  c.conn, the bounded *)
(* channel c.send and the channels done, writerDone and stopCh are shared. *)
(* How long Run waits between attempts is left out; that it waits is not.  *)
(***************************************************************************)
EXTENDS Integers, Sequences, FiniteSets, SequencesExt

CONSTANTS
    Results,          \* the job results reportResult is called with, once each
    SendCapacity,     \* capacity of c.send (256 in the code)
    MaxConnections,   \* bound: connections made; the last one does not break
    MaxDialFailures,  \* bound: failed dials
    MaxPings          \* bound: pings of the gateway, none on the last connection

ASSUME LinkAssumption ==
    /\ IsFiniteSet(Results) /\ Results \intersect {"register", "pong"} = {}
    /\ SendCapacity \in Nat \ {0}
    /\ MaxConnections \in Nat \ {0}
    /\ MaxDialFailures \in Nat /\ MaxPings \in Nat

Connections == 1..MaxConnections
Messages == Results \union {"register", "pong"}
Nil == 0                       \* no connection: c.conn = nil

VARIABLES
    conn,          \* c.conn
    opened,        \* connections made so far; the newest is number `opened`
    sock,          \* our end of each socket: unused, open or closed
    peer,          \* is the gateway still there at the other end?
    wire,          \* what was written on each connection, in order
    send,          \* the channel c.send
    runner,        \* Run: where it is, and the connection readPump captured
    writer,        \* writePump: where it is, its connection and its message
    done,          \* is the current connection's `done` channel closed?
    stopCh,        \* is stopCh closed?
    dialFailures, pings,
    accepted,      \* history: results enqueueMessage accepted, in order
    refused,       \* history: results it refused, which are only logged
    lost           \* history: results taken from c.send and not written

sockets == <<opened, sock, peer, wire>>
history == <<accepted, refused, lost>>
vars == <<conn, sockets, send, runner, writer, done, stopCh, dialFailures, pings, history>>

NoWriter == [pc |-> "none", conn |-> Nil, msg |-> "pong"]

TypeOK ==
    /\ conn \in 0..MaxConnections /\ opened \in 0..MaxConnections
    /\ sock \in [Connections -> {"unused", "open", "closed"}]
    /\ peer \in [Connections -> BOOLEAN]
    /\ wire \in [Connections -> Seq(Messages)]
    /\ send \in Seq(Messages) /\ Len(send) =< SendCapacity
    /\ runner \in [pc : {"top", "dial", "register", "launch", "start", "read", "done",
                         "close", "join", "wait", "ended"},
                   conn : 0..MaxConnections]
    /\ writer \in [pc : {"none", "start", "select", "write", "closing", "finished"},
                   conn : 0..MaxConnections, msg : Messages]
    /\ done \in BOOLEAN /\ stopCh \in BOOLEAN
    /\ dialFailures \in 0..MaxDialFailures /\ pings \in 0..MaxPings
    /\ accepted \in Seq(Results)
    /\ refused \subseteq Results /\ lost \subseteq Results

Init ==
    /\ conn = Nil /\ opened = 0
    /\ sock = [c \in Connections |-> "unused"]
    /\ peer = [c \in Connections |-> FALSE]
    /\ wire = [c \in Connections |-> <<>>]
    /\ send = <<>>
    /\ runner = [pc |-> "top", conn |-> Nil]
    /\ writer = NoWriter
    /\ done = FALSE /\ stopCh = FALSE
    /\ dialFailures = 0 /\ pings = 0
    /\ accepted = <<>> /\ refused = {} /\ lost = {}

-----------------------------------------------------------------------------
(* Shared by several goroutines.  X_Fault is a plausible slip in X; no      *)
(* action uses it.                                                          *)

\* closeConnection, under c.mu: it closes whatever connection c.conn names.
CloseConnection ==
    /\ sock' = IF conn = Nil THEN sock ELSE [sock EXCEPT ![conn] = "closed"]
    /\ conn' = Nil
    /\ UNCHANGED <<opened, peer, wire>>

SendHasRoom_OffByOne == Len(send) =< SendCapacity
SendHasRoom == Len(send) < SendCapacity

\* enqueueMessage accepts a message, under c.mu.
CanEnqueue == conn # Nil /\ SendHasRoom

At(pc) == runner.pc = pc
Go(pc) == runner' = [runner EXCEPT !.pc = pc]

-----------------------------------------------------------------------------
(* Run and connect. *)

RunTop ==
    /\ At("top")
    /\ \/ stopCh /\ CloseConnection /\ Go("ended")
       \/ ~stopCh /\ Go("dial") /\ UNCHANGED <<conn, sockets>>
    /\ UNCHANGED <<send, writer, done, stopCh, dialFailures, pings, history>>

DialFail ==
    /\ At("dial")
    /\ dialFailures < MaxDialFailures
    /\ dialFailures' = dialFailures + 1
    /\ Go("wait")
    /\ UNCHANGED <<conn, sockets, send, writer, done, stopCh, pings, history>>

DialOk_NoRegister ==
    /\ At("dial")
    /\ opened < MaxConnections
    /\ opened' = opened + 1
    /\ conn' = opened'
    /\ sock' = [sock EXCEPT ![opened'] = "open"]
    /\ peer' = [peer EXCEPT ![opened'] = TRUE]
    /\ Go("launch")
    /\ UNCHANGED <<wire, send, writer, done, stopCh, dialFailures, pings, history>>

DialOk ==
    /\ At("dial")
    /\ opened < MaxConnections
    /\ opened' = opened + 1
    /\ conn' = opened'
    /\ sock' = [sock EXCEPT ![opened'] = "open"]
    /\ peer' = [peer EXCEPT ![opened'] = TRUE]
    /\ Go("register")
    /\ UNCHANGED <<wire, send, writer, done, stopCh, dialFailures, pings, history>>

RegisterOk ==
    /\ At("register")
    /\ wire' = [wire EXCEPT ![conn] = Append(@, "register")]
    /\ Go("launch")
    /\ UNCHANGED <<conn, opened, sock, peer, send, writer, done, stopCh, dialFailures,
                   pings, history>>

RegisterFail_NotClosed ==
    /\ At("register") /\ ~peer[conn]
    /\ Go("wait")
    /\ UNCHANGED <<conn, sockets, send, writer, done, stopCh, dialFailures, pings, history>>

\* The socket is closed, but c.conn goes on naming it.
RegisterFail ==
    /\ At("register") /\ ~peer[conn]
    /\ sock' = [sock EXCEPT ![conn] = "closed"]
    /\ Go("wait")
    /\ UNCHANGED <<conn, opened, peer, wire, send, writer, done, stopCh, dialFailures,
                   pings, history>>

Launch_OnlyFirst ==
    /\ At("launch")
    /\ done' = FALSE
    /\ writer' = [NoWriter EXCEPT !.pc = IF opened = 1 THEN "start" ELSE "finished"]
    /\ Go("start")
    /\ UNCHANGED <<conn, sockets, send, stopCh, dialFailures, pings, history>>

\* Fresh done and writerDone channels, and the goroutine of writePump.
Launch ==
    /\ At("launch")
    /\ done' = FALSE
    /\ writer' = [NoWriter EXCEPT !.pc = "start"]
    /\ Go("start")
    /\ UNCHANGED <<conn, sockets, send, stopCh, dialFailures, pings, history>>

CloseDone ==
    /\ At("done")
    /\ done' = TRUE
    /\ Go("close")
    /\ UNCHANGED <<conn, sockets, send, writer, stopCh, dialFailures, pings, history>>

RunClose ==
    /\ At("close")
    /\ CloseConnection
    /\ Go("join")
    /\ UNCHANGED <<send, writer, done, stopCh, dialFailures, pings, history>>

Joined_NotAwaited == TRUE
Joined == writer.pc = "finished"

RunJoin ==
    /\ At("join") /\ Joined
    /\ Go("wait")
    /\ UNCHANGED <<conn, sockets, send, writer, done, stopCh, dialFailures, pings, history>>

\* The select between stopCh and the timer: when both are ready, either.
RunWait ==
    /\ At("wait")
    /\ \/ stopCh /\ Go("ended")
       \/ Go("top")
    /\ UNCHANGED <<conn, sockets, send, writer, done, stopCh, dialFailures, pings, history>>

-----------------------------------------------------------------------------
(* readPump. *)

ReadStart ==
    /\ At("start")
    /\ runner' = [pc |-> IF conn = Nil THEN "done" ELSE "read", conn |-> conn]
    /\ UNCHANGED <<conn, sockets, send, writer, done, stopCh, dialFailures, pings, history>>

\* A ping is answered through c.send; a refused pong ends the connection.  One
\* that was already received is read whatever became of the socket since.
ReadPing ==
    /\ At("read")
    /\ pings < MaxPings /\ opened < MaxConnections /\ pings' = pings + 1
    /\ \/ /\ CanEnqueue
          /\ send' = Append(send, "pong")
          /\ UNCHANGED runner
       \/ ~CanEnqueue /\ Go("done") /\ UNCHANGED send
    /\ UNCHANGED <<conn, sockets, writer, done, stopCh, dialFailures, history>>

\* ReadJSON fails for certain on a socket that was closed here ...
ReadClosed ==
    /\ At("read") /\ sock[runner.conn] = "closed"
    /\ Go("done")
    /\ UNCHANGED <<conn, sockets, send, writer, done, stopCh, dialFailures, pings, history>>

\* ... and possibly, there being no read deadline, when the gateway is gone.
ReadPeerGone ==
    /\ At("read") /\ ~peer[runner.conn]
    /\ Go("done")
    /\ UNCHANGED <<conn, sockets, send, writer, done, stopCh, dialFailures, pings, history>>

-----------------------------------------------------------------------------
(* writePump. *)

WriterStart ==
    /\ writer.pc = "start"
    /\ writer' = [writer EXCEPT !.pc = IF conn = Nil THEN "finished" ELSE "select",
                                !.conn = conn]
    /\ UNCHANGED <<conn, sockets, send, runner, done, stopCh, dialFailures, pings, history>>

QuitSignal_OnlyDone == done
QuitSignal == done \/ stopCh

WriterQuit ==
    /\ writer.pc = "select" /\ QuitSignal
    /\ writer' = [writer EXCEPT !.pc = "closing"]
    /\ UNCHANGED <<conn, sockets, send, runner, done, stopCh, dialFailures, pings, history>>

WriterTake ==
    /\ writer.pc = "select" /\ send # <<>>
    /\ writer' = [writer EXCEPT !.pc = "write", !.msg = Head(send)]
    /\ send' = Tail(send)
    /\ UNCHANGED <<conn, sockets, runner, done, stopCh, dialFailures, pings, history>>

\* A write to a gateway that is gone may still succeed here.
WriterWrite ==
    /\ writer.pc = "write" /\ sock[writer.conn] = "open"
    /\ wire' = [wire EXCEPT ![writer.conn] = Append(@, writer.msg)]
    /\ writer' = [writer EXCEPT !.pc = "select"]
    /\ UNCHANGED <<conn, opened, sock, peer, send, runner, done, stopCh, dialFailures,
                   pings, history>>

Broken(c) == sock[c] = "closed" \/ ~peer[c]

WriterFail_Requeue ==
    /\ writer.pc = "write" /\ Broken(writer.conn)
    /\ send' = IF SendHasRoom THEN Append(send, writer.msg) ELSE send
    /\ writer' = [writer EXCEPT !.pc = "closing"]
    /\ lost' = IF SendHasRoom THEN lost ELSE lost \union ({writer.msg} \intersect Results)
    /\ UNCHANGED <<conn, sockets, runner, done, stopCh, dialFailures, pings, accepted, refused>>

\* The message taken from c.send is gone with the connection.
WriterFail ==
    /\ writer.pc = "write" /\ Broken(writer.conn)
    /\ lost' = lost \union ({writer.msg} \intersect Results)
    /\ writer' = [writer EXCEPT !.pc = "closing"]
    /\ UNCHANGED <<conn, sockets, send, runner, done, stopCh, dialFailures, pings,
                   accepted, refused>>

\* The ticker's ping, of which only a failure changes anything.
WriterPingFail ==
    /\ writer.pc = "select" /\ Broken(writer.conn)
    /\ writer' = [writer EXCEPT !.pc = "closing"]
    /\ UNCHANGED <<conn, sockets, send, runner, done, stopCh, dialFailures, pings, history>>

WriterClose_NotDeferred ==
    /\ writer.pc = "closing"
    /\ writer' = [writer EXCEPT !.pc = "finished"]
    /\ UNCHANGED <<conn, sockets, send, runner, done, stopCh, dialFailures, pings, history>>

\* The deferred closeConnection, and writerDone.
WriterClose ==
    /\ writer.pc = "closing"
    /\ CloseConnection
    /\ writer' = [writer EXCEPT !.pc = "finished"]
    /\ UNCHANGED <<send, runner, done, stopCh, dialFailures, pings, history>>

-----------------------------------------------------------------------------
(* The others, and the environment. *)

ReportResult(m) ==
    /\ m \notin refused /\ ~Contains(accepted, m)
    /\ \/ /\ CanEnqueue
          /\ send' = Append(send, m)
          /\ accepted' = Append(accepted, m)
          /\ UNCHANGED refused
       \/ ~CanEnqueue /\ refused' = refused \union {m} /\ UNCHANGED <<send, accepted>>
    /\ UNCHANGED <<conn, sockets, runner, writer, done, stopCh, dialFailures, pings, lost>>

\* The gateway or the network goes away; the last connection allowed stays.
PeerGone ==
    /\ opened \in 1..(MaxConnections - 1) /\ peer[opened]
    /\ peer' = [peer EXCEPT ![opened] = FALSE]
    /\ UNCHANGED <<conn, opened, sock, wire, send, runner, writer, done, stopCh,
                   dialFailures, pings, history>>

Stop ==
    /\ ~stopCh
    /\ stopCh' = TRUE
    /\ UNCHANGED <<conn, sockets, send, runner, writer, done, dialFailures, pings, history>>

\* Run has returned, or the agent is connected, idle and out of requests.
AtRest ==
    /\ \/ At("ended")
       \/ At("read") /\ writer.pc = "select" /\ send = <<>>
    /\ UNCHANGED vars

RunnerStep ==
    \/ RunTop \/ DialFail \/ DialOk \/ RegisterOk \/ RegisterFail \/ Launch
    \/ CloseDone \/ RunClose \/ RunJoin \/ RunWait
    \/ ReadStart \/ ReadPing \/ ReadClosed

WriterStep ==
    \/ WriterStart \/ WriterQuit \/ WriterTake \/ WriterWrite \/ WriterFail
    \/ WriterPingFail \/ WriterClose

Next ==
    \/ RunnerStep \/ ReadPeerGone
    \/ WriterStep
    \/ \E m \in Results : ReportResult(m)
    \/ PeerGone \/ Stop
    \/ AtRest

Safety == Init /\ [][Next]_vars

\* Both goroutines run; dials and handshakes time out, writes have deadlines.
\* Nothing makes a blocked read notice that the gateway is gone.
Spec == Safety /\ WF_vars(RunnerStep) /\ WF_vars(WriterStep)

-----------------------------------------------------------------------------
(* Properties. *)

\* Gorilla allows one writer at a time: while Run writes the registration no
\* writePump of an earlier connection is left, and a writePump writes and
\* closes only the newest connection (ws_client.go:129-134, 166-187, 339-340).
OneWriter ==
    /\ At("register") => writer.pc \in {"none", "finished"}
    /\ writer.pc \in {"select", "write", "closing"} => writer.conn = opened

\* Every connection says who is calling before it says anything else, and says
\* it once, though results of the previous connection may be waiting
\* (ws_client.go:170-190, 237-256).
RegistersFirst ==
    \A c \in Connections : \A k \in 1..Len(wire[c]) : wire[c][k] = "register" <=> k = 1

\* The elements of a sequence that lie in a set, in their order.
Kept(s, S) ==
    LET kept[k \in 0..Len(s)] ==
            IF k = 0 THEN <<>>
            ELSE IF s[k] \in S THEN Append(kept[k - 1], s[k]) ELSE kept[k - 1]
    IN  kept[Len(s)]

\* What the connections carried, what is being written and what waits.
Outgoing ==
    FlattenSeq(wire) \o (IF writer.pc = "write" THEN <<writer.msg>> ELSE <<>>) \o send

\* Across all connections the accepted results are written in the order they
\* were accepted, none twice, and only one taken from the queue just when its
\* connection broke is missing (ws_client.go:252-258, 341-354).
ResultsInOrder == Kept(Outgoing, Results) = Kept(accepted, Results \ lost)

\* Whichever way Run ends, it leaves no socket open (ws_client.go:100-105,
\* 109-112, 132-138, 187-190).
NoSocketLeft == At("ended") => \A c \in Connections : sock[c] # "open"

\* Stopping the agent ends Run, even out of a read that would never return
\* (ws_client.go:101-104, 109-111, 136-138, 251-252).
StopEndsRun == stopCh ~> At("ended")

\* A gateway that is gone is given up and dialled again, without any read
\* failing by itself (ws_client.go:244-245, 260-264).
DeadPeerReplaced == (At("read") /\ ~peer[opened]) ~> (At("dial") \/ stopCh)

\* What was accepted does not wait for ever once the network holds
\* (ws_client.go:122-127, 253-258).
QueueDrains == send # <<>> ~> (send = <<>> \/ stopCh)

\* A result is accepted only on a live connection: ws_client_test.go:209 calls
\* the opposite an error, "se acepto un resultado sin conexion".
AcceptedWhileConnected ==
    [][accepted' # accepted => conn # Nil /\ sock[conn] = "open"]_vars

=============================================================================
