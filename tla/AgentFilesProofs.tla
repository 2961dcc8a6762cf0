-------------------------- MODULE AgentFilesProofs --------------------------
(***************************************************************************)
(* Theorems about AgentFiles, for every set of configurations and ids, any *)
(* number of handlers, saves, starts and lost connections.                 *)
(***************************************************************************)
EXTENDS AgentFiles, TLAPS

-----------------------------------------------------------------------------
(* Files. *)

\* A file whose content can be parsed has the length of that content.
FileOK(file, cs) ==
    /\ file \in FilesOf(cs)
    /\ file.content \in Contents => file.size = Size[file.content]

LEMMA ConstantTypes ==
    /\ GatewayId \in Ids /\ Blank \notin Ids /\ Blank \notin Configs
    /\ "damaged" \notin Contents /\ "missing" \notin Contents
    /\ \A c \in Contents : Size[c] \in Nat /\ Size[c] > 0
  BY FilesAssumption DEF Contents

LEMMA FreshFiles ==
    ASSUME NEW cs, cs \subseteq Contents
    PROVE  FileOK(Missing, cs) /\ FileOK(Truncated, cs)
  BY ConstantTypes DEF FileOK, FilesOf, Missing, Truncated

LEMMA OverwrittenOK ==
    ASSUME NEW cs, cs \subseteq Contents, NEW file, FileOK(file, cs), NEW c \in cs
    PROVE  FileOK(Overwritten(file, c), cs)
<1>1. CASE file.size =< Size[c]
  BY <1>1 DEF Overwritten, FileOK, FilesOf
<1>2. CASE ~(file.size =< Size[c])
  BY <1>2, ConstantTypes DEF Overwritten, FileOK, FilesOf
<1> QED
  BY <1>1, <1>2

\* What is written into an empty file is what it holds.
LEMMA OverwrittenEmpty ==
    ASSUME NEW c \in Contents
    PROVE  Overwritten(Truncated, c).content = c
  BY ConstantTypes DEF Overwritten, Truncated

-----------------------------------------------------------------------------
(* The configuration: type correctness and the inductive invariant. *)

HandlerRecords == [pc : {"idle", "open", "write", "stat"}, config : Configs]

ServerTyped ==
    /\ FileOK(config, Configs)
    /\ up \in BOOLEAN
    /\ configuredPrinter \in {PrinterName[c] : c \in Configs} \union {Blank}
    /\ handler \in [Handlers -> HandlerRecords]
    /\ saves \in 0..MaxSaves
    /\ saved \in Configs \union {Blank} /\ torn \in BOOLEAN /\ stale \in BOOLEAN

\* The content of the file after the last whole save, and its printer.
SavedContent == IF saved = Blank THEN "missing" ELSE saved
SavedPrinter == IF saved = Blank THEN Blank ELSE PrinterName[saved]

\* Unless the file is torn, one handler at most is writing it, from the start.
FileKept ==
    ~torn =>
        /\ \A g, h \in Writing : g = h
        /\ Writing # {} => config = Truncated
        /\ Writing = {} => config.content = SavedContent

\* Unless /status is stale, one handler at most is between its truncation and
\* its /status, and the last of both were of one save.
StatusKept ==
    ~stale =>
        /\ \A g, h \in Saving : g = h
        /\ \A h \in Saving : handler[h].pc = "stat" => handler[h].config = saved
        /\ up /\ ~torn /\ Saving = {} => configuredPrinter = SavedPrinter

IdleWhenDown == ~up => \A h \in Handlers : handler[h].pc = "idle"

ServerInv == ServerTyped /\ FileKept /\ StatusKept /\ IdleWhenDown

LEMMA IdleHandlerTyped == IdleHandler \in HandlerRecords /\ IdleHandler.pc = "idle"
  BY FilesAssumption DEF IdleHandler, HandlerRecords

LEMMA InitServer == Init => ServerInv
<1> SUFFICES ASSUME Init PROVE ServerInv
  OBVIOUS
<1>1. FileOK(config, Configs) /\ config.content = "missing"
  BY FreshFiles DEF Init, Contents, Missing
<1>2. saves \in 0..MaxSaves
  BY FilesAssumption DEF Init
<1>3. /\ handler \in [Handlers -> HandlerRecords] /\ Saving = {} /\ Writing = {}
      /\ \A h \in Handlers : handler[h].pc = "idle"
  BY IdleHandlerTyped DEF Init, Saving, Writing
<1>4. up = FALSE /\ configuredPrinter = Blank /\ saved = Blank /\ torn = FALSE /\ stale = FALSE
  BY DEF Init
<1> QED
  BY <1>1, <1>2, <1>3, <1>4
     DEF ServerInv, ServerTyped, FileKept, StatusKept, IdleWhenDown, SavedContent

LEMMA StartServer == ServerInv /\ Start => ServerInv'
<1> SUFFICES ASSUME ServerInv, Start PROVE ServerInv'
  OBVIOUS
<1>1. /\ UNCHANGED <<config, handler, saves, saved, torn>> /\ ~up /\ up' = TRUE
      /\ configuredPrinter' \in {LoadedPrinter, Blank}
      /\ stale' = (configuredPrinter' # LoadedPrinter)
  BY DEF Start
<1>2. ServerTyped'
  BY <1>1 DEF ServerInv, ServerTyped, LoadedPrinter
<1>3. Saving = {} /\ Saving' = {} /\ Writing = {} /\ Writing' = {}
  BY <1>1 DEF Saving, Writing, ServerInv, IdleWhenDown
<1>4. FileKept'
  BY <1>1, <1>3 DEF ServerInv, FileKept, SavedContent
<1>5. ~torn => LoadedPrinter = SavedPrinter
  BY <1>3, ConstantTypes DEF ServerInv, ServerTyped, FileKept, LoadedPrinter, SavedContent,
     SavedPrinter, Contents
<1>6. StatusKept'
  BY <1>1, <1>3, <1>5 DEF StatusKept, SavedPrinter
<1> QED
  BY <1>1, <1>2, <1>4, <1>6 DEF ServerInv, IdleWhenDown

LEMMA CrashServer == ServerInv /\ Crash => ServerInv'
<1> SUFFICES ASSUME ServerInv, Crash PROVE ServerInv'
  OBVIOUS
<1>1. /\ UNCHANGED <<config, saves, saved, stale>> /\ up' = FALSE /\ configuredPrinter' = Blank
      /\ handler' = [h \in Handlers |-> IdleHandler]
  BY DEF Crash
<1>2. torn' = (torn \/ Writing # {}) /\ torn' \in BOOLEAN
  BY DEF Crash
<1>3. ServerTyped'
  BY <1>1, <1>2, IdleHandlerTyped DEF ServerInv, ServerTyped
<1>4. Saving' = {} /\ Writing' = {} /\ \A h \in Handlers : handler'[h].pc = "idle"
  BY <1>1, IdleHandlerTyped DEF Saving, Writing
<1>5. FileKept'
  BY <1>1, <1>2, <1>4 DEF ServerInv, FileKept, SavedContent
<1> QED
  BY <1>1, <1>3, <1>4, <1>5 DEF ServerInv, StatusKept, IdleWhenDown

LEMMA BeginServer == ASSUME ServerInv, NEW h \in Handlers, UpsertBegin(h) PROVE ServerInv'
<1>1. /\ UNCHANGED <<config, configuredPrinter, saved, torn, stale, up>> /\ handler[h].pc = "idle"
      /\ saves' = saves + 1 /\ saves < MaxSaves
  BY DEF UpsertBegin
<1>2. PICK q \in HandlerRecords : /\ q.pc \in {"idle", "open"} /\ handler' = [handler EXCEPT ![h] = q]
  <2>1. CASE handler' = handler
    BY <1>1, <2>1 DEF ServerInv, ServerTyped, HandlerRecords
  <2>2. CASE \E c \in Configs : handler' = [handler EXCEPT ![h] = [pc |-> "open", config |-> c]]
    BY <2>2 DEF HandlerRecords
  <2> QED
    BY <2>1, <2>2 DEF UpsertBegin
<1>3. saves' \in 0..MaxSaves
  BY <1>1, FilesAssumption DEF ServerInv, ServerTyped
<1>4. ServerTyped'
  BY <1>1, <1>2, <1>3 DEF ServerInv, ServerTyped
<1>5. Saving' = Saving /\ Writing' = Writing /\ \A g \in Saving : handler'[g] = handler[g]
  BY <1>1, <1>2 DEF ServerInv, ServerTyped, Saving, Writing
<1>6. up
  BY DEF UpsertBegin
<1> QED
  BY <1>1, <1>4, <1>5, <1>6
     DEF ServerInv, FileKept, StatusKept, IdleWhenDown, SavedContent, SavedPrinter

LEMMA OpenServer == ASSUME ServerInv, NEW h \in Handlers, UpsertOpen(h) PROVE ServerInv'
<1>1. UNCHANGED <<configuredPrinter, saves, saved, up>> /\ handler[h].pc = "open"
  BY DEF UpsertOpen
<1>2. CASE /\ config' = Truncated
           /\ handler' = [handler EXCEPT ![h].pc = "write"]
           /\ torn' = (Writing # {}) /\ stale' = (Saving # {})
  <2>1. [handler[h] EXCEPT !.pc = "write"] \in HandlerRecords
    BY DEF ServerInv, ServerTyped, HandlerRecords
  <2>2. handler' \in [Handlers -> HandlerRecords]
    BY <1>2, <2>1 DEF ServerInv, ServerTyped
  <2>3. ServerTyped'
    BY <1>1, <1>2, <2>2, FreshFiles DEF ServerInv, ServerTyped, Contents
  <2>4. /\ handler'[h].pc = "write"
        /\ \A g \in Handlers \ {h} : handler'[g] = handler[g]
    BY <1>2 DEF ServerInv, ServerTyped, HandlerRecords
  <2>5. Saving' = Saving \union {h} /\ Writing' = Writing \union {h}
    BY <2>4 DEF Saving, Writing
  <2>6. up
    BY <1>1 DEF ServerInv, IdleWhenDown
  <2> QED
    BY <1>1, <1>2, <2>3, <2>4, <2>5, <2>6 DEF ServerInv, FileKept, StatusKept, IdleWhenDown
<1>3. CASE handler' = [handler EXCEPT ![h] = IdleHandler] /\ UNCHANGED <<config, torn, stale>>
  <2>1. ServerTyped'
    BY <1>1, <1>3, IdleHandlerTyped DEF ServerInv, ServerTyped
  <2>2. Saving' = Saving /\ Writing' = Writing /\ \A g \in Saving : handler'[g] = handler[g]
    BY <1>1, <1>3, IdleHandlerTyped DEF ServerInv, ServerTyped, Saving, Writing
  <2>3. up
    BY <1>1 DEF ServerInv, IdleWhenDown
  <2> QED
    BY <1>1, <1>3, <2>1, <2>2, <2>3
       DEF ServerInv, FileKept, StatusKept, IdleWhenDown, SavedContent, SavedPrinter
<1> QED
  BY <1>2, <1>3 DEF UpsertOpen

LEMMA WriteServer == ASSUME ServerInv, NEW h \in Handlers, UpsertWrite(h) PROVE ServerInv'
<1>1. /\ UNCHANGED <<configuredPrinter, saves, stale, up>> /\ up
      /\ handler[h].pc = "write" /\ h \in Saving /\ h \in Writing
  BY DEF UpsertWrite, Saving, Writing, ServerInv, IdleWhenDown
<1>2. CASE /\ config' = Overwritten(config, handler[h].config)
           /\ handler' = [handler EXCEPT ![h].pc = "stat"]
           /\ saved' = handler[h].config
           /\ UNCHANGED torn
  <2>1. handler[h].config \in Configs
    BY DEF ServerInv, ServerTyped, HandlerRecords
  <2>2. [handler[h] EXCEPT !.pc = "stat"] \in HandlerRecords
    BY DEF ServerInv, ServerTyped, HandlerRecords
  <2>3. handler' \in [Handlers -> HandlerRecords]
    BY <1>2, <2>2 DEF ServerInv, ServerTyped
  <2>4. ServerTyped'
    BY <1>1, <1>2, <2>1, <2>3, OverwrittenOK DEF ServerInv, ServerTyped, Contents
  <2>5. /\ handler'[h].pc = "stat" /\ handler'[h].config = handler[h].config
        /\ \A g \in Handlers \ {h} : handler'[g] = handler[g]
    BY <1>2 DEF ServerInv, ServerTyped, HandlerRecords
  <2>6. Saving' = Saving /\ Writing' = Writing \ {h}
    BY <1>1, <2>5 DEF Saving, Writing
  <2>7. SavedContent' = handler[h].config
    BY <1>2, <2>1, ConstantTypes DEF SavedContent
  <2>8. ~torn => Writing' = {} /\ config'.content = handler[h].config
    BY <1>1, <1>2, <2>1, <2>6, OverwrittenEmpty DEF ServerInv, FileKept, Contents
  <2>9. FileKept'
    BY <1>2, <2>7, <2>8 DEF FileKept
  <2>10. StatusKept'
    BY <1>1, <1>2, <2>5, <2>6 DEF ServerInv, StatusKept
  <2> QED
    BY <1>1, <2>4, <2>9, <2>10 DEF ServerInv, IdleWhenDown
<1>3. CASE /\ handler' = [handler EXCEPT ![h] = IdleHandler]
           /\ torn' = TRUE
           /\ UNCHANGED <<config, saved>>
  <2>1. ServerTyped'
    BY <1>1, <1>3, IdleHandlerTyped DEF ServerInv, ServerTyped
  <2>2. Saving' = Saving \ {h} /\ \A g \in Saving \ {h} : handler'[g] = handler[g]
    BY <1>1, <1>3, IdleHandlerTyped DEF ServerInv, ServerTyped, Saving
  <2>3. StatusKept'
    BY <1>1, <1>3, <2>2 DEF ServerInv, StatusKept
  <2> QED
    BY <1>1, <1>3, <2>1, <2>3 DEF ServerInv, FileKept, IdleWhenDown
<1> QED
  BY <1>2, <1>3 DEF UpsertWrite

LEMMA StatServer == ASSUME ServerInv, NEW h \in Handlers, UpsertStat(h) PROVE ServerInv'
<1>1. /\ UNCHANGED <<config, saves, saved, torn, stale, up>> /\ up
      /\ handler[h].pc = "stat" /\ h \in Saving
      /\ configuredPrinter' = PrinterName[handler[h].config]
      /\ handler' = [handler EXCEPT ![h] = IdleHandler]
  BY DEF UpsertStat, Saving, ServerInv, IdleWhenDown
<1>2. handler[h].config \in Configs
  BY DEF ServerInv, ServerTyped, HandlerRecords
<1>3. ServerTyped'
  BY <1>1, <1>2, IdleHandlerTyped DEF ServerInv, ServerTyped
<1>4. /\ Saving' = Saving \ {h} /\ Writing' = Writing
      /\ \A g \in Saving \ {h} : handler'[g] = handler[g]
  BY <1>1, IdleHandlerTyped DEF ServerInv, ServerTyped, Saving, Writing
<1>5. FileKept'
  BY <1>1, <1>4 DEF ServerInv, FileKept, SavedContent
<1>6. ~stale => handler[h].config = saved
  BY <1>1 DEF ServerInv, StatusKept
<1>7. ~stale => configuredPrinter' = SavedPrinter
  BY <1>1, <1>2, <1>6, ConstantTypes DEF SavedPrinter
<1>8. StatusKept'
  BY <1>1, <1>4, <1>7 DEF ServerInv, StatusKept, SavedPrinter
<1> QED
  BY <1>1, <1>3, <1>5, <1>8 DEF ServerInv, IdleWhenDown

LEMMA StepServer == ServerInv /\ [Next]_vars => ServerInv'
<1> SUFFICES ASSUME ServerInv, [Next]_vars PROVE ServerInv'
  OBVIOUS
<1>1. CASE UNCHANGED <<serverVars, up>>
  <2>1. Saving' = Saving /\ Writing' = Writing
    BY <1>1 DEF serverVars, Saving, Writing
  <2> QED
    BY <1>1, <2>1 DEF serverVars, ServerInv, ServerTyped, FileKept, StatusKept, IdleWhenDown,
       SavedContent, SavedPrinter
<1>2. CASE RunnerStep \/ Disconnect \/ AtRest \/ UNCHANGED vars
  BY <1>1, <1>2 DEF RunnerStep, LoadIdentity, CreateIdentity, FillIdentity, TakeIdentity,
     ShowIdentity, Connect, AcceptRegistration, ShowRegistration, ReplaceIdentity,
     RewriteIdentity, Disconnect, AtRest, vars
<1> QED
  BY <1>2, StartServer, CrashServer, BeginServer, OpenServer, WriteServer, StatServer
     DEF Next, UpsertStep

LEMMA ServerInvariance == Safety => []ServerInv
<1>1. Init => ServerInv
  BY InitServer
<1>2. ServerInv /\ [Next]_vars => ServerInv'
  BY StepServer
<1> QED
  BY <1>1, <1>2, PTL DEF Safety

-----------------------------------------------------------------------------
(* The identity: type correctness and the inductive invariant. *)

ClientTyped ==
    /\ FileOK(identity, Ids)
    /\ runner \in [pc : {"off", "load", "create", "fill", "take", "show", "dial", "online",
                         "adopted", "replace", "rewrite", "served"},
                   id : Ids \union {Blank}]
    /\ agentID \in Ids \union {Blank} /\ statusID \in Ids \union {Blank}
    /\ envId \in EnvIds
    /\ starts \in 0..MaxStarts /\ drops \in 0..MaxDrops
    /\ stored \in BOOLEAN /\ authorized \in BOOLEAN

\* The id in the runner's hands: one to write to the file or to take, and from
\* the registration on the gateway's, which is the agent's as well.
InHand ==
    /\ runner.pc \in {"create", "fill", "take", "show", "adopted", "replace", "rewrite"}
          => runner.id \in Ids
    /\ runner.pc = "load" => starts >= 1
    /\ runner.pc \in {"adopted", "replace", "rewrite"}
          => runner.id = GatewayId /\ agentID = GatewayId

\* What is stored is in the file unless it is being rewritten, which starts with
\* an empty file; nobody makes a new id then.
Stored ==
    /\ stored /\ runner.pc # "rewrite" => identity.content = GatewayId
    /\ runner.pc \in {"create", "fill"} => ~stored
    /\ runner.pc = "rewrite" => identity = Truncated
    /\ stored /\ envId = Blank =>
          /\ agentID \in {GatewayId, Blank}
          /\ runner.pc = "take" => runner.id = GatewayId

\* The client runs in a process that is up, and one that is authorized is past
\* the choice of its id.
Granted ==
    /\ runner.pc # "off" => up
    /\ authorized => /\ agentID = GatewayId
                     /\ runner.pc \notin {"off", "load", "create", "fill", "take"}

ClientInv == ClientTyped /\ InHand /\ Stored /\ Granted

RunnerRecords ==
    [pc : {"off", "load", "create", "fill", "take", "show", "dial", "online", "adopted",
           "replace", "rewrite", "served"},
     id : Ids \union {Blank}]

LEMMA InitClient == Init => ClientInv
<1> SUFFICES ASSUME Init PROVE ClientInv
  OBVIOUS
<1>1. FileOK(identity, Ids)
  BY FreshFiles DEF Init, Contents
<1>2. starts \in 0..MaxStarts /\ drops \in 0..MaxDrops
  BY FilesAssumption DEF Init
<1>3. runner = NoRunner /\ NoRunner \in RunnerRecords /\ NoRunner.pc = "off"
  BY DEF Init, NoRunner, RunnerRecords
<1>4. stored = FALSE /\ authorized = FALSE
  BY DEF Init
<1>5. agentID = Blank /\ statusID = Blank /\ envId \in EnvIds
  BY DEF Init
<1> QED
  BY <1>1, <1>2, <1>3, <1>4, <1>5 DEF ClientInv, ClientTyped, RunnerRecords, InHand, Stored, Granted

LEMMA StartClient == ClientInv /\ Start => ClientInv'
<1> SUFFICES ASSUME ClientInv, Start PROVE ClientInv'
  OBVIOUS
<1>1. /\ UNCHANGED <<identity, agentID, statusID, drops, stored, authorized, envId>>
      /\ starts' \in 0..MaxStarts /\ starts' >= 1 /\ ~up /\ up'
      /\ runner'.pc = "load" /\ runner' \in RunnerRecords
  BY FilesAssumption DEF Start, ClientInv, ClientTyped, NoRunner, RunnerRecords
<1>2. ClientTyped'
  BY <1>1 DEF ClientInv, ClientTyped, RunnerRecords
<1>3. ~authorized
  BY <1>1 DEF ClientInv, ClientTyped, Granted
<1> QED
  BY <1>1, <1>2, <1>3 DEF ClientInv, InHand, Stored, Granted

LEMMA CrashClient == ClientInv /\ Crash => ClientInv'
<1> SUFFICES ASSUME ClientInv, Crash PROVE ClientInv'
  OBVIOUS
<1>1. /\ UNCHANGED <<identity, drops, envId, starts>>
      /\ stored' = (stored /\ runner.pc # "rewrite") /\ stored' \in BOOLEAN
      /\ runner' \in RunnerRecords /\ runner'.pc = "off"
      /\ agentID' = Blank /\ statusID' = Blank
  BY DEF Crash, NoRunner, RunnerRecords
<1>2. authorized' = FALSE
  BY DEF Crash
<1>3. ClientTyped'
  BY <1>1, <1>2 DEF ClientInv, ClientTyped, RunnerRecords
<1> QED
  BY <1>1, <1>2, <1>3 DEF ClientInv, InHand, Stored, Granted

\* Where the runner is and the id in its hands, after a step.
LEMMA BeTyped ==
    ASSUME NEW pc \in {"create", "fill", "take", "show", "dial", "online", "adopted",
                       "replace", "rewrite", "served"},
           NEW id \in Ids \union {Blank}, Be(pc, id)
    PROVE  runner' \in RunnerRecords /\ runner'.pc = pc /\ runner'.id = id
  BY DEF Be, RunnerRecords

LEMMA LoadClient == ClientInv /\ LoadIdentity => ClientInv'
<1> SUFFICES ASSUME ClientInv, LoadIdentity PROVE ClientInv'
  OBVIOUS
<1>1. /\ UNCHANGED <<identity, agentID, statusID, drops, authorized, up, envId, starts>>
      /\ runner.pc = "load"
  BY DEF LoadIdentity
<1>2. ~authorized
  BY <1>1 DEF ClientInv, Granted
<1>3. PICK readable \in BOOLEAN :
        /\ \/ KnownId(readable) # Blank /\ Be("take", KnownId(readable))
           \/ KnownId(readable) = Blank /\ Be("create", Generated[starts])
        /\ stored' = (stored /\ (readable \/ envId # Blank))
  BY DEF LoadIdentity
<1>4. stored' \in BOOLEAN /\ (stored' => stored /\ identity.content = GatewayId)
  BY <1>1, <1>3 DEF ClientInv, Stored
<1>5. stored' => KnownId(readable) # Blank /\ (envId = Blank => KnownId(readable) = GatewayId)
  BY <1>3, <1>4, ConstantTypes DEF KnownId
<1>6. CASE KnownId(readable) # Blank /\ Be("take", KnownId(readable))
  <2>1. KnownId(readable) \in Ids
    BY <1>6, FilesAssumption DEF KnownId, ClientInv, ClientTyped
  <2>2. runner' \in RunnerRecords /\ runner'.pc = "take" /\ runner'.id = KnownId(readable)
    BY <1>6, <2>1, BeTyped
  <2>3. ClientTyped'
    BY <1>1, <1>4, <2>2 DEF ClientInv, ClientTyped, RunnerRecords
  <2> QED
    BY <1>1, <1>2, <1>4, <1>5, <2>1, <2>2, <2>3 DEF ClientInv, InHand, Stored, Granted
<1>7. CASE KnownId(readable) = Blank /\ Be("create", Generated[starts])
  <2>1. Generated[starts] \in Ids
    BY <1>1, FilesAssumption DEF ClientInv, ClientTyped, InHand
  <2>2. runner' \in RunnerRecords /\ runner'.pc = "create" /\ runner'.id = Generated[starts]
    BY <1>7, <2>1, BeTyped
  <2>3. ~stored'
    BY <1>5, <1>7
  <2>4. ClientTyped'
    BY <1>1, <1>4, <2>2 DEF ClientInv, ClientTyped, RunnerRecords
  <2> QED
    BY <1>1, <1>2, <2>1, <2>2, <2>3, <2>4 DEF ClientInv, InHand, Stored, Granted
<1> QED
  BY <1>3, <1>6, <1>7

LEMMA CreateClient == ClientInv /\ (CreateIdentity \/ FillIdentity) => ClientInv'
<1> SUFFICES ASSUME ClientInv, CreateIdentity \/ FillIdentity PROVE ClientInv'
  OBVIOUS
<1>1. /\ UNCHANGED <<agentID, statusID, drops, stored, authorized, up, envId, starts>>
      /\ runner.pc \in {"create", "fill"}
  BY DEF CreateIdentity, FillIdentity
<1>2. ~authorized /\ ~stored /\ runner.id \in Ids
  BY <1>1 DEF ClientInv, InHand, Stored, Granted
<1>3. FileOK(identity', Ids)
  <2>1. FileOK(identity, Ids) /\ FileOK(Truncated, Ids) /\ FileOK(Overwritten(identity, runner.id), Ids)
    BY <1>2, FreshFiles, OverwrittenOK DEF ClientInv, ClientTyped, Contents
  <2> QED
    BY <2>1 DEF CreateIdentity, FillIdentity
<1>4. /\ runner' \in RunnerRecords /\ runner'.pc \in {"fill", "take"} /\ runner'.id = runner.id
  BY <1>2, BeTyped DEF CreateIdentity, FillIdentity
<1>5. ClientTyped'
  BY <1>1, <1>3, <1>4 DEF ClientInv, ClientTyped, RunnerRecords
<1> QED
  BY <1>1, <1>2, <1>4, <1>5 DEF ClientInv, InHand, Stored, Granted

LEMMA TakeClient == ClientInv /\ (TakeIdentity \/ ShowIdentity) => ClientInv'
<1> SUFFICES ASSUME ClientInv, TakeIdentity \/ ShowIdentity PROVE ClientInv'
  OBVIOUS
<1>0. UNCHANGED <<identity, drops, stored, authorized, up, envId, starts>>
  BY DEF TakeIdentity, ShowIdentity
<1>1. CASE TakeIdentity
  <2>1. /\ agentID' = runner.id /\ statusID' = statusID /\ runner.pc = "take" /\ runner.id \in Ids
    BY <1>1 DEF TakeIdentity, ClientInv, InHand
  <2>2. runner' \in RunnerRecords /\ runner'.pc = "show" /\ runner'.id = runner.id
    BY <1>1, <2>1, BeTyped DEF TakeIdentity
  <2>3. ClientTyped'
    BY <1>0, <2>1, <2>2 DEF ClientInv, ClientTyped, RunnerRecords
  <2> QED
    BY <1>0, <2>1, <2>2, <2>3 DEF ClientInv, InHand, Stored, Granted
<1>2. CASE ShowIdentity
  <2>1. /\ agentID' = agentID /\ statusID' = runner.id /\ runner.pc = "show" /\ runner.id \in Ids
    BY <1>2 DEF ShowIdentity, ClientInv, InHand
  <2>2. runner' \in RunnerRecords /\ runner'.pc = "dial"
    BY <1>2, BeTyped DEF ShowIdentity
  <2>3. ClientTyped'
    BY <1>0, <2>1, <2>2 DEF ClientInv, ClientTyped, RunnerRecords
  <2> QED
    BY <1>0, <2>1, <2>2, <2>3 DEF ClientInv, InHand, Stored, Granted
<1> QED
  BY <1>1, <1>2

LEMMA LinkClient == ClientInv /\ (Connect \/ Disconnect) => ClientInv'
<1> SUFFICES ASSUME ClientInv, Connect \/ Disconnect PROVE ClientInv'
  OBVIOUS
<1>1. /\ UNCHANGED <<identity, agentID, statusID, stored, authorized, up, envId, starts>>
      /\ runner.pc \in {"dial", "online", "served"}
  BY DEF Connect, Disconnect
<1>2. runner' \in RunnerRecords /\ runner'.pc \in {"dial", "online"}
  BY BeTyped DEF Connect, Disconnect
<1>3. drops' \in 0..MaxDrops
  BY FilesAssumption DEF Connect, Disconnect, ClientInv, ClientTyped
<1>4. ClientTyped'
  BY <1>1, <1>2, <1>3 DEF ClientInv, ClientTyped, RunnerRecords
<1> QED
  BY <1>1, <1>2, <1>4 DEF ClientInv, InHand, Stored, Granted

LEMMA AcceptClient ==
    ClientInv /\ (AcceptRegistration \/ ShowRegistration) => ClientInv'
<1> SUFFICES ASSUME ClientInv, AcceptRegistration \/ ShowRegistration PROVE ClientInv'
  OBVIOUS
<1>0. UNCHANGED <<identity, drops, stored, up, envId, starts>> /\ GatewayId \in Ids
  BY ConstantTypes DEF AcceptRegistration, ShowRegistration
<1>1. CASE AcceptRegistration
  <2>1. /\ agentID' = GatewayId /\ statusID' = statusID /\ authorized' = TRUE
        /\ runner.pc = "online"
    BY <1>1 DEF AcceptRegistration
  <2>2. runner' \in RunnerRecords /\ runner'.pc = "adopted" /\ runner'.id = GatewayId
    BY <1>0, <1>1, BeTyped DEF AcceptRegistration
  <2>3. ClientTyped'
    BY <1>0, <2>1, <2>2 DEF ClientInv, ClientTyped, RunnerRecords
  <2> QED
    BY <1>0, <2>1, <2>2, <2>3 DEF ClientInv, InHand, Stored, Granted
<1>2. CASE ShowRegistration
  <2>1. /\ UNCHANGED <<agentID, authorized>> /\ statusID' = runner.id
        /\ runner.pc = "adopted" /\ runner.id = GatewayId /\ agentID = GatewayId
    BY <1>2 DEF ShowRegistration, ClientInv, InHand
  <2>2. runner' \in RunnerRecords /\ runner'.pc = "replace" /\ runner'.id = GatewayId
    BY <1>0, <1>2, <2>1, BeTyped DEF ShowRegistration
  <2>3. ClientTyped'
    BY <1>0, <2>1, <2>2 DEF ClientInv, ClientTyped, RunnerRecords
  <2> QED
    BY <1>0, <2>1, <2>2, <2>3 DEF ClientInv, InHand, Stored, Granted
<1> QED
  BY <1>1, <1>2

LEMMA ReplaceClient == ClientInv /\ (ReplaceIdentity \/ RewriteIdentity) => ClientInv'
<1> SUFFICES ASSUME ClientInv, ReplaceIdentity \/ RewriteIdentity PROVE ClientInv'
  OBVIOUS
<1>0. /\ UNCHANGED <<agentID, statusID, drops, authorized, up, envId, starts>>
      /\ runner.id = GatewayId /\ agentID = GatewayId /\ GatewayId \in Ids
  BY ConstantTypes DEF ReplaceIdentity, RewriteIdentity, ClientInv, InHand
<1>1. CASE /\ identity' = Truncated /\ UNCHANGED stored /\ Be("rewrite", runner.id)
           /\ runner.pc = "replace"
  <2>1. runner' \in RunnerRecords /\ runner'.pc = "rewrite" /\ runner'.id = GatewayId
    BY <1>0, <1>1, BeTyped
  <2>2. FileOK(identity', Ids)
    BY <1>1, FreshFiles DEF Contents
  <2>3. ClientTyped'
    BY <1>0, <1>1, <2>1, <2>2 DEF ClientInv, ClientTyped, RunnerRecords
  <2> QED
    BY <1>0, <1>1, <2>1, <2>3 DEF ClientInv, InHand, Stored, Granted
<1>2. CASE /\ UNCHANGED identity /\ Be("served", Blank)
           /\ \/ runner.pc = "replace" /\ UNCHANGED stored
              \/ runner.pc = "rewrite" /\ stored' = FALSE
  <2>1. runner' \in RunnerRecords /\ runner'.pc = "served"
    BY <1>2, BeTyped
  <2>2. ClientTyped'
    BY <1>0, <1>2, <2>1 DEF ClientInv, ClientTyped, RunnerRecords
  <2> QED
    BY <1>0, <1>2, <2>1, <2>2 DEF ClientInv, InHand, Stored, Granted
<1>3. CASE /\ identity' = Overwritten(identity, runner.id) /\ stored' = TRUE
           /\ Be("served", Blank) /\ runner.pc = "rewrite"
  <2>1. runner' \in RunnerRecords /\ runner'.pc = "served"
    BY <1>3, BeTyped
  <2>2. identity = Truncated /\ FileOK(identity, Ids)
    BY <1>3 DEF ClientInv, ClientTyped, Stored
  <2>3. FileOK(identity', Ids) /\ identity'.content = GatewayId
    BY <1>0, <1>3, <2>2, OverwrittenOK, OverwrittenEmpty DEF Contents
  <2>4. ClientTyped'
    BY <1>0, <1>3, <2>1, <2>3 DEF ClientInv, ClientTyped, RunnerRecords
  <2> QED
    BY <1>0, <1>3, <2>1, <2>3, <2>4 DEF ClientInv, InHand, Stored, Granted
<1> QED
  BY <1>1, <1>2, <1>3 DEF ReplaceIdentity, RewriteIdentity

LEMMA StepClient == ClientInv /\ [Next]_vars => ClientInv'
<1> SUFFICES ASSUME ClientInv, [Next]_vars PROVE ClientInv'
  OBVIOUS
<1>1. CASE UNCHANGED <<clientVars, up, envId, starts>>
  BY <1>1 DEF clientVars, ClientInv, ClientTyped, InHand, Stored, Granted
<1>2. CASE (\E h \in Handlers : UpsertBegin(h) \/ UpsertStep(h)) \/ AtRest \/ UNCHANGED vars
  BY <1>1, <1>2 DEF UpsertBegin, UpsertStep, UpsertOpen, UpsertWrite, UpsertStat, AtRest, vars
<1> QED
  BY <1>2, StartClient, CrashClient, LoadClient, CreateClient, TakeClient, LinkClient,
     AcceptClient, ReplaceClient DEF Next, RunnerStep

LEMMA ClientInvariance == Safety => []ClientInv
<1>1. Init => ClientInv
  BY InitClient
<1>2. ClientInv /\ [Next]_vars => ClientInv'
  BY StepClient
<1> QED
  BY <1>1, <1>2, PTL DEF Safety

-----------------------------------------------------------------------------
(* The theorems. *)

\* Every reachable state is well typed; in particular a file that can be parsed
\* has the length of what it says, however its writers met (store.go:69-92).
THEOREM TypeCorrect == Safety => []TypeOK
<1>1. ServerInv /\ ClientInv => TypeOK
  <2> SUFFICES ASSUME ServerInv, ClientInv PROVE TypeOK
    OBVIOUS
  <2>1. /\ config \in FilesOf(Configs) /\ identity \in FilesOf(Ids)
        /\ \A file \in {config, identity} :
              file.content \in Contents => file.size = Size[file.content]
    BY DEF ServerInv, ServerTyped, ClientInv, ClientTyped, FileOK
  <2> QED
    BY <2>1 DEF ServerInv, ServerTyped, HandlerRecords, ClientInv, ClientTyped, TypeOK
<1> QED
  BY <1>1, ServerInvariance, ClientInvariance, PTL

\* Whatever number of handlers save and however often the process ends, what was
\* saved last is in the file and in /status, but for a save cut short, saves that
\* met, and a start that could not read the file (server.go:120-122, 257-269,
\* store.go:69-92).
THEOREM SavedStays == Safety => []SaveLossExplained
<1>1. ServerInv => SaveLossExplained
  BY DEF ServerInv, FileKept, StatusKept, SavedContent, SavedPrinter, SaveLossExplained
<1> QED
  BY <1>1, ServerInvariance, PTL

\* The identity the gateway gave, once in agent.json, stays there and is the one
\* of every later process, but for a start that cannot read the file and a
\* rewrite cut short (ws_client.go:383-395, 410-423).
THEOREM IdentityStays == Safety => []IdentitySurvives
<1>1. ClientInv => IdentitySurvives
  BY DEF ClientInv, Stored, IdentitySurvives
<1> QED
  BY <1>1, ClientInvariance, PTL

\* No step takes the identity from a process that was given it, short of its end
\* (ws_client.go:376-395).
THEOREM GrantKept == Safety => AuthorizedIsKept
<1>1. ClientInv /\ [Next]_vars => [authorized /\ authorized' => agentID' = agentID]_vars
  <2> SUFFICES ASSUME ClientInv, Next, authorized, authorized' PROVE agentID' = agentID
    OBVIOUS
  <2>1. agentID = GatewayId /\ runner.pc \notin {"load", "create", "fill", "take"}
    BY DEF ClientInv, Granted
  <2>2. CASE RunnerStep
    BY <2>1, <2>2 DEF RunnerStep, LoadIdentity, CreateIdentity, FillIdentity, TakeIdentity,
       ShowIdentity, Connect, AcceptRegistration, ShowRegistration, ReplaceIdentity,
       RewriteIdentity
  <2>3. CASE \E h \in Handlers : UpsertBegin(h) \/ UpsertStep(h)
    BY <2>3 DEF UpsertBegin, UpsertStep, UpsertOpen, UpsertWrite, UpsertStat, clientVars
  <2>4. CASE Start \/ Disconnect \/ AtRest
    BY <2>4 DEF Start, Disconnect, AtRest, vars, clientVars
  <2>5. ~Crash
    BY DEF Crash
  <2> QED
    BY <2>2, <2>3, <2>4, <2>5 DEF Next
<1> QED
  BY <1>1, ClientInvariance, PTL DEF Safety, AuthorizedIsKept

=============================================================================
