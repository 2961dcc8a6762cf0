----------------------------- MODULE AgentFiles -----------------------------
(***************************************************************************)
(* The two files of the data directory and what the process keeps of them: *)
(*                                                                         *)
(*   config.json  written by POST /config through Store.Save, read when    *)
(*                the server starts and by every request that needs it     *)
(*   agent.json   the agent's identity, written and read by the goroutine  *)
(*                of WSClient.Run: generated once, then replaced by the    *)
(*                identity the gateway's answer "registered" carries       *)
(*                                                                         *)
(* Both are written with os.WriteFile: the file is truncated, then         *)
(* written, by whoever comes; the process may end in between, and either   *)
(* step may fail.  A file that is there may fail to be read.               *)
(***************************************************************************)
EXTENDS Integers, FiniteSets

CONSTANTS
    Configs,       \* the configurations POST /config is called with
    ValidConfigs,  \* those PrinterConfig.Validate accepts
    PrinterName,   \* the printer a configuration names, as a function
    Ids,           \* agent ids
    GatewayId,     \* the id the gateway gives this agent's key
    Generated,     \* the id generateAgentID makes in the n-th start
    EnvIds,        \* values PRINT_AGENT_ID may have, Blank among them or not
    Blank,         \* no id, no printer
    Size,          \* length of the JSON text of a configuration or an id
    Handlers,      \* concurrent calls of handleConfigUpsert
    MaxSaves,      \* bound: calls of POST /config
    MaxStarts,     \* bound: times the process starts
    MaxDrops       \* bound: connections that are lost

Contents == Configs \union Ids

ASSUME FilesAssumption ==
    /\ Configs # {} /\ ValidConfigs \subseteq Configs
    /\ Contents \intersect {"missing", "damaged"} = {}
    /\ DOMAIN PrinterName = Configs
    /\ GatewayId \in Ids
    /\ Generated \in [1..MaxStarts -> Ids]
    /\ EnvIds \subseteq Ids \union {Blank} /\ Blank \notin Contents
    /\ Size \in [Contents -> Nat \ {0}]
    /\ MaxSaves \in Nat /\ MaxStarts \in Nat \ {0} /\ MaxDrops \in Nat

VARIABLES
    config, identity,   \* the files config.json and agent.json
    up,                 \* is the process running?
    configuredPrinter,  \* stat.ConfiguredPrinter, shown by /status
    handler,            \* the handlers of POST /config
    runner,             \* WSClient.Run: where it is, and the id in its hands
    agentID,            \* c.agentID
    statusID,           \* s.agentID, shown by /status
    envId,              \* PRINT_AGENT_ID
    saves, starts, drops,
    saved,              \* history: the configuration Save last returned nil for
    torn,               \* history: was config.json cut short, or opened by two?
    stale,              \* history: did saves overlap, or a start not read the file?
    stored,             \* history: was the gateway's id written, and nothing cut
                        \* short or misread since?
    authorized          \* history: has this process been given its identity?

serverVars == <<config, configuredPrinter, handler, saves, saved, torn, stale>>
clientVars == <<identity, runner, agentID, statusID, drops, stored, authorized>>
vars == <<serverVars, clientVars, up, envId, starts>>

-----------------------------------------------------------------------------
(* Files.  `content` is what reading and parsing the file gives; a file     *)
(* that was cut or mixed is damaged: its text ends in a brace too many or   *)
(* too few, and json.Unmarshal refuses it.                                  *)

Missing == [content |-> "missing", size |-> 0]
Truncated == [content |-> "damaged", size |-> 0]

\* Writing from the start of a file leaves what another writer put beyond.
Overwritten(file, c) ==
    IF file.size =< Size[c] THEN [content |-> c, size |-> Size[c]]
    ELSE [content |-> "damaged", size |-> file.size]

FilesOf(cs) ==
    [content : cs \union {"missing", "damaged"}, size : {Size[c] : c \in cs} \union {0}]

IdleHandler == [pc |-> "idle", config |-> CHOOSE c \in Configs : TRUE]
NoRunner == [pc |-> "off", id |-> Blank]

TypeOK ==
    /\ config \in FilesOf(Configs) /\ identity \in FilesOf(Ids)
    /\ \A file \in {config, identity} :
          file.content \in Contents => file.size = Size[file.content]
    /\ up \in BOOLEAN
    /\ configuredPrinter \in {PrinterName[c] : c \in Configs} \union {Blank}
    /\ handler \in [Handlers -> [pc : {"idle", "open", "write", "stat"}, config : Configs]]
    /\ runner \in [pc : {"off", "load", "create", "fill", "take", "show", "dial", "online",
                         "adopted", "replace", "rewrite", "served"},
                   id : Ids \union {Blank}]
    /\ agentID \in Ids \union {Blank} /\ statusID \in Ids \union {Blank}
    /\ envId \in EnvIds
    /\ saves \in 0..MaxSaves /\ starts \in 0..MaxStarts /\ drops \in 0..MaxDrops
    /\ saved \in Configs \union {Blank} /\ torn \in BOOLEAN /\ stale \in BOOLEAN
    /\ stored \in BOOLEAN /\ authorized \in BOOLEAN

Init ==
    /\ config = Missing /\ identity = Missing
    /\ up = FALSE
    /\ configuredPrinter = Blank
    /\ handler = [h \in Handlers |-> IdleHandler]
    /\ runner = NoRunner
    /\ agentID = Blank /\ statusID = Blank
    /\ envId \in EnvIds
    /\ saves = 0 /\ starts = 0 /\ drops = 0
    /\ saved = Blank /\ torn = FALSE /\ stale = FALSE
    /\ stored = FALSE /\ authorized = FALSE

-----------------------------------------------------------------------------
(* The process. *)

LoadedPrinter_Skipped == Blank

\* What config.json says of the printer, if it can be parsed.
LoadedPrinter == IF config.content \in Configs THEN PrinterName[config.content] ELSE Blank

\* NewServer ignores the error of Load, also that of a file that is whole and
\* cannot be read.
Start ==
    /\ ~up /\ starts < MaxStarts
    /\ up' = TRUE /\ starts' = starts + 1
    /\ configuredPrinter' \in {LoadedPrinter, Blank}
    /\ stale' = (configuredPrinter' # LoadedPrinter)
    /\ runner' = [NoRunner EXCEPT !.pc = "load"]
    /\ UNCHANGED <<config, handler, saves, saved, torn, identity, agentID, statusID, drops,
                   stored, authorized, envId>>

Writing == {h \in Handlers : handler[h].pc = "write"}
Saving == {h \in Handlers : handler[h].pc \in {"write", "stat"}}

\* Between any two steps; only the files remain.
Crash ==
    /\ up /\ starts < MaxStarts
    /\ up' = FALSE
    /\ configuredPrinter' = Blank
    /\ handler' = [h \in Handlers |-> IdleHandler]
    /\ torn' = (torn \/ Writing # {})
    /\ runner' = NoRunner
    /\ agentID' = Blank /\ statusID' = Blank /\ authorized' = FALSE
    /\ stored' = (stored /\ runner.pc # "rewrite")
    /\ UNCHANGED <<config, identity, saves, starts, drops, saved, stale, envId>>

-----------------------------------------------------------------------------
(* POST /config. *)

\* A configuration that Validate refuses is answered 400 and changes nothing.
UpsertBegin(h) ==
    /\ up /\ handler[h].pc = "idle" /\ saves < MaxSaves
    /\ saves' = saves + 1
    /\ \E c \in Configs :
          handler' = IF c \in ValidConfigs
                     THEN [handler EXCEPT ![h] = [pc |-> "open", config |-> c]]
                     ELSE handler
    /\ UNCHANGED <<config, configuredPrinter, saved, torn, stale, clientVars, up, envId, starts>>

\* Store.Save opens the file, which truncates it; or cannot, and answers 500.
UpsertOpen(h) ==
    /\ handler[h].pc = "open"
    /\ \/ /\ config' = Truncated
          /\ handler' = [handler EXCEPT ![h].pc = "write"]
          /\ torn' = (Writing # {}) /\ stale' = (Saving # {})
       \/ /\ handler' = [handler EXCEPT ![h] = IdleHandler]
          /\ UNCHANGED <<config, torn, stale>>
    /\ UNCHANGED <<configuredPrinter, saves, saved, clientVars, up, envId, starts>>

UpsertWrite(h) ==
    /\ handler[h].pc = "write"
    /\ \/ /\ config' = Overwritten(config, handler[h].config)
          /\ handler' = [handler EXCEPT ![h].pc = "stat"]
          /\ saved' = handler[h].config
          /\ UNCHANGED torn
       \/ /\ handler' = [handler EXCEPT ![h] = IdleHandler]
          /\ torn' = TRUE
          /\ UNCHANGED <<config, saved>>
    /\ UNCHANGED <<configuredPrinter, saves, stale, clientVars, up, envId, starts>>

UpsertStat(h) ==
    /\ handler[h].pc = "stat"
    /\ configuredPrinter' = PrinterName[handler[h].config]
    /\ handler' = [handler EXCEPT ![h] = IdleHandler]
    /\ UNCHANGED <<config, saves, saved, torn, stale, clientVars, up, envId, starts>>

-----------------------------------------------------------------------------
(* The identity: ensureAgentID, registration, acceptRegistration. *)

Be(pc, id) == runner' = [pc |-> pc, id |-> id]

KnownId_NotRead(readable) == envId

\* ensureAgentID: PRINT_AGENT_ID, then agent.json, and otherwise a new id, also
\* when the file is there and cannot be read.
KnownId(readable) ==
    IF envId # Blank THEN envId
    ELSE IF readable /\ identity.content \in Ids THEN identity.content ELSE Blank

LoadIdentity ==
    /\ runner.pc = "load"
    /\ \E readable \in BOOLEAN :
          /\ \/ KnownId(readable) # Blank /\ Be("take", KnownId(readable))
             \/ KnownId(readable) = Blank /\ Be("create", Generated[starts])
          /\ stored' = (stored /\ (readable \/ envId # Blank))
    /\ UNCHANGED <<serverVars, identity, agentID, statusID, drops, authorized, up, envId, starts>>

\* The new id is kept whether or not it can be written to agent.json.
CreateIdentity ==
    /\ runner.pc = "create"
    /\ \/ identity' = Truncated /\ Be("fill", runner.id)
       \/ Be("take", runner.id) /\ UNCHANGED identity
    /\ UNCHANGED <<serverVars, agentID, statusID, drops, stored, authorized, up, envId, starts>>

FillIdentity ==
    /\ runner.pc = "fill"
    /\ identity' \in {identity, Overwritten(identity, runner.id)}
    /\ Be("take", runner.id)
    /\ UNCHANGED <<serverVars, agentID, statusID, drops, stored, authorized, up, envId, starts>>

TakeIdentity ==
    /\ runner.pc = "take"
    /\ agentID' = runner.id
    /\ Be("show", runner.id)
    /\ UNCHANGED <<serverVars, identity, statusID, drops, stored, authorized, up, envId, starts>>

ShowIdentity ==
    /\ runner.pc = "show"
    /\ statusID' = runner.id
    /\ Be("dial", Blank)
    /\ UNCHANGED <<serverVars, identity, agentID, drops, stored, authorized, up, envId, starts>>

\* connect succeeds, and the registration carries agentID.
Connect ==
    /\ runner.pc = "dial"
    /\ Be("online", Blank)
    /\ UNCHANGED <<serverVars, identity, agentID, statusID, drops, stored, authorized,
                   up, envId, starts>>

Disconnect ==
    /\ runner.pc \in {"online", "served"} /\ drops < MaxDrops
    /\ drops' = drops + 1
    /\ Be("dial", Blank)
    /\ UNCHANGED <<serverVars, identity, agentID, statusID, stored, authorized, up, envId, starts>>

\* "registered" with an id; without one the message is refused and changes
\* nothing.
AcceptRegistration ==
    /\ runner.pc = "online"
    /\ agentID' = GatewayId
    /\ authorized' = TRUE
    /\ Be("adopted", GatewayId)
    /\ UNCHANGED <<serverVars, identity, statusID, drops, stored, up, envId, starts>>

ShowRegistration_Forgotten ==
    /\ runner.pc = "adopted"
    /\ Be("replace", runner.id)
    /\ UNCHANGED <<serverVars, identity, agentID, statusID, drops, stored, authorized,
                   up, envId, starts>>

ShowRegistration ==
    /\ runner.pc = "adopted"
    /\ statusID' = runner.id
    /\ Be("replace", runner.id)
    /\ UNCHANGED <<serverVars, identity, agentID, drops, stored, authorized, up, envId, starts>>

ReplaceIdentity_Restored ==
    /\ runner.pc = "replace"
    /\ \/ identity' = Truncated /\ Be("rewrite", runner.id) /\ UNCHANGED agentID
       \/ Be("served", Blank) /\ agentID' = Generated[starts] /\ UNCHANGED identity
    /\ UNCHANGED <<serverVars, statusID, drops, stored, authorized, up, envId, starts>>

\* A failure to persist is reported, and the identity kept.
ReplaceIdentity ==
    /\ runner.pc = "replace"
    /\ \/ identity' = Truncated /\ Be("rewrite", runner.id)
       \/ Be("served", Blank) /\ UNCHANGED identity
    /\ UNCHANGED <<serverVars, agentID, statusID, drops, stored, authorized, up, envId, starts>>

RewriteIdentity ==
    /\ runner.pc = "rewrite"
    /\ \/ identity' = Overwritten(identity, runner.id) /\ stored' = TRUE
       \/ stored' = FALSE /\ UNCHANGED identity
    /\ Be("served", Blank)
    /\ UNCHANGED <<serverVars, agentID, statusID, drops, authorized, up, envId, starts>>

\* Registered, with nothing left to save, to lose or to crash.
AtRest ==
    /\ runner.pc = "served" /\ starts = MaxStarts /\ drops = MaxDrops /\ saves = MaxSaves
    /\ \A h \in Handlers : handler[h].pc = "idle"
    /\ UNCHANGED vars

RunnerStep ==
    \/ LoadIdentity \/ CreateIdentity \/ FillIdentity \/ TakeIdentity \/ ShowIdentity
    \/ Connect \/ AcceptRegistration \/ ShowRegistration \/ ReplaceIdentity \/ RewriteIdentity

UpsertStep(h) == UpsertOpen(h) \/ UpsertWrite(h) \/ UpsertStat(h)

Next ==
    \/ Start \/ Crash
    \/ \E h \in Handlers : UpsertBegin(h) \/ UpsertStep(h)
    \/ RunnerStep \/ Disconnect
    \/ AtRest

Safety == Init /\ [][Next]_vars

\* The service manager starts the process again (install_windows.go:187-191),
\* the client dials for ever, and a gateway that is there answers.
Spec == Safety /\ WF_vars(Start) /\ WF_vars(RunnerStep)

-----------------------------------------------------------------------------
(* Properties. *)

\* What POST /config saved stays in config.json and is what /status shows, over
\* crashes, restarts and later saves that fail to open the file.  Three things
\* undo it, until the next save that has the file to itself: a save that ends
\* between truncation and write, two saves that meet, and, for /status, a start
\* that cannot read the file (server.go 120-122, 257-269; store.go 69-92).
SaveLossExplained ==
    /\ ~torn /\ Writing = {} =>
          config.content = IF saved = Blank THEN "missing" ELSE saved
    /\ up /\ ~torn /\ ~stale /\ Saving = {} =>
          configuredPrinter = IF saved = Blank THEN Blank ELSE PrinterName[saved]

\* Once the gateway's identity is in agent.json it stays there, and the agent
\* presents no other in this process or a later one unless PRINT_AGENT_ID is
\* set.  Only a start that cannot read the file, which then writes a provisional
\* id over it, and a rewrite that ends between truncation and write undo that
\* (ws_client.go 383-395, 410-423; ws_client_test.go 143-146).
IdentitySurvives ==
    stored =>
        /\ runner.pc # "rewrite" => identity.content = GatewayId
        /\ envId = Blank => agentID \in {GatewayId, Blank}

\* A process that was given its identity never goes back to another, not even
\* when the disk refuses it (ws_client.go:376-395; ws_client_test.go:201-203).
AuthorizedIsKept == [][authorized /\ authorized' => agentID' = agentID]_vars

\* Crashes, lost connections and a failing disk do not keep the agent from
\* ending up with the identity of its key, in its registrations and in
\* /status alike (ws_client.go:92-93, 376-379).
IdentityConverges == <>[](agentID = GatewayId /\ statusID = GatewayId)

=============================================================================
