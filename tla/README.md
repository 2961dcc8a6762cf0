# Specification of the CyberERP print agent

TLA+ modules, TLC runs and machine-checked proofs about the Go program in `src/`:
a Windows service next to a point of sale that takes tickets over local HTTP and
over a WebSocket from an API gateway, prints them on a thermal printer, and
reports what became of them. File and line references are to `src/`.

Contents: [1 The system](#1-the-system) · [2 Plan](#2-plan) ·
[3 Modules](#3-modules-and-how-they-correspond-to-the-code) ·
[4 Runs](#4-what-the-runs-check) · [5 Disagreements](#5-where-the-code-and-its-documents-disagree) ·
[6 Proofs](#6-what-is-proved) · [7 Not modelled](#7-what-is-not-modelled) ·
[8 Running](#8-running-it)

## 1 The system

### Inventory

| Component | State it keeps | Operations | Talks to |
|---|---|---|---|
| **Print pipeline** `internal/agent/server.go` | `ticketQ` (bounded channel), `processing` and `processed` (idempotency tables, the latter trimmed to 1000), `stat` (what `/status` shows), `wsReporter`; all but the channel under `Server.mu` | `handlePrintTicket`, `EnqueueRemoteJob`, `runTicketWorker`/`processTicket`, `RunTestJob`, `handlePrintTest`, `trimProcessedLocked`, `reportJobResult` | printer, ERP, gateway connection |
| **Gateway connection** `ws_client.go` | `c.conn` (under `c.mu`), `c.send` (channel of 256), `done`/`writerDone`/`stopCh` | `Run`, `connect`, `readPump`, `writePump`, `closeConnection`, `enqueueMessage`, `reportResult` | gateway, pipeline (`handleJob`) |
| **Agent identity** `ws_client.go`, `server.go` | `c.agentID`, `s.agentID`, `agent.json` | `ensureAgentID`, `acceptRegistration`, `SetAgentID` | gateway, disk |
| **Printer configuration** `internal/config/store.go`, `server.go` | `config.json`, `stat.ConfiguredPrinter` | `Store.Save`, `Store.Load`, `POST /config`, `GET /config`, the load in `NewServer` | disk; read by every print without a printer name |
| **HTTP front end** `server.go` | `rate` (fixed windows, under `rateMu`) | `withLogging`: origin, CORS, rate limit; pairing token; request signature | handlers |
| **Read-only endpoints** `server.go` | none | `/health`, `/printers`, `/status`, `/jobs/recent` | pipeline state |
| **ERP report** `reporting.go` | none | `reportPrintJobResult`: one POST, no retry | ERP |
| **ESC/POS and transports** `printer_windows.go`, `ticket_logo.go`, `escpos.go`, `printer_stub.go` | none | `sendTicketPrint`, `sendTestPrint`, raw TCP, spooler, QR and logo bytes | printer |
| **Process start-up** `cmd/print-agent/main.go` | environment | `agent.env`, configuration, `runAgent`, origin list | all |
| **Service wrapper** `service_windows.go` | service state | `Execute`: start, stop, shutdown | service manager |
| **Self-installer** `install_windows.go` | installed executable, `agent.env`, service record | `selfInstall`, `selfUninstall`, `copyFileSafe` | file system, service manager |
| **Deployment scripts** `deploy/windows`, `.github/workflows` | installed files, releases | install, update, uninstall, build, publish | file system, web |

### How they interact

```
 POST /print/ticket        gateway "job"                POST /print/test
        |                       |                            |  gateway test job
  handlePrintTicket   readPump -> handleJob           handlePrintTest / RunTestJob
        |   look up             |  EnqueueRemoteJob          |
        |   register            |  look up + register        |
        +------> ticketQ <------+                            |
                    |                                        |
             runTicketWorker -> printer <--------------------+
                    |  report to gateway, report to ERP,     |
                    |  settle: processing -> processed <-----+
                    v
        reportResult -> c.send -> writePump -> gateway
```

Every HTTP request is a goroutine; the worker, `Run`/`readPump` and `writePump`
are one goroutine each; a gateway test print starts one more. They meet in
`Server.mu`, in `WSClient.mu`, in the two channels and in the two files.

### What is hard, and what makes each component correct

* **Pipeline.** Looking an id up, registering it and queueing it are separate
  steps in the HTTP path, one critical section plus a channel operation in the
  gateway path; a full queue is found out after registration and rolled back;
  the worker reports before it clears the mark; the memory of finished jobs is
  bounded and shared with test prints. Correct when a gateway job is in one
  place, printed at most once while it is remembered, always reported, never
  left marked for ever, and counted once.
* **Gateway connection.** Two goroutines and all reporters share a socket that
  breaks at any moment; there is no read deadline; Gorilla allows one writer.
  Correct when there is one writer, each connection registers first, results
  keep their order, no socket leaks, a stop ends it and a dead peer is replaced.
* **Files.** Both files are truncated and rewritten in place, `config.json` by
  handlers that do not exclude each other; a start that cannot read one goes on
  without it. Correct when what was saved is lost only to a save cut short, to
  saves that meet or to a misreading, and the identity of the key prevails over
  every provisional one.
* **Front end.** The rate limiter computes its window before it takes the lock,
  and starts a counter again whenever the window differs. Correct when a window
  exceeds the limit only as far as delayed requests explain, when nobody is
  refused for somebody else's requests, and when mandatory origins are let in
  whatever else is configured (they are not: section 5).
* **Encoding and transports.** A ticket is a stream of bytes with nothing to mark
  its end, lengths travel in two bytes, a transport may accept a part, and the
  next attempt starts from the beginning, perhaps over the other transport.
  Ticket lines go out as they came. Correct when the status says how many whole
  copies were accepted, and the printer stays in step with the stream unless a
  cut, a length or a line that the code lets through puts it out.
* **Installer and service.** Every step may fail, after the old service was
  deleted and the old executable removed, and several errors are ignored;
  scanners and a second agent hold files and the port. Correct when whatever can
  be started is whole, the installed executable is not lost, and installing again
  leaves a service that serves, each with no other exception than the ignored
  errors explain.
* **Between them.** A job travels gateway - connection - pipeline - paper and its
  result back, over links that break at any moment. Correct when a job is printed
  twice only if the agent had forgotten it, a print nobody heard of has a lost or
  refused report to explain it, and every job is answered.

`PROJECT.json` lists each hazard at its line with the properties that watch it.

## 2 Plan

Written, in this order:

1. `JobLedger`: what the pipeline promises about one gateway job (abstract).
2. `TicketQueue`: the pipeline; refines `JobLedger`. `TicketQueueProofs`.
3. `GatewayLink`: the connection. `GatewayLinkProofs`.
4. `AgentFiles`: configuration and identity across crashes. `AgentFilesProofs`.
5. `Installer`: `selfInstall`, `selfUninstall` and `copyFileSafe` against the
   service manager, with the life of the service's process. `InstallerProofs`.
6. `FrontDoor`: origin list, rate limiter, token and signature. `FrontDoorProofs`.
7. `Delivery`: gateway, link, pipeline and reports composed; the pipeline enters
   as the ledger, which `TicketQueue` is shown to implement. `DeliveryProofs`.
8. `Paper`: encoding, transports, retries, and the printer. `PaperProofs`.
9. `InductionOverSets`: induction over numbers and sequences for the proofs about
   data, used by `GatewayLinkProofs`, `FrontDoorProofs` and `PaperProofs`.

Left: the update script, if it grows beyond a straight line.

## 3 Modules and how they correspond to the code

`PROJECT.json` maps every definition to its lines. Definitions named `X_Fault`
(for example `Duplicate_OnlyFinished`) are plausible slips in `X`; no action uses
them. Replacing `X` by one of them makes a property fail, which is how each
property is known to depend on the code.

### TicketQueue

One action is one critical section of `Server.mu`, one channel operation, or one
call of the printer or of a reporter, so that every interleaving the locks allow
is a behaviour.

| Variable | Code |
|---|---|
| `ticketQ` | the channel, as the sequence of queued job ids |
| `processing`, `processed` | the tables; an entry of `processed` is its status and its RFC3339 stamp |
| `stat` | `LastJobID`, `LastPrintStatus`, `SuccessfulPrints`, `FailedPrints` |
| `wsReporter` | has `SetWSReporter` been called? |
| `handler[h]`, `reader`, `worker`, `tester[t]` | program counter and locals of each goroutine |
| `clock` | the wall clock, in the seconds a stamp can tell apart |
| `begun`, `prints`, `told`, `promised` | history: registrations, tickets on paper, results handed to the gateway client, ids answered 202 |

| Actions | Code |
|---|---|
| `HttpCheck`, `HttpRegister`, `HttpEnqueue`, `HttpRollback` | `handlePrintTicket` 488-514, 516-527, 529-538, 539-552 |
| `RemoteRegister`, `RemoteEnqueue`, `RemoteRollback`, `RemoteReject`, `RemoteReportRefusal` | `EnqueueRemoteJob` 180-239 and `handleJob` 298-329 |
| `WorkerTake`, `PrintOk`, `PrintFail`, `WorkerReport`, `WorkerApiReport`, `WorkerSettle` | `runTicketWorker`, `processTicket` 555-662 |
| `TestStart`, `TestPrint`, `TestRecord`, `TestReport` | `RunTestJob` 292-344, `handlePrintTest` 350-421 |
| `Tick`, `Restart` | the clock; the end of the process and `runAgent` |

Details kept because properties depend on them: the HTTP path trims its id and
the gateway path does not; an empty id is not tracked at all; a printed job
carries the stamp of its print and a failed one the stamp of its settling;
stamps of one second are unordered, so eviction chooses among them; a test print
from HTTP writes "success" where one from the gateway writes "printed", and only
the latter is reported; the report to the gateway precedes the ERP's, and both
precede settling.

Abstracted: printer names, ticket texts, error messages, `queueDepth`, the
pauses between attempts.

Assumed of the gateway: the ids it hands out are its own (`RemoteOnly` excludes
ids that HTTP clients or test prints also use). The properties that name
`RemoteOnly` say nothing about an id used from both sides.

### JobLedger

The abstract specification: a job is `new`, `pending`, `onPaper`, `printed` or
`failed`; it goes on paper only from `pending`; settled jobs may be forgotten; a
restart forgets all. `TicketQueue` maps to it with `phase` computed from the two
tables and the worker (`LedgerPhase`) and `copies` from `prints`.

### GatewayLink

`runner` is `Run` with `connect` and `readPump` inline, `writer` is the
`writePump` of the newest connection, `ReportResult` is anybody who calls
`reportResult`. A socket is the number of its connection; `sock` is our end of
it, `peer` the gateway's, `wire` what was written. Writing to a peer that is gone
may succeed or fail, as TCP has it; a message already received may be read after
the socket was closed. `refused` and `lost` are histories of results that never
reach the gateway: `enqueueMessage` refused them, or a write failed after they
left the channel. Backoff lengths and ping periods are left out: waiting may take
any time.

### AgentFiles

A file is its parsed content (or `missing`, or `damaged`) and its length.
Opening truncates; writing starts at the beginning, so a longer text of a
concurrent writer shows through and damages the file. Each of the two steps may
fail, and the process may end between any two steps (`Crash`); power loss after
a completed write is not modelled. Handlers of `POST /config` and the goroutine
of `Run` (`ensureAgentID`, registration, `acceptRegistration`) run side by side.
A file that is there may fail to be read: `NewServer` ignores the error of `Load`,
so `/status` shows no printer (`Start`), and `ensureAgentID` makes a new id, which
it then writes over the stored one (`LoadIdentity`, `CreateIdentity`).
`PRINT_AGENT_ID` is fixed when the behaviour starts (`envId`). Registration answers
without an id are refused before anything changes (377-379) and have no action.

Four histories say which of these happened last. `saved` is the configuration
`Save` last reported written; `torn`, that `config.json` was cut short or opened
by two at once since the last save that had it to itself; `stale`, that `/status`
need not agree with it, because saves overlapped or a start did not read the file;
`stored`, that the gateway's id was written to `agent.json` and neither cut short
nor misread since. Overlapping saves are not excluded by the properties: they are
an excuse that the next save with the file to itself takes back.

### Delivery

The composition. `phase` and `copies` are the ledger's variables, and the actions
of the pipeline are the ledger's actions (`Ledger!Accept`, `Ledger!PutOnPaper`,
...) with the queue, the worker and the reader around them: what `TicketQueue`
implements is what this module builds on. The connection is reduced to what
`GatewayLink` shows of it: results leave in order through one outbox that outlives
connections, a write to a peer that is gone is lost, a new connection starts only
after the reader of the last one has ended.

| Variable | Code |
|---|---|
| `phase`, `copies` | the tables and the printer, as the ledger has them |
| `waiting`, `worker`, `reader` | `ticketQ`, `processTicket`, `readPump` in `handleJob` |
| `link`, `outbox` | the socket (`half`: the peer is gone and nobody has noticed) and `c.send` |
| `inbound`, `outbound` | what is on its way on this connection |
| `heard` | reports that reached the gateway or the ERP |
| `missed`, `overflowed`, `amnesia`, `restarted` | history: reports lost, answers refused by a full outbox, jobs forgotten, restarts |

The gateway is external and modelled from what the client does with it: on every
registration it sends the jobs it has no result for, in any order. The order in
`ticketQ` is left out; jobs refused for their content are `TicketQueue`'s.

### FrontDoor

`Arrive` is `withLogging` up to `rateMu` (origin check and reading the clock),
`Admit` and `Refuse` are the section under the lock, `Guard` is the pairing token
and the signature, which for lack of state are a choice of what the request
carries. `rate` is the map, with one counter and its window for each key. A
preflight and a read pass the limiter by and change nothing, so only their origin
check has a counterpart here. `Merged` is `withMandatoryOrigins`: of several
spellings of an origin that differ in case the first stays, while
`isOriginAllowed` compares letter by letter; a configured variant of a mandatory
origin therefore takes its place, which is the disagreement 4 of section 5.
`SpellingAssumption` says that the mandatory list itself has each origin in one
spelling, as the list in main.go:117-125 does: otherwise one mandatory origin
would shadow another.

What a latecomer does to the limiter: a request that read the clock before the
minute ended, and took the lock after the next minute's first, replaces the
counter by one of its own, old window; the next request of the new minute replaces
it again. Each replacement starts a counter afresh, so either window may pass the
limit, the old one by the latecomers themselves. `opened` counts the starts of each
window's counter, and `late` the latecomers that explain them.

### Paper

A byte is text, the first byte of a command, or what a command takes after it: its
operands, and the dots or the text it draws. The encoding functions build the bytes
in the order of `sendTicketPrint`, `escposLogo` and `escposQR` with the lengths as
the code computes them (`InTwoBytes` wraps around). All operands of a command count
as one byte, so that a partial write may end before them in every command,
`ESC @` and `GS V` included (`FixedOrder`); after which of
several operands it ends makes no difference here, the printer being out of step
either way. A line with control bytes, which the code does not filter, is
a command of the caller's that takes what follows it (`Words`).
`DispatchRaw` is one attempt: either transport, chosen anew because the list of
printers may change or be unavailable, accepts all, none or some of the bytes.
The printer is external: it reads one document after another, byte by byte
(`ReadByte`, `AfterReading`), and takes what follows a command as its data.

`handed` counts whole copies a transport accepted, `readable` those that came out
as meant. `disturbed` says that a document was read that can put the printer out
of step: an attempt cut off inside a command, an image or a code, a QR text whose
length does not fit in two bytes (65533 bytes and more; `escposQR` does not check),
or lines with control bytes. That
"printed" means "accepted by the transport" is the code's own notion; what a
printer loses afterwards is not modelled.

### Installer

One action is one system call, or one group of calls between which nothing can be
told apart. Files are numbers and names are variables that hold one, so that a
rename moves a file and a process keeps the one it was started from.

| Variable | Code |
|---|---|
| `inst`, `result` | program counter of the installer, its attempt, the file set aside; how it ended |
| `tokenFile` | the file of `--token-file`, removed before anything else is tried |
| `dest`, `tmp`, `asides`, `whole` | the installed name, `.tmp`, `.old-*`; the files written to their end |
| `env` | `agent.env`, truncated and then written |
| `record`, `recovery` | the service's entry (`marked`: deleted while its process lives) and its recovery actions |
| `agent`, `image` | the service's process, and the file each process runs |
| `console` in `image` | an agent somebody started by hand: it holds its executable and the port |
| `scan` | the name an antivirus holds open |
| `ignored` | history: the ignored errors whose effect may last |
| `faults`, `scans`, `kills` | what has disturbed so far, bounded together |

The service manager is external: it refuses a stop to a service that is starting,
marks the entry of a live process instead of deleting it, refuses to create an
entry while an old one is marked, and restarts a failed process if the recovery
actions are set. `Exit` does not wait for the HTTP server, as `Execute` does not.

Where the code ignores an error, the model goes on as the code does. Any error of
`OpenService` means "there is no service" (93), and the error of `Delete` is dropped
(110): in both cases (`"entry"` in `ignored`) the files are replaced under an entry
that can still be started, until `agent.env` is written again. The stop may not
arrive (95), and the deletion of an uninstallation may fail (227). The rename that
gives the old executable its name back may fail (139; `"restore"`), until a later
copy succeeds. The recovery actions may not be set (187), while the installation
reports success; `recovery` itself records it.

### MC modules

`MCTicketQueue`, `MCGatewayLink`, `MCAgentFiles`, `MCDelivery`, `MCFrontDoor`,
`MCPaper` and `MCInstaller` declare the model values and the functions the
configurations substitute for constants.

## 4 What the runs check

| Run | Shows |
|---|---|
| `TicketQueue_safety` | `TypeOK`; `SingleFlight` and `NoOrphanMark`: tables, channel and goroutines agree; `RemoteOutcomeReported`, `PrintedReportsAreTrue`: reports are made and true; `AcceptedLossIsCounted`: what was answered 202 is printed or accounted for; `ProcessedBounded`; `NoReprintWhileRemembered`; `LedgerSafety`: refinement of `JobLedger` |
| `TicketQueue_liveness` | `MarksClear` and `LedgerSpec` (refinement with the ledger's fairness) with a restart at any moment; `QueuedStatusIsLive`, `CountersConserve` |
| `GatewayLink_link` | `TypeOK`, `OneWriter`, `RegistersFirst`, `ResultsInOrder`, `NoSocketLeft`; `StopEndsRun`, `DeadPeerReplaced`, `QueueDrains` |
| `AgentFiles_files` | `SaveLossExplained`, `IdentitySurvives`: what undoes a save or a stored identity; `AuthorizedIsKept`; `IdentityConverges` |
| `Delivery_roundtrip` | `ReprintNeedsAmnesia`, `SilenceIsExplained`, `EveryJobAnswered`, through broken links, restarts and trimmed memories |
| `FrontDoor_gate` | `OverrunOnlyByLatecomers`, `RefusalDeserved` |
| `Paper_stream` | `StatusMatchesCopies`, `PrintedIsReadable` |
| `Installer_install` | `RegisteredIsStartable`, `ExecutableKept`, `InstallWins` |
| `TicketQueue_duplicate`, `TicketQueue_redelivery`, `GatewayLink_accepted`, `FrontDoor_mandatory` | counterexamples to statements of the documents and tests, section 5 |

### Bounds

| Bound | Value | Why it is enough |
|---|---|---|
| `QueueMaxSize` | 1 | full and empty queue, rollback with a copy queued |
| `MaxProcessedEntries` | 1 | every settled job evicts another; the oldest is among several |
| `MaxRetries` | 2, 1 | a failed attempt followed by a successful one, and giving up |
| `Handlers` | 2 | both halves of the check-then-act race; interchangeable, hence the symmetry |
| `MaxRequests` | 4, 3 | two copies of an HTTP id, a gateway job and a redelivery or a test print |
| `MaxSeconds` | 1, 0 | stamps that differ and stamps that are equal |
| `MaxRestarts` | 0, 1 | the liveness run restarts in every state |
| ids | one HTTP id in two spellings, one gateway id, one test id, the empty id | the classes the code tells apart |
| `SendCapacity` | 2 | full channel with one message in the writer's hands |
| `MaxConnections` | 3 | results that wait over two reconnects; a `done` of an earlier connection |
| `MaxDialFailures`, `MaxPings` | 1 | a wait without a connection; a pong that meets a full channel |
| `Results` | 2 | order |
| `MaxSaves` | 3, two handlers | two overlapping saves and a later one that repairs |
| `MaxStarts` | 3 | two crashes, the second after what the first left behind; a misreading that is repaired, and one that is not |
| `MaxDrops` | 1 | a registration that is repeated in one process |
| `MaxBreaks`, `MaxLapses` (Delivery) | 1 each, in any order | a broken link and then a restart or a trimmed memory, and the other way round: a job sent again to an agent that remembers it, and to one that does not |
| `Jobs`, `QueueMaxSize`, `SendCapacity` (Delivery) | 2, 1, 2 | a job refused by a full queue, redelivered and printed; an outbox filled by refusals |
| `WindowSecs`, `MaxClock` | 2, 3 | two windows, each with two seconds |
| `Requests`, `RateLimitPerMin`, `MaxWrites` | 3, 1, 5 | a request of the old window between two of the new one, twice |
| origins | a mandatory one in two spellings, another mandatory one, one of the shop, `*` | the cases of the merge and of the comparison |
| `Byte`, `DotsPerByte` | 3, 2 | lengths that need the second byte, and the first that needs a third, with documents of a dozen bytes |
| tickets | no logo, a logo of exact size, with a byte too many, of a width that is not whole bytes; QR texts short and too long; lines with control bytes; with and without drawer and cut | every branch of the encoding |
| `MaxRetries` (Paper) | 2, with one ticket and one test print | a part, then the whole, beside another document |
| `MaxFile`, `MaxAttempts` | 6, 2 | old, new, temporary, two set aside, one running; a rename retried and given up |
| `MaxDisturbances` | 2 | any two of: a step that fails (or is ignored) for a reason of its own, a name scanned, an installer killed, a reboot; a second failure after a first, and the failure of what repairs one |
| `MaxUpgrades` | 1 | an installation, or an uninstallation, after a successful one |

The last connection of `GatewayLink` and the last start of `AgentFiles` do not
break any more: the liveness properties say what happens once the disturbances
end. Deadlock is checked in every run; the actions `Exhausted` and `AtRest` name
the states in which the bounds are used up and nothing is left to do.

### Fairness

* `TicketQueue`: weak fairness of each goroutine that is inside a request. The Go
  scheduler runs every runnable goroutine; `sendTicketPrint` and the reports
  return (they have timeouts or are system calls that end). Nobody owes a
  request, a tick or a restart.
* `GatewayLink`: weak fairness of `Run` and of `writePump`: dials have a
  handshake timeout (157-159), writes a deadline (255, 261). A read that meets a
  vanished peer (`ReadPeerGone`) is *not* fair: there is no read deadline, and
  `DeadPeerReplaced` shows that the ping's write failure is what frees it.
* `AgentFiles`: the service manager starts the process again
  (`install_windows.go` 187-191), `Run` dials for ever, and a gateway that is
  there answers the registration. Handlers need no fairness.
* `Delivery`: the reader, the worker, and each of connecting, writing, noticing a
  dead peer (the ping's write fails, as `GatewayLink` shows) and the gateway's
  receiving. Breaks, restarts and trimmings are owed to nobody.
* `Installer`: the installer and the service's process run, a scan ends, and the
  user does what the message of a failed installation asks for: closes the other
  agent, fetches a new token, and installs again. Without that user nothing can
  succeed, and the code says so.
* `FrontDoor` and `Paper` are checked for safety only.

## 5 Where the code and its documents disagree

1. `TicketQueue_duplicate`: two concurrent `POST /print/ticket` with one `jobId`
   both pass the lookup (server.go:489) before either registers (516), and both
   are printed. README.md:139: "Duplicate `jobId` requests are handled
   idempotently."
2. `TicketQueue_redelivery`: a gateway job delivered twice is refused and the
   refusal is reported as `failed` (ws_client.go:322), although the job was
   printed or is being printed. PHASE0_TECHNICAL_DESIGN.md:132 asks for success
   with `duplicate=true`.
3. `GatewayLink_accepted`: after a failed registration `c.conn` names a closed
   socket until the next dial (ws_client.go:187), and results are accepted
   without a connection. ws_client_test.go:209 calls that an error. They are not
   lost: `QueueDrains` holds, they are written on a later connection.
4. `FrontDoor_mandatory`: `withMandatoryOrigins` (main.go:219) compares origins in
   lower case and keeps the spelling that comes first, the configured one, while
   `isOriginAllowed` (server.go:897) compares letter by letter. With a mandatory
   origin in another spelling among the extra ones, the mandatory one is not in the
   list and its pages are answered 403. README.md:44: "Extra CORS origins
   (mandatory origins are always included)". `MandatoryDisplaced` proves that
   nothing else displaces one.

PHASE0_TECHNICAL_DESIGN.md:178 calls the rate limit a fixed window, which suggests
that no window passes it; latecomers make one pass it, as section 3 describes.
`OverrunOnlyByLatecomers` says how far: one limit's worth for each.

A related case is not called a disagreement: a duplicate is answered "ticket
already queued" (server.go:503) on the strength of a registration that a full
queue then takes back (539-551). No document excludes it; `AcceptedLossIsCounted`
states what does hold, that the loss shows in the count of failures.

## 6 What is proved

With TLAPS, for every value of the constants that satisfies the named assumptions
of each module. TLC evaluates those assumptions in every run.

| Module | Theorem | Statement |
|---|---|---|
| `TicketQueueProofs` | `TypeCorrect` | `Safety => []TypeOK` |
| | `SingleFlightAlways` | `Safety => []SingleFlight` |
| | `NoOrphanMarkAlways` | `Safety => []NoOrphanMark` |
| | `QueuedIsLive` | `Safety => []QueuedStatusIsLive` |
| | `PrintedIsTrue` | `Safety => []PrintedReportsAreTrue` |
| | `OutcomeReportedFirst` | `Safety => []RemoteOutcomeReported` |
| | `MemoryBounded` | `Safety => []ProcessedBounded` |
| | `AcceptedIsAccounted` | `Safety => []AcceptedLossIsCounted` |
| | `NoReprint` | `Safety => NoReprintWhileRemembered` |
| | `ImplementsLedger` | `Safety => LedgerSafety` (refinement of `JobLedger!Safety`) |
| | `MemoryIsTrue` | `Safety => []RememberedOnPaper` (from `ImplementsLedger`) |
| | `CountersAlwaysConserve` | `Safety => []CountersConserve` |
| `GatewayLinkProofs` | `TypeCorrect`, `OneWriterAlways`, `RegistersFirstAlways`, `NoSocketLeftAlways` | `TypeOK`, `OneWriter`, `RegistersFirst`, `NoSocketLeft` are invariants |
| | `ResultsInOrderAlways` | `Safety => []ResultsInOrder` |
| `AgentFilesProofs` | `TypeCorrect`, `SavedStays`, `IdentityStays` | `TypeOK`, `SaveLossExplained`, `IdentitySurvives` are invariants |
| | `GrantKept` | `Safety => AuthorizedIsKept` |
| `DeliveryProofs` | `TypeCorrect`, `ReprintsArePaidFor`, `NobodyUntold` | `TypeOK`, `ReprintNeedsAmnesia`, `SilenceIsExplained` are invariants |
| | `BuildsOnLedger` | `Safety => Ledger!Safety` (refinement of `JobLedger!Safety`) |
| `FrontDoorProofs` | `TypeCorrect`, `OverrunBounded` | `TypeOK`, `OverrunOnlyByLatecomers` are invariants |
| | `MandatoryDisplaced` | `Safety => []LostOnlyToRespelling`: a mandatory origin is refused only where another spelling of it was configured |
| | `RefusedInTurn` | `Safety => RefusalDeserved` |
| `InstallerProofs` | `TypeCorrect`, `StartableAlways`, `ExecutableStays` | `TypeOK`, `RegisteredIsStartable`, `ExecutableKept` are invariants |
| `PaperProofs` | `PaperTypes`, `StatusIsTrue`, `PrintedIsReadableAlways` | `TypeOK`, `StatusMatchesCopies`, `PrintedIsReadable` are invariants |

### The arguments

**TicketQueue.** The inductive invariant is

    IInv == Typed /\ Foreign /\ SingleFlight /\ NoOrphanMark

`SingleFlight` is not inductive alone: from an arbitrary state a handler could
register, or a test print record, a gateway job behind `EnqueueRemoteJob`'s back.
`Foreign` says that handlers carry only trimmed HTTP ids and testers only test
ids, which by the definition of `RemoteOnly` are never gateway ids. With it each
step touches at most one gateway job: registration finds it unmarked and not
remembered, so it is nowhere; the channel operations move it; settling takes the
one copy there is out of the tables and out of the worker together.

That no step loses a copy except a rollback, the worker's settling and the end of
the process is one lemma, `FlightLasts`. From it follow `NoOrphanMark` (each of
those steps clears the mark), `QueuedStatusIsLive` (each writes another word into
`/status`) and `AcceptedLossIsCounted` (each counts a failure, or the ticket is on
paper, or a restart is counted; `Accounted` is the inductive form, and the answer
"already queued" is covered by `NoOrphanMark`).

`Typed` strengthens `TypeOK` by what the records of the worker and of the testers
owe to their program counters. The effect of `Remember`, with its arbitrary choice
of evicted entries, is stated in `RememberEffect`, `RememberOthers` and
`RememberBounded`. `PrintedReportsAreTrue` needs `OnPaper`: a result still in the
worker's or a tester's hands is true already. `RemoteOutcomeReported` needs
`Listened` (while a gateway job is marked the reporter is installed) and
`ToldBeforeSettling` (the report comes before the worker settles).

`MemoryIsTrue` is a property of the ledger: what it has printed is on paper. The
proof looks at the ledger's actions alone, and `ImplementsLedger` carries the result
over to the pipeline, where it says that an answer from the memory of finished jobs
is true.

`CountersConserve` sets the registrations against the two counters, the jobs
in the queue and the goroutines between two steps. The number of goroutines in a
step is a cardinality, so the invariant (`Counted`) carries along that the
registering handlers and the running test prints are finite sets: only finitely
many have ever started, whatever the set of handlers.

**GatewayLink.** `IInv` adds to the properties: no `writePump` is left when `Run`
dials, and one that writes does so on the newest connection (`Goroutines`); only
the connection `c.conn` names can be open (`OpenSockets`); the newest connection is
silent until it is registered (`Registered`); nobody but `Run` has a registration
in hand (`NotRegister`).

`ResultsInOrder` compares what was accepted by `reportResult`, without what was
lost, with what is on its way: the wires of all connections one after the other,
the message in the writer's hands, and the channel (`Outgoing`). A result is
accepted once (`Distinct`), so that taking a lost one out removes one element; a
message that leaves the channel moves within `Outgoing`, because the newest
connection is the last of the wires; a new connection adds an empty one. `Kept`, the
part of a sequence that lies in a set, is a recursive function; that it distributes
over concatenation, is idempotent, and commutes with the removal of one element is
proved by induction over the length.

**AgentFiles.** Two invariants for the two files. `ServerInv`: unless the file is
torn, one handler at most is writing it, to a file that is empty, and without a
writer it holds the last save (`FileKept`); unless `/status` is stale, the one handler
that is between its truncation and its `/status` carries the last save, and without
one they agree (`StatusKept`); no handler runs while the process is down
(`IdleWhenDown`), so that a start, which reads the file, never finds it half
written by the living. `ClientInv`: which id is in the hands of `Run` at each step
(`InHand`), what is stored is in the file and neither being overwritten nor about to
be replaced by a provisional id (`Stored`), and an authorized process is past the
choice of its id (`Granted`).

**Delivery.** `Balanced`: a job that may be accepted and printed again is owed one
amnesia for every copy, a job on paper or settled may be one copy ahead. Each
ledger action keeps the balance; the links and reports do not enter it, which is
why no number of redeliveries matters. For `SilenceIsExplained` the invariant says
of every state, not only of the quiescent ones, where an untold "printed" is:
still in the worker's hands, in `c.send` or on the wire (`Covered`). Each step
moves it one place on or makes it told or missed; that a new connection loses
nothing needs `SilentWire`, the wire of a broken one being empty. `BuildsOnLedger` closes the
circle: the composition takes no step of the ledger that `TicketQueue` does not
implement.

**FrontDoor.** For each key: no counter belongs to a window newer than the newest
counted (`Placed`); a window's counter is started again only after a latecomer has
displaced it (`Reopened`); a window has admitted at most a limit's worth for each
time its counter was started, the last time no more than the counter says
(`Filled`). The limit is an arbitrary integer, normalised as the code does.
`MandatoryDisplaced` is about `Merged`: by induction over the configured list, the
first spelling of an origin stays in the result (`FirstSpellingStays`), and by
`SpellingAssumption` only a configured spelling can come before a mandatory one. It
is the exact extent of disagreement 4.

**Installer.** Executables that are installed, set aside or running are whole
(`WholeFiles`); what is renamed was written (`Copying`); executable and `agent.env`
are in place from the step on that registers the service (`InPlace`); unless the
entry could not be opened or deleted, no service is registered while files change
(`Unregistered`). `ExecutableKept` needs where the executable may be missing: between
its removal and the rename, while the second copy runs with the old one set aside,
and after the rename back has failed (`Present`).

**Paper.** `StatusMatchesCopies` is inductive with the types of the jobs; the lemma
that every document is a sequence of bytes, whatever logo and code, gives it a
length. `PrintedIsReadable` has two halves. The first is about the encoding: a
sequence is `Clean` if a printer that expects nothing has read it undamaged and
expects nothing again. Text is clean, a command followed by as much as it takes is
clean (`OrderPart`, `FixedPart`), and so are concatenations (`AfterConcat`,
`CleanConcat`); a logo that passes the checks of `escposLogo` announces its size,
because `ticketLogoMaxWidth` and `ticketLogoMaxHeight` fit in two bytes, and a QR
code announces its length if that fits (`TwoBytesExact`). Hence `DocumentIsClean`
for every ticket that is not `Unruly`. The second half is the invariant
`PaperInv`: a whole copy waits only for a job called printed (`OnlyPrintedWait`), at
most one on both transports together (`OneWaits`), and until the printer is put out
of step exactly the printed jobs without a waiting copy have come out (`InStep`).

**Induction.** The library's induction theorems take an operator as parameter,
which no installed prover instantiates. `InductionOverSets` states what it needs
about sets instead: a set that has zero and with each number its successor has all
of them (`AllNaturals`, from the well-foundedness of `<`), and a set with the empty
sequence that is closed under appending has all sequences (`AllSequences`). A
recursive function is first shown to exist (`FilterExists`, `ReadsExists`,
`FlattenExists`), then to satisfy its equation. The definitions these theorems are
about are recursive functions for that reason.

### Only model-checked

* Every liveness property, including the fairness part of `LedgerSpec`: liveness
  under fairness and `ENABLED` are beyond the prover.

Every invariant and every action property that a passing run checks is a theorem.

## 7 What is not modelled

* The read-only endpoints: they change nothing. What `/status` shows is in the
  properties about `stat`.
* The arithmetic of HMAC and of the clock skew, and the comparison of tokens: a
  verdict on one request without state, chosen freely in `Guard`.
* The reading of `agent.env` into the environment and the parsing of flags: pure
  functions over text. What they decide (limits, lists, ids) are constants.
* The list of printers and the choice of the default: a choice at every attempt in
  `Paper`. `printer_stub.go` does nothing.
* What a printer loses of what a transport accepted (power, paper, a TCP buffer):
  nothing in the code can know it. "Printed" means "accepted".
* Power loss, and the order in which a disk persists writes.
* The growth of the limiter's map: one entry for each key, never removed. The number
  of keys is not a property of a finite instance.
* The event log, log lines and messages.
* The deployment scripts and workflows: straight-line scripts over files, the
  service manager and the web.

## 8 Running it

    tlc -workers 2 -config TicketQueue_safety.cfg MCTicketQueue
    tlc -workers 2 -config TicketQueue_liveness.cfg MCTicketQueue
    tlc -workers 2 -config GatewayLink_link.cfg MCGatewayLink
    tlc -workers 2 -config AgentFiles_files.cfg MCAgentFiles
    tlc -workers 2 -config Delivery_roundtrip.cfg MCDelivery
    tlc -workers 2 -config FrontDoor_gate.cfg MCFrontDoor
    tlc -workers 2 -config Paper_stream.cfg MCPaper
    tlc -workers 2 -config Installer_install.cfg MCInstaller
    tlapm TicketQueueProofs.tla

and `tlapm` likewise for `InductionOverSets` and the six other modules named
`...Proofs`. The
`TicketQueue` runs and `Delivery_roundtrip` (660,000 states) take one to two
minutes each, `Installer_install` (580,000 states) and `Paper_stream` (1,200,000)
about one, the others less than half a minute. The proofs take about two
minutes each for `TicketQueueProofs`, `GatewayLinkProofs` and `PaperProofs`, less
than a minute for each of the others.
