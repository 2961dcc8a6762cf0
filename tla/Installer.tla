----------------------------- MODULE Installer -----------------------------
(***************************************************************************)
(* `install` and `uninstall`, cmd/print-agent/install_windows.go, against  *)
(* the service they replace (service_windows.go, runAgent of main.go):     *)
(*                                                                         *)
(*   inst     the one installer that may be running, step by step          *)
(*   agent    the process of the service                                   *)
(*   console  an agent somebody started by hand: it keeps its executable   *)
(*            locked and its port bound, and no service stops it           *)
(*   record   what the service control manager knows of the service        *)
(*                                                                         *)
(* A file is a number, and names are variables that hold one: a rename     *)
(* moves a number, and a process keeps the file it was started from.       *)
(* Windows refuses to delete or replace a file that is running or that a   *)
(* scanner has open, but renames one that is running.                      *)
(***************************************************************************)
EXTENDS Integers, FiniteSets

CONSTANTS
    MaxFile,          \* bound: files that exist at one time
    MaxAttempts,      \* renames copyFileSafe tries (10 in the code)
    MaxDisturbances,  \* bound: steps that fail for a reason of their own, times a
                      \* scanner opens one of the two names, installers killed and
                      \* reboots, all together
    MaxUpgrades       \* bound: installations begun after a successful one

ASSUME InstallerAssumption ==
    /\ MaxFile \in Nat \ {0} /\ MaxAttempts \in Nat \ {0}
    /\ MaxDisturbances \in Nat /\ MaxUpgrades \in Nat

None == 0
Files == 1..MaxFile

VARIABLES
    inst,        \* [pc, attempt of copyFileSafe, second: the file set aside, or None]
    result,      \* how the last installation ended
    tokenFile,   \* is the file of --token-file there?
    dest, tmp,   \* the files of the two names in installDir
    asides,      \* the files named .old-<seconds>
    whole,       \* the files that were written to their end
    env,         \* agent.env
    record,      \* the service's entry: none, registered, or marked for deletion
    recovery,    \* have its recovery actions been set?
    agent,       \* the service's process; "due" when the manager owes a start
    image,       \* the file each process runs, or None
    scan,        \* the name a scanner holds open
    ignored,     \* history: the ignored errors whose effect may last: "entry", the
                 \* service was not found or not deleted; "restore", the executable
                 \* that was set aside did not get its name back
    faults, scans, kills, upgrades

disk == <<tokenFile, dest, tmp, asides, whole, env>>
service == <<record, recovery, agent, image>>
bounds == <<faults, scans, kills, upgrades>>
vars == <<inst, result, disk, service, scan, ignored, bounds>>

Steps == {"idle", "prepare", "open", "wait", "delete", "cleanup", "create", "copy",
          "remove", "rename", "aside", "restore", "env", "flush", "register",
          "recover", "start", "sleep", "erase"}

TypeOK ==
    /\ inst \in [pc : Steps, attempt : 1..MaxAttempts, second : 0..MaxFile]
    /\ result \in {"none", "done", "failed", "removed"}
    /\ tokenFile \in BOOLEAN
    /\ dest \in 0..MaxFile /\ tmp \in 0..MaxFile
    /\ asides \subseteq Files /\ whole \subseteq Files
    /\ env \in {"part", "ok"}
    /\ record \in {"none", "registered", "marked"} /\ recovery \in BOOLEAN
    /\ agent \in {"none", "due", "starting", "running", "serving", "stopping"}
    /\ image \in [{"agent", "console"} -> 0..MaxFile]
    /\ scan \in {"none", "dest", "tmp"}
    /\ ignored \subseteq {"entry", "restore"}
    /\ faults \in Nat /\ scans \in Nat /\ kills \in Nat
    /\ faults + scans + kills =< MaxDisturbances
    /\ upgrades \in 0..MaxUpgrades

Idle == [pc |-> "idle", attempt |-> 1, second |-> None]

\* A version of the agent is installed and runs, as a service or by hand.
Init ==
    /\ inst = Idle /\ result = "none"
    /\ tokenFile = TRUE
    /\ dest = 1 /\ tmp = None /\ asides = {} /\ whole = {1} /\ env = "ok"
    /\ \/ record = "registered" /\ recovery = TRUE /\ agent = "serving"
          /\ image = [agent |-> 1, console |-> None]
       \/ record = "none" /\ recovery = FALSE /\ agent = "none"
          /\ image = [agent |-> None, console |-> 1]
    /\ scan = "none" /\ ignored = {}
    /\ faults = 0 /\ scans = 0 /\ kills = 0 /\ upgrades = 0

-----------------------------------------------------------------------------
(* Shared. *)

At(pc) == inst.pc = pc
Go(pc) == inst' = [inst EXCEPT !.pc = pc]

\* log.Fatalf: nothing that was done is undone.
Fail == inst' = Idle /\ result' = "failed"

MayDisturb == faults + scans + kills < MaxDisturbances
Fault == MayDisturb /\ faults' = faults + 1

Running(f) == \E p \in DOMAIN image : image[p] = f
Alive == agent \in {"starting", "running", "serving", "stopping"}

\* os.Remove succeeds.
Removable(name, f) == f # None /\ ~Running(f) /\ scan # name

\* The lowest file number nothing refers to.
Fresh(f) ==
    LET used == {dest, tmp, image["agent"], image["console"]} \union asides
    IN  f \in Files \ used /\ \A g \in Files \ used : f =< g

\* os.Remove of the temporary file, whose failure is ignored.
DropTmp == tmp' = IF Removable("tmp", tmp) THEN None ELSE tmp

-----------------------------------------------------------------------------
(* selfInstall, up to the copy. *)

\* The token is read, and its file removed, before anything else is tried.
Begin ==
    /\ At("idle")
    /\ IF result = "done" THEN upgrades < MaxUpgrades /\ upgrades' = upgrades + 1
                          ELSE UNCHANGED upgrades
    /\ \/ tokenFile /\ tokenFile' = FALSE /\ Go("prepare") /\ result' = "none"
       \/ ~tokenFile /\ Fail /\ UNCHANGED tokenFile
    /\ UNCHANGED <<dest, tmp, asides, whole, env, service, scan, ignored, faults, scans, kills>>

\* The directories, and the connection to the service control manager.
Prepare ==
    /\ At("prepare")
    /\ \/ Go("open") /\ UNCHANGED <<result, faults>>
       \/ Fault /\ Fail
    /\ UNCHANGED <<disk, service, scan, ignored, scans, kills, upgrades>>

Stopped_NotSent == agent

\* Control(svc.Stop): a process that is still starting does not accept it.
Stopped == IF agent \in {"running", "serving"} THEN "stopping" ELSE agent

\* The error of Control is ignored.
SendStop ==
    \/ agent' = Stopped /\ UNCHANGED faults
    \/ Fault /\ UNCHANGED agent

\* Any error of OpenService counts as "there is no service".
OpenService ==
    /\ At("open")
    /\ \/ record = "none" /\ Go("cleanup") /\ UNCHANGED <<agent, ignored, faults>>
       \/ record # "none" /\ Go("wait") /\ SendStop /\ UNCHANGED ignored
       \/ record # "none" /\ Fault /\ Go("cleanup")
          /\ ignored' = ignored \union {"entry"} /\ UNCHANGED agent
    /\ UNCHANGED <<result, disk, record, recovery, image, scan, scans, kills, upgrades>>

\* Twenty seconds pass, or fewer if the process ends first.
WaitStopped ==
    /\ At("wait")
    /\ Go("delete")
    /\ UNCHANGED <<result, disk, service, scan, ignored, bounds>>

DeleteEntry_Kept == UNCHANGED <<record, agent>>

\* Delete: the entry of a process that is alive is only marked.
DeleteEntry ==
    /\ record' = IF Alive /\ record # "none" THEN "marked" ELSE "none"
    /\ agent' = IF Alive THEN agent ELSE "none"

\* The error of Delete is ignored.
DeleteService ==
    /\ At("delete")
    /\ \/ DeleteEntry /\ UNCHANGED <<ignored, faults>>
       \/ Fault /\ ignored' = ignored \union {"entry"} /\ UNCHANGED <<record, agent>>
    /\ Go("cleanup")
    /\ UNCHANGED <<result, disk, recovery, image, scan, scans, kills, upgrades>>

\* cleanupOldExecutables
Cleanup ==
    /\ At("cleanup")
    /\ asides' = {f \in asides : Running(f)}
    /\ Go("create")
    /\ UNCHANGED <<result, tokenFile, dest, tmp, whole, env, service, scan, ignored, bounds>>

-----------------------------------------------------------------------------
(* copyFileSafe, called at most twice, and what selfInstall does with its     *)
(* result.                                                                    *)

CopyFailed == Go(IF inst.second = None THEN "aside" ELSE "restore")

\* The installer is the installed executable itself: there is nothing to copy.
CopySkip ==
    /\ At("create") /\ dest # None /\ inst.second = None
    /\ Go("env")
    /\ UNCHANGED <<result, disk, service, scan, ignored, bounds>>

CreateTmp ==
    /\ At("create")
    /\ \/ /\ scan # "tmp"
          /\ \E f \in Files : Fresh(f) /\ tmp' = f /\ whole' = whole \ {f}
          /\ inst' = [inst EXCEPT !.pc = "copy", !.attempt = 1]
          /\ UNCHANGED faults
       \/ /\ \/ Fault
             \/ scan = "tmp" /\ UNCHANGED faults
          /\ CopyFailed
          /\ UNCHANGED <<tmp, whole>>
    /\ UNCHANGED <<result, tokenFile, dest, asides, env, service, scan, ignored, scans, kills, upgrades>>

CopyTmp ==
    /\ At("copy")
    /\ \/ whole' = whole \union {tmp} /\ Go("remove") /\ UNCHANGED <<tmp, faults>>
       \/ Fault /\ DropTmp /\ CopyFailed /\ UNCHANGED whole
    /\ UNCHANGED <<result, tokenFile, dest, asides, env, service, scan, ignored, scans, kills, upgrades>>

RemoveDest ==
    /\ At("remove")
    /\ dest' = IF Removable("dest", dest) THEN None ELSE dest
    /\ Go("rename")
    /\ UNCHANGED <<result, tokenFile, tmp, asides, whole, env, service, scan, ignored, bounds>>

\* MoveFileEx replaces a destination that is there and not in use.
CanRename == scan # "tmp" /\ (dest = None \/ Removable("dest", dest))

RenameOk ==
    /\ At("rename") /\ CanRename
    /\ dest' = tmp /\ tmp' = None
    /\ asides' = IF Running(inst.second) THEN asides ELSE asides \ {inst.second}
    /\ ignored' = ignored \ {"restore"}
    /\ Go("env")
    /\ UNCHANGED <<result, tokenFile, whole, env, service, scan, bounds>>

RenameFail ==
    /\ At("rename") /\ ~CanRename
    /\ \/ /\ inst.attempt < MaxAttempts
          /\ inst' = [inst EXCEPT !.pc = "remove", !.attempt = @ + 1]
          /\ UNCHANGED tmp
       \/ inst.attempt = MaxAttempts /\ DropTmp /\ CopyFailed
    /\ UNCHANGED <<result, tokenFile, dest, asides, whole, env, service, scan, ignored, bounds>>

\* The last resort: the old executable is renamed, and the copy tried again.
SetAside ==
    /\ At("aside")
    /\ \/ /\ dest # None /\ scan # "dest"
          /\ asides' = asides \union {dest} /\ dest' = None
          /\ inst' = [inst EXCEPT !.pc = "create", !.second = dest]
          /\ UNCHANGED result
       \/ (dest = None \/ scan = "dest") /\ Fail /\ UNCHANGED <<dest, asides>>
    /\ UNCHANGED <<tokenFile, tmp, whole, env, service, scan, ignored, bounds>>

Restore_Left ==
    /\ At("restore")
    /\ Fail
    /\ UNCHANGED <<disk, service, scan, ignored, bounds>>

\* "dejar las cosas como estaban", whose error is ignored.
Restore ==
    /\ At("restore")
    /\ \/ /\ dest' = inst.second /\ asides' = asides \ {inst.second}
          /\ UNCHANGED <<ignored, faults>>
       \/ /\ Fault /\ ignored' = ignored \union {"restore"}
          /\ UNCHANGED <<dest, asides>>
    /\ Fail
    /\ UNCHANGED <<tokenFile, tmp, whole, env, service, scan, scans, kills, upgrades>>

-----------------------------------------------------------------------------
(* selfInstall, after the copy. *)

\* os.WriteFile truncates agent.env ...
WriteEnv ==
    /\ At("env")
    /\ \/ env' = "part" /\ Go("flush") /\ UNCHANGED <<result, faults>>
       \/ Fault /\ Fail /\ UNCHANGED env
    /\ UNCHANGED <<tokenFile, dest, tmp, asides, whole, service, scan, ignored, scans, kills, upgrades>>

\* ... and then writes it: everything a start needs is whole again.
FlushEnv ==
    /\ At("flush")
    /\ \/ /\ env' = "ok" /\ Go("register")
          /\ ignored' = ignored \ {"entry"} /\ UNCHANGED <<result, faults>>
       \/ Fault /\ Fail /\ UNCHANGED <<env, ignored>>
    /\ UNCHANGED <<tokenFile, dest, tmp, asides, whole, service, scan, scans, kills, upgrades>>

\* CreateService is refused while there is an entry, marked for deletion or not.
CreateService ==
    /\ At("register")
    /\ \/ record = "none" /\ record' = "registered" /\ recovery' = FALSE
          /\ Go("recover") /\ UNCHANGED <<result, faults>>
       \/ /\ \/ record # "none" /\ UNCHANGED faults
             \/ record = "none" /\ Fault
          /\ Fail /\ UNCHANGED <<record, recovery>>
    /\ UNCHANGED <<disk, agent, image, scan, ignored, scans, kills, upgrades>>

\* An error is ignored.
SetRecoveryActions ==
    /\ At("recover")
    /\ \/ recovery' = TRUE /\ UNCHANGED faults
       \/ Fault /\ UNCHANGED recovery
    /\ Go("start")
    /\ UNCHANGED <<result, disk, record, agent, image, scan, ignored, scans, kills, upgrades>>

StartProcess == agent' = "starting" /\ image' = [image EXCEPT !["agent"] = dest]

StartService ==
    /\ At("start")
    /\ \/ StartProcess /\ inst' = Idle /\ result' = "done" /\ UNCHANGED faults
       \/ Fault /\ Fail /\ UNCHANGED <<agent, image>>
    /\ UNCHANGED <<disk, record, recovery, scan, ignored, scans, kills, upgrades>>

-----------------------------------------------------------------------------
(* selfUninstall: stop, two seconds, delete.  Counted as an upgrade. *)

Uninstall ==
    /\ At("idle") /\ record # "none"
    /\ upgrades < MaxUpgrades /\ upgrades' = upgrades + 1
    /\ SendStop
    /\ Go("erase")
    /\ UNCHANGED <<result, disk, record, recovery, image, scan, ignored, scans, kills>>

UninstallDelete ==
    /\ At("erase")
    /\ \/ DeleteEntry /\ UNCHANGED faults
       \/ Fault /\ UNCHANGED <<record, agent>>
    /\ inst' = Idle /\ result' = "removed"
    /\ UNCHANGED <<disk, recovery, image, scan, ignored, scans, kills, upgrades>>

-----------------------------------------------------------------------------
(* The service's process. *)

\* Execute: StartPending, runAgent in a goroutine, Running.
Execute ==
    /\ agent = "starting"
    /\ agent' = "running"
    /\ UNCHANGED <<inst, result, disk, record, recovery, image, scan, ignored, bounds>>

\* ListenAndServe binds the port, unless the other agent has it.
Listen ==
    /\ agent = "running" /\ image["console"] = None
    /\ agent' = "serving"
    /\ UNCHANGED <<inst, result, disk, record, recovery, image, scan, ignored, bounds>>

\* The process is gone.  What was marked goes with it; a failure is followed by
\* a restart when the recovery actions are set.
ProcessEnds(failed) ==
    /\ agent' = IF failed /\ record = "registered" /\ recovery THEN "due" ELSE "none"
    /\ image' = [image EXCEPT !["agent"] = None]
    /\ record' = IF record = "marked" THEN "none" ELSE record

\* log.Fatalf: the port is taken.
ListenFail ==
    /\ agent = "running" /\ image["console"] # None
    /\ ProcessEnds(TRUE)
    /\ UNCHANGED <<inst, result, disk, recovery, scan, ignored, bounds>>

Crash ==
    /\ agent \in {"running", "serving"} /\ Fault
    /\ ProcessEnds(TRUE)
    /\ UNCHANGED <<inst, result, disk, recovery, scan, ignored, scans, kills, upgrades>>

\* Execute closes stopCh and returns: the process does not wait for the server.
Exit ==
    /\ agent = "stopping"
    /\ ProcessEnds(FALSE)
    /\ UNCHANGED <<inst, result, disk, recovery, scan, ignored, bounds>>

\* A recovery action, or the automatic start after a reboot; without an
\* executable it fails, and is not repeated.
ManagerStart ==
    /\ agent = "due"
    /\ \/ dest # None /\ StartProcess
       \/ dest = None /\ agent' = "none" /\ UNCHANGED image
    /\ UNCHANGED <<inst, result, disk, record, recovery, scan, ignored, bounds>>

-----------------------------------------------------------------------------
(* People, scanners and the machine. *)

\* "Cierralo (Administrador de tareas)"
CloseConsole ==
    /\ image["console"] # None
    /\ image' = [image EXCEPT !["console"] = None]
    /\ UNCHANGED <<inst, result, disk, record, recovery, agent, scan, ignored, bounds>>

\* A new token is issued: the file of the last one is gone.
IssueToken ==
    /\ ~tokenFile /\ At("idle")
    /\ tokenFile' = TRUE
    /\ UNCHANGED <<inst, result, dest, tmp, asides, whole, env, service, scan, ignored, bounds>>

ScanBegins ==
    /\ scan = "none" /\ MayDisturb /\ scans' = scans + 1
    /\ \/ dest # None /\ scan' = "dest"
       \/ tmp # None /\ scan' = "tmp"
    /\ UNCHANGED <<ignored, inst, result, disk, service, faults, kills, upgrades>>

ScanEnds ==
    /\ scan # "none"
    /\ scan' = "none"
    /\ UNCHANGED <<ignored, inst, result, disk, service, bounds>>

Kill ==
    /\ ~At("idle") /\ MayDisturb /\ kills' = kills + 1
    /\ Fail
    /\ UNCHANGED <<disk, service, scan, ignored, faults, scans, upgrades>>

Reboot ==
    /\ MayDisturb /\ kills' = kills + 1
    /\ inst' = Idle /\ result' = IF At("idle") THEN result ELSE "failed"
    /\ image' = [p \in DOMAIN image |-> None]
    /\ record' = IF record = "marked" THEN "none" ELSE record
    /\ agent' = IF record = "registered" THEN "due" ELSE "none"
    /\ scan' = "none"
    /\ UNCHANGED <<ignored, disk, recovery, faults, scans, upgrades>>

\* Installed, serving or given up, and nobody asks for more.
AtRest ==
    /\ At("idle") /\ result = "done"
    /\ agent = "serving" \/ (agent = "none" /\ ~recovery)
    /\ UNCHANGED vars

InstallStep ==
    \/ Prepare \/ OpenService \/ WaitStopped \/ DeleteService \/ Cleanup
    \/ CopySkip \/ CreateTmp \/ CopyTmp \/ RemoveDest \/ RenameOk \/ RenameFail
    \/ SetAside \/ Restore
    \/ WriteEnv \/ FlushEnv \/ CreateService \/ SetRecoveryActions \/ StartService
    \/ UninstallDelete

AgentStep == Execute \/ Listen \/ ListenFail \/ Exit \/ ManagerStart

Next ==
    \/ Begin \/ InstallStep \/ Uninstall
    \/ AgentStep \/ Crash
    \/ CloseConsole \/ IssueToken \/ ScanBegins \/ ScanEnds
    \/ Kill \/ Reboot
    \/ AtRest

Safety == Init /\ [][Next]_vars

\* The installer and the agent run; scans end; the user does what the failed
\* installation's message asks: closes the other agent and installs again.
Fairness ==
    /\ WF_vars(InstallStep)
    /\ WF_vars(AgentStep)
    /\ WF_vars(ScanEnds)
    /\ WF_vars(CloseConsole)
    /\ WF_vars(IssueToken)
    /\ WF_vars(result # "done" /\ Begin)

Spec == Safety /\ Fairness

-----------------------------------------------------------------------------
(* Properties. *)

\* At whatever step an installation fails, is killed or is cut short by a
\* reboot, a service the manager may start has a whole executable and a whole
\* agent.env: the entry is deleted before the first change and created after the
\* last.  Only an installer that went on because it could not open or could not
\* delete the entry, errors it ignores, may leave half of them under it, until an
\* installation gets as far as agent.env again.  No process runs half an
\* executable (install_windows.go 93-118, 161-181, 262-281).
RegisteredIsStartable ==
    /\ record = "registered" /\ "entry" \notin ignored => dest \in whole /\ env = "ok"
    /\ \A p \in DOMAIN image : image[p] # None => image[p] \in whole

\* A full disk, an agent that does not stop, a refused registration: none of
\* them costs the installed executable.  A scanner that outlasts the renames
\* after the removal does, the end of the installer between the two, and a
\* second failure, that of giving the name back to the executable that was set
\* aside (install_windows.go 127-148, 267-285).
ExecutableKept ==
    At("idle") /\ scans = 0 /\ kills = 0 /\ "restore" \notin ignored => dest \in whole

\* Once the disturbances end, installing again succeeds, and the service it
\* leaves behind serves; unless its recovery actions could not be set, which
\* nobody is told: then a start that meets another agent on its port is the last
\* (install_windows.go 95-112, 143-146, 187-197).
InstallWins ==
    <>[](result = "done" /\ record = "registered" /\ (agent = "serving" \/ ~recovery))

=============================================================================
