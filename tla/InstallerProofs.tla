-------------------------- MODULE InstallerProofs --------------------------
(***************************************************************************)
(* Theorems about Installer, for any number of files, attempts,            *)
(* disturbances and upgrades.                                              *)
(***************************************************************************)
EXTENDS Installer, TLAPS

-----------------------------------------------------------------------------
(* Type correctness. *)

LEMMA IdleTyped == Idle \in [pc : Steps, attempt : 1..MaxAttempts, second : 0..MaxFile]
  BY InstallerAssumption DEF Idle, Steps, None

\* Moving on in the installation keeps its record typed.
LEMMA GoTyped ==
    ASSUME TypeOK, NEW pc \in Steps, Go(pc)
    PROVE  inst' \in [pc : Steps, attempt : 1..MaxAttempts, second : 0..MaxFile]
  BY DEF Go, TypeOK

LEMMA MovedTyped ==
    ASSUME TypeOK, NEW pc \in Steps, NEW n \in 1..MaxAttempts, NEW f \in 0..MaxFile
    PROVE  /\ [inst EXCEPT !.pc = pc, !.attempt = n]
                  \in [pc : Steps, attempt : 1..MaxAttempts, second : 0..MaxFile]
           /\ [inst EXCEPT !.pc = pc, !.second = f]
                  \in [pc : Steps, attempt : 1..MaxAttempts, second : 0..MaxFile]
  BY DEF TypeOK

\* The counters of what disturbs stay within their bound.
Counted == faults \in Nat /\ scans \in Nat /\ kills \in Nat
           /\ faults + scans + kills =< MaxDisturbances

LEMMA FaultTyped ==
    TypeOK /\ (Fault \/ UNCHANGED faults) /\ UNCHANGED <<scans, kills>> => Counted'
  BY InstallerAssumption DEF Fault, MayDisturb, TypeOK, Counted

LEMMA DisturbTyped ==
    TypeOK /\ MayDisturb /\ UNCHANGED faults
       /\ \/ scans' = scans + 1 /\ UNCHANGED kills
          \/ kills' = kills + 1 /\ UNCHANGED scans
       => Counted'
  BY InstallerAssumption DEF MayDisturb, TypeOK, Counted

LEMMA CopyFailedTyped ==
    TypeOK /\ CopyFailed => inst' \in [pc : Steps, attempt : 1..MaxAttempts, second :
             0..MaxFile]
  BY GoTyped DEF CopyFailed, Steps

LEMMA DropTmpTyped == TypeOK /\ DropTmp => tmp' \in 0..MaxFile
  BY InstallerAssumption DEF DropTmp, TypeOK, None

\* While it is copied, the temporary file is there.
Holding == inst.pc \in {"copy", "remove", "rename"} => tmp \in Files

LEMMA BeforeTypeOK ==
    TypeOK /\ (Begin \/ Prepare \/ OpenService \/ WaitStopped \/ DeleteService \/
       Cleanup) => TypeOK'
<1> SUFFICES ASSUME TypeOK, Begin \/ Prepare \/ OpenService \/ WaitStopped \/
             DeleteService \/ Cleanup
             PROVE  TypeOK'
  OBVIOUS
<1> USE DEF disk, service, bounds
<1>1. CASE Begin
  <2>1. inst' \in [pc : Steps, attempt : 1..MaxAttempts, second : 0..MaxFile]
    BY <1>1, IdleTyped, GoTyped DEF Begin, Fail, Steps
  <2>2. upgrades' \in 0..MaxUpgrades
    BY <1>1, InstallerAssumption DEF Begin, TypeOK
  <2>3. tokenFile' \in BOOLEAN /\ result' \in {"none", "done", "failed", "removed"}
    BY <1>1 DEF Begin, Fail, TypeOK
  <2> QED
    BY <1>1, <2>1, <2>2, <2>3 DEF Begin, TypeOK
<1>2. CASE Prepare
  <2>1. inst' \in [pc : Steps, attempt : 1..MaxAttempts, second : 0..MaxFile]
    BY <1>2, IdleTyped, GoTyped DEF Prepare, Fail, Steps
  <2>2. Counted' /\ result' \in {"none", "done", "failed", "removed"}
    BY <1>2, FaultTyped DEF Prepare, Fail, TypeOK
  <2> QED
    BY <1>2, <2>1, <2>2 DEF Prepare, Counted, TypeOK
<1>3. CASE OpenService
  <2>1. inst' \in [pc : Steps, attempt : 1..MaxAttempts, second : 0..MaxFile]
    BY <1>3, GoTyped DEF OpenService, Steps
  <2>2. Counted'
    BY <1>3, FaultTyped DEF OpenService, SendStop
  <2>3. /\ agent' \in {"none", "due", "starting", "running", "serving", "stopping"}
        /\ ignored' \subseteq {"entry", "restore"}
    BY <1>3 DEF OpenService, SendStop, Stopped, TypeOK
  <2> QED
    BY <1>3, <2>1, <2>2, <2>3 DEF OpenService, Counted, TypeOK
<1>4. CASE WaitStopped
  BY <1>4, GoTyped, InstallerAssumption DEF WaitStopped, At, Go, Steps, Files, None,
     TypeOK
<1>5. CASE DeleteService
  <2>1. inst' \in [pc : Steps, attempt : 1..MaxAttempts, second : 0..MaxFile]
    BY <1>5, GoTyped DEF DeleteService, Steps
  <2>2. Counted'
    BY <1>5, FaultTyped DEF DeleteService
  <2>3. /\ agent' \in {"none", "due", "starting", "running", "serving", "stopping"}
        /\ record' \in {"none", "registered", "marked"}
        /\ ignored' \subseteq {"entry", "restore"}
    BY <1>5 DEF DeleteService, DeleteEntry, TypeOK
  <2> QED
    BY <1>5, <2>1, <2>2, <2>3 DEF DeleteService, Counted, TypeOK
<1>6. CASE Cleanup
  BY <1>6, GoTyped, InstallerAssumption DEF Cleanup, At, Go, Steps, Files, None, TypeOK
<1> QED
  BY <1>1, <1>2, <1>3, <1>4, <1>5, <1>6

LEMMA CopyTypeOK ==
    TypeOK /\ Holding /\ (CopySkip \/ CreateTmp \/ CopyTmp \/ RemoveDest \/ RenameOk
       \/ RenameFail \/ SetAside \/ Restore) => TypeOK'
<1> SUFFICES ASSUME TypeOK, Holding, CopySkip \/ CreateTmp \/ CopyTmp \/ RemoveDest \/
             RenameOk \/ RenameFail \/ SetAside \/ Restore
             PROVE  TypeOK'
  OBVIOUS
<1> USE DEF disk, service, bounds
<1>1. CASE CopySkip
  BY <1>1, GoTyped, InstallerAssumption DEF CopySkip, At, Go, Steps, Files, None, TypeOK
<1>2. CASE CreateTmp
  <2>1. CASE /\ \E f \in Files : Fresh(f) /\ tmp' = f /\ whole' = whole \ {f}
             /\ inst' = [inst EXCEPT !.pc = "copy", !.attempt = 1]
             /\ UNCHANGED faults
    <3>1. 1 \in 1..MaxAttempts /\ "copy" \in Steps
      BY InstallerAssumption DEF Steps
    <3>2. inst' \in [pc : Steps, attempt : 1..MaxAttempts, second : 0..MaxFile]
      BY <2>1, <3>1, MovedTyped DEF TypeOK
    <3>3. tmp' \in 0..MaxFile /\ whole' \subseteq Files
      BY <2>1, InstallerAssumption DEF TypeOK, Files
    <3> QED
      BY <1>2, <2>1, <3>2, <3>3 DEF CreateTmp, TypeOK
  <2>2. CASE /\ Fault \/ UNCHANGED faults
             /\ CopyFailed /\ UNCHANGED <<tmp, whole>>
    <3>1. Counted'
      BY <1>2, <2>2, FaultTyped DEF CreateTmp
    <3> QED
      BY <1>2, <2>2, <3>1, CopyFailedTyped DEF CreateTmp, Counted, TypeOK
  <2> QED
    BY <1>2, <2>1, <2>2 DEF CreateTmp
<1>3. CASE CopyTmp
  <2>1. CASE whole' = whole \union {tmp} /\ Go("remove") /\ UNCHANGED <<tmp, faults>>
    <3>1. inst' \in [pc : Steps, attempt : 1..MaxAttempts, second : 0..MaxFile]
      BY <2>1, GoTyped DEF Steps
    <3>2. tmp \in Files
      BY <1>3 DEF CopyTmp, At, Holding
    <3> QED
      BY <1>3, <2>1, <3>1, <3>2 DEF CopyTmp, TypeOK
  <2>2. CASE Fault /\ DropTmp /\ CopyFailed /\ UNCHANGED whole
    <3>1. Counted'
      BY <1>3, <2>2, FaultTyped DEF CopyTmp
    <3> QED
      BY <1>3, <2>2, <3>1, CopyFailedTyped, DropTmpTyped DEF CopyTmp, Counted, TypeOK
  <2> QED
    BY <1>3, <2>1, <2>2 DEF CopyTmp
<1>4. CASE RemoveDest
  BY <1>4, GoTyped, InstallerAssumption DEF RemoveDest, At, Go, Steps, Files, None,
     TypeOK
<1>5. CASE RenameOk
  BY <1>5, GoTyped, InstallerAssumption DEF RenameOk, At, Go, Steps, Files, None, TypeOK
<1>6. CASE RenameFail
  <2>1. CASE /\ inst.attempt < MaxAttempts /\ UNCHANGED tmp
             /\ inst' = [inst EXCEPT !.pc = "remove", !.attempt = @ + 1]
    <3>1. inst.attempt + 1 \in 1..MaxAttempts /\ "remove" \in Steps
      BY <2>1, InstallerAssumption DEF TypeOK, Steps
    <3>2. inst' \in [pc : Steps, attempt : 1..MaxAttempts, second : 0..MaxFile]
      BY <2>1, <3>1, MovedTyped DEF TypeOK
    <3> QED
      BY <1>6, <2>1, <3>2 DEF RenameFail, TypeOK
  <2>2. CASE DropTmp /\ CopyFailed
    BY <1>6, <2>2, CopyFailedTyped, DropTmpTyped DEF RenameFail, TypeOK
  <2> QED
    BY <1>6, <2>1, <2>2 DEF RenameFail
<1>7. CASE SetAside
  <2>1. CASE /\ dest # None /\ asides' = asides \union {dest} /\ dest' = None
             /\ inst' = [inst EXCEPT !.pc = "create", !.second = dest]
             /\ UNCHANGED result
    <3>1. dest \in Files /\ "create" \in Steps /\ None \in 0..MaxFile
      BY <2>1, InstallerAssumption DEF TypeOK, Steps, Files, None
    <3>2. inst' \in [pc : Steps, attempt : 1..MaxAttempts, second : 0..MaxFile]
      BY <2>1, <3>1, MovedTyped DEF TypeOK
    <3> QED
      BY <1>7, <2>1, <3>1, <3>2 DEF SetAside, TypeOK
  <2>2. CASE Fail /\ UNCHANGED <<dest, asides>>
    BY <1>7, <2>2, IdleTyped DEF SetAside, Fail, TypeOK
  <2> QED
    BY <1>7, <2>1, <2>2 DEF SetAside
<1>8. CASE Restore
  <2>1. /\ dest' \in 0..MaxFile /\ asides' \subseteq Files
        /\ ignored' \subseteq {"entry", "restore"}
    BY <1>8 DEF Restore, TypeOK
  <2>2. inst' = Idle /\ result' = "failed"
    BY <1>8 DEF Restore, Fail
  <2>3. Counted'
    BY <1>8, FaultTyped DEF Restore
  <2> QED
    BY <1>8, <2>1, <2>2, <2>3, IdleTyped DEF Restore, Counted, TypeOK
<1> QED
  BY <1>1, <1>2, <1>3, <1>4, <1>5, <1>6, <1>7, <1>8

LEMMA AfterTypeOK ==
    TypeOK /\ (WriteEnv \/ FlushEnv \/ CreateService \/ SetRecoveryActions \/
       StartService) => TypeOK'
<1> SUFFICES ASSUME TypeOK, WriteEnv \/ FlushEnv \/ CreateService \/
             SetRecoveryActions \/ StartService
             PROVE  TypeOK'
  OBVIOUS
<1> USE DEF disk, service, bounds
<1>0. Counted'
  BY FaultTyped DEF WriteEnv, FlushEnv, CreateService, SetRecoveryActions, StartService
<1>1. CASE WriteEnv
  <2>1. inst' \in [pc : Steps, attempt : 1..MaxAttempts, second : 0..MaxFile]
    BY <1>1, IdleTyped, GoTyped DEF WriteEnv, Fail, Steps
  <2>2. env' \in {"part", "ok"} /\ result' \in {"none", "done", "failed", "removed"}
    BY <1>1 DEF WriteEnv, Fail, TypeOK
  <2> QED
    BY <1>0, <1>1, <2>1, <2>2 DEF WriteEnv, Counted, TypeOK
<1>2. CASE FlushEnv
  <2>1. inst' \in [pc : Steps, attempt : 1..MaxAttempts, second : 0..MaxFile]
    BY <1>2, IdleTyped, GoTyped DEF FlushEnv, Fail, Steps
  <2>2. /\ env' \in {"part", "ok"} /\ ignored' \subseteq {"entry", "restore"}
        /\ result' \in {"none", "done", "failed", "removed"}
    BY <1>2 DEF FlushEnv, Fail, TypeOK
  <2> QED
    BY <1>0, <1>2, <2>1, <2>2 DEF FlushEnv, Counted, TypeOK
<1>3. CASE CreateService
  <2>1. inst' \in [pc : Steps, attempt : 1..MaxAttempts, second : 0..MaxFile]
    BY <1>3, IdleTyped, GoTyped DEF CreateService, Fail, Steps
  <2>2. /\ recovery' \in BOOLEAN /\ record' \in {"none", "registered", "marked"}
        /\ result' \in {"none", "done", "failed", "removed"}
    BY <1>3 DEF CreateService, Fail, TypeOK
  <2> QED
    BY <1>0, <1>3, <2>1, <2>2 DEF CreateService, Counted, TypeOK
<1>4. CASE SetRecoveryActions
  <2>1. inst' \in [pc : Steps, attempt : 1..MaxAttempts, second : 0..MaxFile]
    BY <1>4, GoTyped DEF SetRecoveryActions, Steps
  <2>2. recovery' \in BOOLEAN
    BY <1>4 DEF SetRecoveryActions, TypeOK
  <2> QED
    BY <1>0, <1>4, <2>1, <2>2 DEF SetRecoveryActions, Counted, TypeOK
<1>5. CASE StartService
  <2>1. inst' \in [pc : Steps, attempt : 1..MaxAttempts, second : 0..MaxFile]
    BY <1>5, IdleTyped DEF StartService, Fail
  <2>2. /\ agent' \in {"none", "due", "starting", "running", "serving", "stopping"}
        /\ image' \in [{"agent", "console"} -> 0..MaxFile]
        /\ result' \in {"none", "done", "failed", "removed"}
    BY <1>5 DEF StartService, StartProcess, Fail, TypeOK
  <2> QED
    BY <1>0, <1>5, <2>1, <2>2 DEF StartService, Counted, TypeOK
<1> QED
  BY <1>1, <1>2, <1>3, <1>4, <1>5

LEMMA UninstallTypeOK == TypeOK /\ (Uninstall \/ UninstallDelete) => TypeOK'
<1> SUFFICES ASSUME TypeOK, Uninstall \/ UninstallDelete PROVE TypeOK'
  OBVIOUS
<1> USE DEF disk, service, bounds
<1>0. Counted'
  BY FaultTyped DEF Uninstall, UninstallDelete, SendStop
<1>1. CASE Uninstall
  <2>1. inst' \in [pc : Steps, attempt : 1..MaxAttempts, second : 0..MaxFile]
    BY <1>1, GoTyped DEF Uninstall, Steps
  <2>2. /\ agent' \in {"none", "due", "starting", "running", "serving", "stopping"}
        /\ upgrades' \in 0..MaxUpgrades
    BY <1>1, InstallerAssumption DEF Uninstall, SendStop, Stopped, TypeOK
  <2> QED
    BY <1>0, <1>1, <2>1, <2>2 DEF Uninstall, Counted, TypeOK
<1>2. CASE UninstallDelete
  <2>1. inst' = Idle /\ result' = "removed"
    BY <1>2 DEF UninstallDelete
  <2>2. /\ agent' \in {"none", "due", "starting", "running", "serving", "stopping"}
        /\ record' \in {"none", "registered", "marked"}
    BY <1>2 DEF UninstallDelete, DeleteEntry, TypeOK
  <2> QED
    BY <1>0, <1>2, <2>1, <2>2, IdleTyped DEF UninstallDelete, Counted, TypeOK
<1> QED
  BY <1>1, <1>2

LEMMA AgentTypeOK ==
    TypeOK /\ (Execute \/ Listen \/ ListenFail \/ Exit \/ ManagerStart \/ Crash) =>
       TypeOK'
<1> SUFFICES ASSUME TypeOK, Execute \/ Listen \/ ListenFail \/ Exit \/ ManagerStart \/
             Crash
             PROVE  TypeOK'
  OBVIOUS
<1> USE DEF disk, service, bounds
<1>1. CASE Execute
  BY <1>1, InstallerAssumption DEF Execute, Steps, Files, None, TypeOK
<1>2. CASE Listen
  BY <1>2, InstallerAssumption DEF Listen, Steps, Files, None, TypeOK
<1>3. CASE ListenFail
  BY <1>3, InstallerAssumption DEF ListenFail, Steps, Files, None, ProcessEnds, TypeOK
<1>4. CASE Exit
  BY <1>4, InstallerAssumption DEF Exit, Steps, Files, None, ProcessEnds, TypeOK
<1>5. CASE ManagerStart
  BY <1>5, InstallerAssumption DEF ManagerStart, Steps, Files, None, StartProcess,
     TypeOK
<1>6. CASE Crash
  <2>1. Counted'
    BY <1>6, FaultTyped DEF Crash
  <2>2. /\ agent' \in {"none", "due", "starting", "running", "serving", "stopping"}
        /\ record' \in {"none", "registered", "marked"}
        /\ image' \in [{"agent", "console"} -> 0..MaxFile]
    BY <1>6, InstallerAssumption DEF Crash, ProcessEnds, None, TypeOK
  <2> QED
    BY <1>6, <2>1, <2>2 DEF Crash, Counted, TypeOK
<1> QED
  BY <1>1, <1>2, <1>3, <1>4, <1>5, <1>6

LEMMA WorldTypeOK ==
    TypeOK /\ (CloseConsole \/ IssueToken \/ ScanBegins \/ ScanEnds \/ Kill \/ Reboot
       \/ AtRest) => TypeOK'
<1> SUFFICES ASSUME TypeOK, CloseConsole \/ IssueToken \/ ScanBegins \/ ScanEnds \/
             Kill \/ Reboot \/ AtRest
             PROVE  TypeOK'
  OBVIOUS
<1> USE DEF disk, service, bounds
<1>1. CASE CloseConsole
  BY <1>1, InstallerAssumption DEF CloseConsole, Steps, Files, None, TypeOK
<1>2. CASE IssueToken
  BY <1>2, InstallerAssumption DEF IssueToken, At, Steps, Files, None, TypeOK
<1>3. CASE ScanBegins
  <2>1. Counted'
    BY <1>3, DisturbTyped DEF ScanBegins
  <2> QED
    BY <1>3, <2>1 DEF ScanBegins, Counted, TypeOK
<1>4. CASE ScanEnds
  BY <1>4, InstallerAssumption DEF ScanEnds, Steps, Files, None, TypeOK
<1>5. CASE Kill
  <2>1. Counted'
    BY <1>5, DisturbTyped DEF Kill
  <2> QED
    BY <1>5, <2>1, IdleTyped DEF Kill, Fail, Counted, TypeOK
<1>6. CASE Reboot
  <2>1. Counted'
    BY <1>6, DisturbTyped DEF Reboot
  <2>2. image' \in [{"agent", "console"} -> 0..MaxFile]
    BY <1>6, InstallerAssumption DEF Reboot, None, TypeOK
  <2> QED
    BY <1>6, <2>1, <2>2, IdleTyped DEF Reboot, Counted, TypeOK
<1>7. CASE AtRest
  BY <1>7 DEF AtRest, vars, TypeOK
<1> QED
  BY <1>1, <1>2, <1>3, <1>4, <1>5, <1>6, <1>7

-----------------------------------------------------------------------------
(* The inductive invariant. *)

\* The installed executable, those set aside and those that run are whole.
WholeFiles ==
    /\ dest # None => dest \in whole
    /\ asides \subseteq whole
    /\ \A p \in {"agent", "console"} : image[p] # None => image[p] \in whole

\* What copyFileSafe has in its hands.
Copying ==
    /\ inst.pc \in {"idle", "prepare", "open", "wait", "delete", "cleanup"} =>
             inst.second = None
    /\ inst.pc \in {"remove", "rename"} => tmp \in whole
    /\ inst.pc \in {"create", "copy", "remove", "rename", "restore"} /\ inst.second # None
          => inst.second \in asides

\* What is in place before the service is registered.
InPlace ==
    /\ inst.pc \in {"env", "flush", "register", "recover", "start"} => dest \in whole
    /\ inst.pc \in {"register", "recover", "start"} => env = "ok"

\* No service is registered while files change, but one whose entry could not be
\* opened or deleted.
Unregistered ==
    inst.pc \in {"cleanup", "create", "copy", "remove", "rename", "aside", "restore",
                 "env", "flush"}
        => record # "registered" \/ "entry" \in ignored

Startable ==
    record = "registered" /\ "entry" \notin ignored => dest \in whole /\ env = "ok"

Sound == Holding /\ WholeFiles /\ Copying /\ InPlace /\ Unregistered /\ Startable

IInv == TypeOK /\ Sound

LEMMA InitIInv == Init => IInv
<1> SUFFICES ASSUME Init PROVE IInv
  OBVIOUS
<1>1. TypeOK
  <2>1. /\ 1 \in Files /\ 0 \in 0..MaxFile /\ 1 \in 0..MaxFile
        /\ 0 \in 0..MaxUpgrades /\ 0 + 0 + 0 =< MaxDisturbances
    BY InstallerAssumption DEF Files
  <2>2. /\ record \in {"none", "registered", "marked"}
        /\ agent \in {"none", "due", "starting", "running", "serving", "stopping"}
    BY DEF Init
  <2>3. recovery \in BOOLEAN /\ tokenFile \in BOOLEAN
    BY DEF Init
  <2>4. image \in [{"agent", "console"} -> 0..MaxFile]
    BY <2>1 DEF Init, None
  <2> QED
    BY <2>1, <2>2, <2>3, <2>4, IdleTyped DEF Init, TypeOK, None
<1>2. Sound
  BY DEF Init, Idle, None, Sound, Holding, WholeFiles, Copying, InPlace, Unregistered,
             Startable
<1> QED
  BY <1>1, <1>2 DEF IInv

LEMMA BeforeSound ==
    IInv /\ (Begin \/ Prepare \/ OpenService \/ WaitStopped \/ DeleteService \/
       Cleanup) => Sound'
<1> SUFFICES ASSUME IInv, Begin \/ Prepare \/ OpenService \/ WaitStopped \/
             DeleteService \/ Cleanup
             PROVE  Sound'
  OBVIOUS
<1> USE DEF disk, service, bounds
<1>1. CASE Begin
  BY <1>1 DEF Begin, At, Go, Fail, Idle, None, IInv, TypeOK,
     Sound, Holding, WholeFiles, Copying, InPlace, Unregistered, Startable
<1>2. CASE Prepare
  BY <1>2 DEF Prepare, At, Go, Fail, Idle, None, IInv, TypeOK,
     Sound, Holding, WholeFiles, Copying, InPlace, Unregistered, Startable
<1>3. CASE OpenService
  BY <1>3 DEF OpenService, SendStop, At, Go, None, Stopped, IInv, TypeOK, Sound, Holding,
     WholeFiles, Copying, InPlace, Unregistered, Startable
<1>4. CASE WaitStopped
  BY <1>4 DEF WaitStopped, At, Go, None, IInv, TypeOK, Sound, Holding, WholeFiles,
     Copying, InPlace, Unregistered, Startable
<1>5. CASE DeleteService
  BY <1>5 DEF DeleteService, At, Go, None, DeleteEntry, Alive, IInv, TypeOK, Sound,
     Holding, WholeFiles, Copying, InPlace, Unregistered, Startable
<1>6. CASE Cleanup
  <2>1. asides' \subseteq asides /\ inst'.pc = "create" /\ inst'.second = None
    BY <1>6 DEF Cleanup, At, Go, IInv, TypeOK, Sound, Copying
  <2> QED
    BY <1>6, <2>1 DEF Cleanup, At, IInv, Sound, Holding, WholeFiles, Copying, InPlace,
       Unregistered, Startable
<1> QED
  BY <1>1, <1>2, <1>3, <1>4, <1>5, <1>6

LEMMA CopySound ==
    IInv /\ (CopySkip \/ CreateTmp \/ CopyTmp \/ RemoveDest \/ RenameOk \/ RenameFail
       \/ SetAside \/ Restore) => Sound'
<1> SUFFICES ASSUME IInv, CopySkip \/ CreateTmp \/ CopyTmp \/ RemoveDest \/ RenameOk
             \/ RenameFail \/ SetAside \/ Restore
             PROVE  Sound'
  OBVIOUS
<1> USE DEF disk, service, bounds
<1>1. CASE CopySkip
  BY <1>1 DEF CopySkip, At, Go, None, IInv, TypeOK, Sound, Holding, WholeFiles, Copying,
     InPlace, Unregistered, Startable
<1>2. CASE CreateTmp
  BY <1>2 DEF CreateTmp, At, Go, None, CopyFailed, Fresh, IInv, TypeOK, Sound, Holding,
     WholeFiles, Copying, InPlace, Unregistered, Startable
<1>3. CASE CopyTmp
  BY <1>3 DEF CopyTmp, At, Go, None, CopyFailed, DropTmp, IInv, TypeOK, Sound, Holding,
     WholeFiles, Copying, InPlace, Unregistered, Startable
<1>4. CASE RemoveDest
  BY <1>4 DEF RemoveDest, At, Go, None, IInv, TypeOK, Sound, Holding, WholeFiles,
     Copying, InPlace, Unregistered, Startable
<1>5. CASE RenameOk
  BY <1>5 DEF RenameOk, At, Go, None, IInv, TypeOK, Sound, Holding, WholeFiles, Copying,
     InPlace, Unregistered, Startable
<1>6. CASE RenameFail
  BY <1>6 DEF RenameFail, At, Go, None, CopyFailed, DropTmp, IInv, TypeOK, Sound,
     Holding, WholeFiles, Copying, InPlace, Unregistered, Startable
<1>7. CASE SetAside
  <2>1. CASE /\ dest # None /\ asides' = asides \union {dest} /\ dest' = None
             /\ inst' = [inst EXCEPT !.pc = "create", !.second = dest]
    <3>1. inst'.pc = "create" /\ inst'.second = dest
      BY <2>1 DEF IInv, TypeOK
    <3>2. dest \in whole /\ (record # "registered" \/ "entry" \in ignored)
      BY <1>7, <2>1 DEF SetAside, At, IInv, Sound, WholeFiles, Unregistered
    <3>3. asides' \subseteq whole
      BY <2>1, <3>2 DEF IInv, Sound, WholeFiles
    <3> QED
      BY <1>7, <2>1, <3>1, <3>2, <3>3 DEF SetAside, IInv, Sound, Holding, WholeFiles,
             Copying,
         InPlace, Unregistered, Startable
  <2>2. CASE Fail /\ UNCHANGED <<dest, asides>>
    BY <1>7, <2>2 DEF SetAside, Fail, Idle, IInv, Sound, Holding, WholeFiles, Copying,
       InPlace, Unregistered, Startable
  <2> QED
    BY <1>7, <2>1, <2>2 DEF SetAside
<1>8. CASE Restore
  BY <1>8 DEF Restore, At, Fail, Idle, None, IInv, TypeOK, Sound, Holding, WholeFiles,
     Copying, InPlace, Unregistered, Startable
<1> QED
  BY <1>1, <1>2, <1>3, <1>4, <1>5, <1>6, <1>7, <1>8

LEMMA AfterSound ==
    IInv /\ (WriteEnv \/ FlushEnv \/ CreateService \/ SetRecoveryActions \/
       StartService) => Sound'
<1> SUFFICES ASSUME IInv, WriteEnv \/ FlushEnv \/ CreateService \/ SetRecoveryActions
             \/ StartService
             PROVE  Sound'
  OBVIOUS
<1> USE DEF disk, service, bounds
<1>1. CASE WriteEnv
  BY <1>1 DEF WriteEnv, At, Go, Fail, Idle, None, IInv, TypeOK,
     Sound, Holding, WholeFiles, Copying, InPlace, Unregistered, Startable
<1>2. CASE FlushEnv
  BY <1>2 DEF FlushEnv, At, Go, Fail, Idle, None, IInv, TypeOK,
     Sound, Holding, WholeFiles, Copying, InPlace, Unregistered, Startable
<1>3. CASE CreateService
  BY <1>3 DEF CreateService, At, Go, Fail, Idle, None, IInv, TypeOK,
     Sound, Holding, WholeFiles, Copying, InPlace, Unregistered, Startable
<1>4. CASE SetRecoveryActions
  BY <1>4 DEF SetRecoveryActions, At, Go, None, IInv, TypeOK, Sound, Holding,
     WholeFiles, Copying, InPlace, Unregistered, Startable
<1>5. CASE StartService
  BY <1>5 DEF StartService, At, Fail, Idle, None, StartProcess, IInv, TypeOK, Sound,
     Holding, WholeFiles, Copying, InPlace, Unregistered, Startable
<1> QED
  BY <1>1, <1>2, <1>3, <1>4, <1>5

LEMMA UninstallSound == IInv /\ (Uninstall \/ UninstallDelete) => Sound'
<1> SUFFICES ASSUME IInv, Uninstall \/ UninstallDelete PROVE Sound'
  OBVIOUS
<1> USE DEF disk, service, bounds
<1>1. CASE Uninstall
  BY <1>1 DEF Uninstall, SendStop, At, Go, None, Stopped, IInv, TypeOK, Sound, Holding,
     WholeFiles, Copying, InPlace, Unregistered, Startable
<1>2. CASE UninstallDelete
  BY <1>2 DEF UninstallDelete, At, Idle, None, DeleteEntry, Alive, IInv, TypeOK, Sound,
     Holding, WholeFiles, Copying, InPlace, Unregistered, Startable
<1> QED
  BY <1>1, <1>2

LEMMA AgentSound ==
    IInv /\ (Execute \/ Listen \/ ListenFail \/ Exit \/ ManagerStart \/ Crash) =>
       Sound'
<1> SUFFICES ASSUME IInv, Execute \/ Listen \/ ListenFail \/ Exit \/ ManagerStart \/
             Crash
             PROVE  Sound'
  OBVIOUS
<1> USE DEF disk, service, bounds
<1>1. CASE Execute
  BY <1>1 DEF Execute, None, IInv, TypeOK, Sound, Holding, WholeFiles, Copying, InPlace,
     Unregistered, Startable
<1>2. CASE Listen
  BY <1>2 DEF Listen, None, IInv, TypeOK, Sound, Holding, WholeFiles, Copying, InPlace,
     Unregistered, Startable
<1>3. CASE ListenFail
  BY <1>3 DEF ListenFail, None, ProcessEnds, IInv, TypeOK, Sound, Holding, WholeFiles,
     Copying, InPlace, Unregistered, Startable
<1>4. CASE Exit
  BY <1>4 DEF Exit, None, ProcessEnds, IInv, TypeOK, Sound, Holding, WholeFiles,
     Copying, InPlace, Unregistered, Startable
<1>5. CASE ManagerStart
  BY <1>5 DEF ManagerStart, None, StartProcess, IInv, TypeOK, Sound, Holding,
     WholeFiles, Copying, InPlace, Unregistered, Startable
<1>6. CASE Crash
  BY <1>6 DEF Crash, None, ProcessEnds, IInv, TypeOK, Sound, Holding, WholeFiles,
     Copying, InPlace, Unregistered, Startable
<1> QED
  BY <1>1, <1>2, <1>3, <1>4, <1>5, <1>6

LEMMA WorldSound ==
    IInv /\ (CloseConsole \/ IssueToken \/ ScanBegins \/ ScanEnds \/ Kill \/ Reboot)
       => Sound'
<1> SUFFICES ASSUME IInv, CloseConsole \/ IssueToken \/ ScanBegins \/ ScanEnds \/ Kill
             \/ Reboot
             PROVE  Sound'
  OBVIOUS
<1> USE DEF disk, service, bounds
<1>1. CASE CloseConsole
  BY <1>1 DEF CloseConsole, None, IInv, TypeOK, Sound, Holding, WholeFiles, Copying,
     InPlace, Unregistered, Startable
<1>2. CASE IssueToken
  BY <1>2 DEF IssueToken, At, None, IInv, TypeOK, Sound, Holding, WholeFiles, Copying,
     InPlace, Unregistered, Startable
<1>3. CASE ScanBegins
  BY <1>3 DEF ScanBegins, None, IInv, TypeOK, Sound, Holding, WholeFiles, Copying,
     InPlace, Unregistered, Startable
<1>4. CASE ScanEnds
  BY <1>4 DEF ScanEnds, None, IInv, TypeOK, Sound, Holding, WholeFiles, Copying,
     InPlace, Unregistered, Startable
<1>5. CASE Kill
  BY <1>5 DEF Kill, At, Fail, Idle, None, IInv, TypeOK, Sound, Holding, WholeFiles,
     Copying, InPlace, Unregistered, Startable
<1>6. CASE Reboot
  BY <1>6 DEF Reboot, At, Idle, None, IInv, TypeOK, Sound, Holding, WholeFiles, Copying,
     InPlace, Unregistered, Startable
<1> QED
  BY <1>1, <1>2, <1>3, <1>4, <1>5, <1>6

LEMMA StepIInv == IInv /\ [Next]_vars => IInv'
<1> SUFFICES ASSUME IInv, [Next]_vars PROVE IInv'
  OBVIOUS
<1>0. TypeOK /\ Holding
  BY DEF IInv, Sound
<1>1. TypeOK'
  <2>1. CASE UNCHANGED vars
    BY <1>0, <2>1 DEF vars, disk, service, bounds, TypeOK
  <2> QED
    BY <1>0, <2>1, BeforeTypeOK, CopyTypeOK, AfterTypeOK, UninstallTypeOK, AgentTypeOK,
       WorldTypeOK DEF Next, InstallStep, AgentStep
<1>2. Sound'
  <2>1. CASE AtRest \/ UNCHANGED vars
    BY <2>1 DEF AtRest, vars, disk, service, bounds, IInv, Sound, Holding, WholeFiles,
             Copying,
       InPlace, Unregistered, Startable
  <2> QED
    BY <2>1, BeforeSound, CopySound, AfterSound, UninstallSound, AgentSound, WorldSound
       DEF Next, InstallStep, AgentStep
<1> QED
  BY <1>1, <1>2 DEF IInv

LEMMA Invariance == Safety => []IInv
<1>1. Init => IInv
  BY InitIInv
<1>2. IInv /\ [Next]_vars => IInv'
  BY StepIInv
<1> QED
  BY <1>1, <1>2, PTL DEF Safety

-----------------------------------------------------------------------------
(* Where the installed executable may be missing.                            *)
(*                                                                           *)
(* Between its removal and the rename, and while the second copy runs with   *)
(* the old one set aside: without a scanner no failure happens in the first, *)
(* and the second ends in the rename or in the old name put back.            *)

Present ==
    scans = 0 /\ kills = 0 =>
        /\ scan = "none"
        /\ inst.pc = "restore" => inst.second # None
        /\ dest = None /\ "restore" \notin ignored => \/ inst.pc = "rename"
                          \/ /\ inst.pc \in {"create", "copy", "remove", "restore"}
                             /\ inst.second # None

LEMMA StepPresent == IInv /\ Present /\ [Next]_vars => Present'
<1> SUFFICES ASSUME IInv, Present, [Next]_vars, scans' = 0, kills' = 0 PROVE Present'
  BY DEF Present
<1> USE DEF disk, service, bounds
<1>0. /\ TypeOK /\ Holding /\ Copying
      /\ inst \in [pc : Steps, attempt : 1..MaxAttempts, second : 0..MaxFile]
      /\ scans \in Nat /\ kills \in Nat
  BY InstallerAssumption DEF IInv, Sound, TypeOK
<1>1. CASE scans = 0 /\ kills = 0
  <2>0. /\ scan = "none"
        /\ inst.pc = "restore" => inst.second # None
        /\ dest = None /\ "restore" \notin ignored =>
              \/ inst.pc = "rename"
              \/ /\ inst.pc \in {"create", "copy", "remove", "restore"}
                 /\ inst.second # None
    BY <1>1 DEF Present
  <2>1. CASE Begin \/ Prepare \/ OpenService \/ WaitStopped \/ DeleteService \/ Cleanup
    <3>1. /\ UNCHANGED <<dest, scan>> /\ (dest # None \/ "restore" \in ignored)
          /\ "restore" \in ignored => "restore" \in ignored'
      BY <2>0, <2>1 DEF Begin, Prepare, OpenService, WaitStopped, DeleteService, Cleanup, At
    <3>2. inst'.pc # "restore"
      BY <1>0, <2>1 DEF Begin, Prepare, OpenService, WaitStopped, DeleteService, Cleanup, Go,
         Fail, Idle
    <3> QED
      BY <2>0, <3>1, <3>2 DEF Present
  <2>2. CASE CopySkip
    BY <1>0, <2>0, <2>2 DEF CopySkip, Go, Present
  <2>3. CASE CreateTmp
    BY <1>0, <2>0, <2>3 DEF CreateTmp, At, Go, CopyFailed, Present
  <2>4. CASE CopyTmp
    BY <1>0, <2>0, <2>4 DEF CopyTmp, At, Go, CopyFailed, Present
  <2>5. CASE RemoveDest
    BY <1>0, <2>0, <2>5 DEF RemoveDest, At, Go, Present
  <2>6. CASE RenameOk
    BY <1>0, <2>0, <2>6 DEF RenameOk, At, Go, Holding, Files, None, Present
  <2>7. CASE RenameFail
    BY <1>0, <2>0, <2>7 DEF RenameFail, CanRename, Go, CopyFailed, Present
  <2>8. CASE SetAside
    <3>0. inst.pc = "aside" /\ UNCHANGED <<scan, ignored>>
      BY <2>8 DEF SetAside, At
    <3>1. CASE /\ dest # None /\ dest' = None
               /\ inst' = [inst EXCEPT !.pc = "create", !.second = dest]
      <4>1. inst'.pc = "create" /\ inst'.second # None
        BY <1>0, <3>1
      <4> QED
        BY <2>0, <3>0, <4>1 DEF Present
    <3>2. CASE Fail /\ UNCHANGED dest
      <4>1. inst'.pc = "idle" /\ (dest = None => "restore" \in ignored)
        BY <2>0, <3>0, <3>2 DEF Fail, Idle
      <4> QED
        BY <2>0, <3>0, <3>2, <4>1 DEF Present
    <3> QED
      BY <2>8, <3>1, <3>2 DEF SetAside
  <2>9. CASE Restore
    BY <1>0, <2>0, <2>9 DEF Restore, Fail, Idle, At, Present
  <2>10. CASE WriteEnv \/ FlushEnv \/ CreateService \/ SetRecoveryActions \/ StartService
    <3>1. /\ UNCHANGED <<dest, scan>> /\ (dest # None \/ "restore" \in ignored)
          /\ "restore" \in ignored => "restore" \in ignored'
      BY <2>0, <2>10 DEF WriteEnv, FlushEnv, CreateService, SetRecoveryActions, StartService, At
    <3>2. inst'.pc # "restore"
      BY <1>0, <2>10 DEF WriteEnv, FlushEnv, CreateService, SetRecoveryActions, StartService,
         Go, Fail, Idle
    <3> QED
      BY <2>0, <3>1, <3>2 DEF Present
  <2>11. CASE Uninstall \/ UninstallDelete
    <3>1. UNCHANGED <<dest, scan, ignored>> /\ (dest # None \/ "restore" \in ignored)
      BY <2>0, <2>11 DEF Uninstall, UninstallDelete, At
    <3>2. inst'.pc # "restore"
      BY <1>0, <2>11 DEF Uninstall, UninstallDelete, Go, Idle
    <3> QED
      BY <2>0, <3>1, <3>2 DEF Present
  <2>12. CASE \/ Execute \/ Listen \/ ListenFail \/ Exit \/ ManagerStart \/ Crash
              \/ CloseConsole \/ IssueToken \/ AtRest \/ UNCHANGED vars
    <3>1. UNCHANGED <<inst, dest, scan, ignored>>
      BY <2>12 DEF Execute, Listen, ListenFail, Exit, ManagerStart, Crash, CloseConsole,
         IssueToken, AtRest, vars
    <3> QED
      BY <2>0, <3>1 DEF Present
  <2>13. ~ScanBegins /\ ~ScanEnds
    BY <1>1, <2>0 DEF ScanBegins, ScanEnds
  <2>14. ~Kill /\ ~Reboot
    BY <1>1 DEF Kill, Reboot
  <2> QED
    BY <2>1, <2>2, <2>3, <2>4, <2>5, <2>6, <2>7, <2>8, <2>9, <2>10, <2>11, <2>12, <2>13, <2>14
       DEF Next, InstallStep, AgentStep
<1>2. scans' >= scans /\ kills' >= kills
  <2>1. CASE ScanBegins \/ Kill \/ Reboot
    BY <1>0, <2>1 DEF ScanBegins, Kill, Reboot
  <2>2. CASE \/ Begin \/ InstallStep \/ Uninstall \/ AgentStep \/ Crash \/ CloseConsole
             \/ IssueToken \/ ScanEnds \/ AtRest \/ UNCHANGED vars
    <3>1. UNCHANGED <<scans, kills>>
      BY <2>2 DEF Begin, Uninstall, Crash, CloseConsole, IssueToken, ScanEnds, AtRest, vars,
         InstallStep, Prepare, OpenService, WaitStopped, DeleteService, Cleanup, CopySkip,
         CreateTmp, CopyTmp, RemoveDest, RenameOk, RenameFail, SetAside, Restore, WriteEnv,
         FlushEnv, CreateService, SetRecoveryActions, StartService, UninstallDelete,
         AgentStep, Execute, Listen, ListenFail, Exit, ManagerStart
    <3> QED
      BY <1>0, <3>1
  <2> QED
    BY <2>1, <2>2 DEF Next
<1> QED
  BY <1>0, <1>1, <1>2

-----------------------------------------------------------------------------
(* The theorems. *)

\* Every reachable state is well typed; in particular nothing but a file that
\* copyFileSafe has created is ever called whole (install_windows.go 238-287).
THEOREM TypeCorrect == Safety => []TypeOK
<1>1. IInv => TypeOK
  BY DEF IInv
<1> QED
  BY <1>1, Invariance, PTL

\* At whatever step an installation fails or is interrupted, a service that can be
\* started has its executable and its agent.env whole, unless an ignored error has
\* left its entry there while they changed; and no process runs half an
\* executable (install_windows.go 93-118, 161-181, 262-281).
THEOREM StartableAlways == Safety => []RegisteredIsStartable
<1>1. IInv => RegisteredIsStartable
  BY DEF IInv, TypeOK, Sound, WholeFiles, Startable, RegisteredIsStartable
<1> QED
  BY <1>1, Invariance, PTL

\* No single failure of the installer's own steps costs the installed executable:
\* only a scanner, a kill or a reboot at the wrong moment may, or the failure to
\* rename back what was set aside, which is ignored
\* (install_windows.go 127-148, 267-285).
THEOREM ExecutableStays == Safety => []ExecutableKept
<1>1. Init => IInv /\ Present
  BY InitIInv DEF Init, Idle, None, Present
<1>2. IInv /\ Present /\ [Next]_vars => (IInv /\ Present)'
  BY StepIInv, StepPresent
<1>3. IInv /\ Present => ExecutableKept
  BY DEF IInv, Sound, WholeFiles, Present, ExecutableKept, At
<1> QED
  BY <1>1, <1>2, <1>3, PTL DEF Safety

=============================================================================
