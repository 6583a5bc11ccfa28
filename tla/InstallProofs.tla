---------------------------- MODULE InstallProofs ----------------------------
(***************************************************************************)
(* The installation pipeline for any number of attempts, names, deaths and *)
(* cancellations: its types, that a record says complete only of a bundle  *)
(* that is in the library, and that no two attempts produce one bundle.    *)
(***************************************************************************)
EXTENDS Install, TLAPS

(* Only attempts that were made have a process, a bundle or a sheet.       *)
MadeOnly ==
  /\ \A a \in Attempts : installer[a] # "none" => a <= attempts
  /\ \A a \in moved : a <= attempts
  /\ phase = "none" \/ sheet \in Attempts

(* A process that is past the move has moved its bundle, and only such a   *)
(* process has put its success into a log.                                 *)
SucceededMoved ==
  \A a \in Attempts :
    /\ installer[a] \in {"moved", "printed"} => a \in moved
    /\ "ok" \in log[a] => a \in moved

InstallInv ==
  /\ InstallTypeOK
  /\ MadeOnly
  /\ SucceededMoved
  /\ CompleteIsInstalled
  /\ OneBundlePerName

-----------------------------------------------------------------------------
LEMMA InstallInit == Init => InstallInv
  <1> SUFFICES ASSUME Init PROVE InstallInv
    OBVIOUS
  <1>0. jobLoaded \in BOOLEAN /\ jobFile \in BOOLEAN
    BY Zenon DEF Init
  <1>a. attempts \in 0 .. MaxAttempts /\ deaths \in 0 .. MaxDeaths /\ cancels \in 0 .. MaxCancels
    BY InstallAssumption DEF Init
  <1>b. log \in [Attempts -> SUBSET {"ok", "fail"}]
    BY DEF Init
  <1>1. InstallTypeOK
    BY <1>0, <1>a, <1>b DEF Init, InstallTypeOK
  <1>2. MadeOnly /\ SucceededMoved /\ CompleteIsInstalled /\ OneBundlePerName
    BY DEF Init, MadeOnly, SucceededMoved, CompleteIsInstalled, OneBundlePerName
  <1> QED
    BY <1>1, <1>2 DEF InstallInv

(* Types, by groups of actions.                                            *)
LEMMA UserType == InstallInv /\ User => InstallTypeOK'
  <1> SUFFICES ASSUME InstallInv, User PROVE InstallTypeOK'
    OBVIOUS
  <1> USE InstallAssumption DEF InstallInv, InstallTypeOK, Attempts, None, appVars, fileVars, usbVars
  <1>1. ASSUME NEW x \in Names, NameUsed(x) PROVE InstallTypeOK'
    BY <1>1 DEF NameUsed, CanInstall
  <1>2. ASSUME NEW x \in Names, SpawnFails(x) PROVE InstallTypeOK'
    BY <1>2 DEF SpawnFails, CanInstall
  <1>3. ASSUME NEW x \in Names, StartInstallation(x) PROVE InstallTypeOK'
    BY <1>3 DEF StartInstallation, CanInstall, LiveStates
  <1>4. CASE CancelInstallation
    BY <1>4 DEF CancelInstallation, MadeOnly
  <1>5. CASE CloseDialog
    BY <1>5 DEF CloseDialog
  <1>6. CASE DeleteAll
    BY <1>6 DEF DeleteAll, Removed
  <1> QED
    BY <1>1, <1>2, <1>3, <1>4, <1>5, <1>6 DEF User

LEMMA ProcessType ==
  ASSUME InstallInv, NEW a \in Attempts, Process(a)
  PROVE  InstallTypeOK'
  <1> USE DEF InstallInv, InstallTypeOK, appVars, fileVars, usbVars
  <1>1. CASE Fails(a)
    BY <1>1 DEF Fails, Printed, EndStates
  <1>2. CASE DisableJobs(a)
    BY <1>2 DEF DisableJobs, To, LiveStates
  <1>3. CASE StartMonitor(a)
    BY <1>3 DEF StartMonitor, To, LiveStates
  <1>4. CASE StartHelpers(a)
    BY <1>4 DEF StartHelpers, LiveStates, EndStates
  <1>5. CASE ExecInstaller(a)
    BY <1>5 DEF ExecInstaller, To, LiveStates
  <1>6. CASE MoveBundle(a)
    BY <1>6 DEF MoveBundle, To, LiveStates
  <1>7. CASE PrintSucceeded(a)
    BY <1>7 DEF PrintSucceeded, Printed, To, LiveStates
  <1>8. CASE Exits(a)
    BY <1>8 DEF Exits, To, EndStates
  <1> QED
    BY <1>1, <1>2, <1>3, <1>4, <1>5, <1>6, <1>7, <1>8 DEF Process

LEMMA OthersType ==
  ASSUME InstallInv, NEW a \in Attempts, WaiterReaps(a) \/ Watchers(a) \/ Canceller(a)
  PROVE  InstallTypeOK'
  <1> USE DEF InstallInv, InstallTypeOK, appVars, fileVars, usbVars
  <1>1. CASE WaiterReaps(a)
    BY <1>1 DEF WaiterReaps, Printed, WriteAttempt
  <1>2. CASE MonitorRestores(a)
    BY <1>2 DEF MonitorRestores
  <1>3. CASE CleanerKills(a)
    BY <1>3 DEF CleanerKills
  <1>4. CASE CancelSignals(a)
    BY <1>4 DEF CancelSignals, EndStates
  <1>5. CASE CancelRemoves(a)
    BY <1>5 DEF CancelRemoves, Removed
  <1> QED
    BY <1>1, <1>2, <1>3, <1>4, <1>5 DEF Watchers, Canceller

LEMMA AppType == InstallInv /\ (Timer \/ Relaunch \/ Deaths) => InstallTypeOK'
  <1> SUFFICES ASSUME InstallInv, Timer \/ Relaunch \/ Deaths PROVE InstallTypeOK'
    OBVIOUS
  <1> USE InstallAssumption DEF InstallInv, InstallTypeOK, appVars, fileVars, usbVars
  <1>1. CASE TimerSucceeded
    BY <1>1 DEF TimerSucceeded, WriteAttempt
  <1>2. CASE TimerFailed
    BY <1>2 DEF TimerFailed, WriteAttempt
  <1>3. CASE Dismissed
    BY <1>3 DEF Dismissed
  <1>4. CASE Relaunch
    BY <1>4 DEF Relaunch
  <1>5. CASE AppDies
    BY <1>5 DEF AppDies
  <1>6. ASSUME NEW a \in Attempts, InstallerDies(a) PROVE InstallTypeOK'
    BY <1>6 DEF InstallerDies, EndStates
  <1> QED
    BY <1>1, <1>2, <1>3, <1>4, <1>5, <1>6 DEF Timer, Deaths

-----------------------------------------------------------------------------
(* A step that starts no process and moves no bundle keeps MadeOnly and    *)
(* OneBundlePerName; what remains is who may add to log, record and moved. *)
LEMMA StepMadeOnly == InstallInv /\ [Next]_vars => MadeOnly'
  <1> SUFFICES ASSUME InstallInv, [Next]_vars PROVE MadeOnly'
    OBVIOUS
  <1> USE InstallAssumption DEF InstallInv, InstallTypeOK, MadeOnly, Attempts, None, appVars,
          fileVars, usbVars
  <1>1. CASE User
    <2>1. ASSUME NEW x \in Names, NameUsed(x) \/ SpawnFails(x) PROVE MadeOnly'
      <3>1. attempts' = attempts + 1 /\ UNCHANGED <<moved, installer, phase, sheet>>
        BY <2>1 DEF NameUsed, SpawnFails
      <3> QED
        BY <3>1
    <2>2. ASSUME NEW x \in Names, StartInstallation(x) PROVE MadeOnly'
      <3>1. attempts' = attempts + 1 /\ sheet' \in Attempts /\ UNCHANGED moved
        BY <2>2 DEF StartInstallation, CanInstall
      <3>2. installer' = [installer EXCEPT ![attempts + 1] = "launched"]
        BY <2>2 DEF StartInstallation
      <3> QED
        BY <3>1, <3>2
    <2>3. CASE CancelInstallation \/ CloseDialog \/ DeleteAll
      BY <2>3 DEF CancelInstallation, CloseDialog, DeleteAll
    <2> QED
      BY <1>1, <2>1, <2>2, <2>3 DEF User
  <1>2. ASSUME NEW a \in Attempts, Process(a) PROVE MadeOnly'
    <2>1. installer[a] # "none"
      BY <1>2 DEF Process, Fails, DisableJobs, StartMonitor, StartHelpers, ExecInstaller,
         MoveBundle, PrintSucceeded, Exits, To
    <2>2. /\ moved' \subseteq moved \union {a}
          /\ UNCHANGED <<attempts, phase, sheet>>
      BY <1>2 DEF Process, Fails, DisableJobs, StartMonitor, StartHelpers, ExecInstaller,
         MoveBundle, PrintSucceeded, Exits
    <2>3. \A b \in Attempts : installer'[b] # "none" => b = a \/ installer[b] # "none"
      BY <1>2 DEF Process, Fails, DisableJobs, StartMonitor, StartHelpers, ExecInstaller,
         MoveBundle, PrintSucceeded, Exits, To, IsMacos
    <2> QED
      BY <2>1, <2>2, <2>3
  <1>3. ASSUME NEW a \in Attempts, WaiterReaps(a) \/ Watchers(a) \/ Canceller(a)
        PROVE  MadeOnly'
    <2>1. CASE CancelSignals(a)
      BY <2>1 DEF CancelSignals, Live, LiveStates
    <2>2. CASE WaiterReaps(a) \/ Watchers(a) \/ CancelRemoves(a)
      <3>1. UNCHANGED <<attempts, moved, installer, phase, sheet>>
        BY <2>2 DEF WaiterReaps, Watchers, MonitorRestores, CleanerKills, CancelRemoves
      <3> QED
        BY <3>1
    <2> QED
      BY <1>3, <2>1, <2>2 DEF Canceller
  <1>4. CASE Timer \/ Relaunch
    BY <1>4 DEF Timer, TimerSucceeded, TimerFailed, Dismissed, Relaunch
  <1>5. CASE Deaths
    <2>1. CASE AppDies
      BY <2>1 DEF AppDies
    <2>2. ASSUME NEW a \in Attempts, InstallerDies(a) PROVE MadeOnly'
      BY <2>2 DEF InstallerDies, Live, LiveStates
    <2> QED
      BY <1>5, <2>1, <2>2 DEF Deaths
  <1>6. CASE UNCHANGED vars
    BY <1>6 DEF vars
  <1> QED
    BY <1>1, <1>2, <1>3, <1>4, <1>5, <1>6 DEF Next

(* Only MoveBundle adds to moved, and it looks at the name.                *)
LEMMA StepOneBundle == InstallInv /\ [Next]_vars => OneBundlePerName'
  <1> SUFFICES ASSUME InstallInv, [Next]_vars PROVE OneBundlePerName'
    OBVIOUS
  <1> USE DEF InstallInv, OneBundlePerName, appVars, fileVars, usbVars
  <1>1. CASE User
    <2>1. ASSUME NEW x \in Names, NameUsed(x) \/ SpawnFails(x) \/ StartInstallation(x)
          PROVE  OneBundlePerName'
      <3>1. moved' = moved /\ name' = [name EXCEPT ![attempts + 1] = x]
        BY <2>1 DEF NameUsed, SpawnFails, StartInstallation
      <3>2. \A a \in moved : name'[a] = name[a]
        BY <3>1 DEF MadeOnly, InstallTypeOK, Attempts
      <3> QED
        BY <3>1, <3>2
    <2>2. CASE CancelInstallation \/ CloseDialog \/ DeleteAll
      BY <2>2 DEF CancelInstallation, CloseDialog, DeleteAll
    <2> QED
      BY <1>1, <2>1, <2>2 DEF User
  <1>2. ASSUME NEW a \in Attempts, MoveBundle(a) PROVE OneBundlePerName'
    BY <1>2 DEF MoveBundle, BundleNames
  <1>3. ASSUME NEW a \in Attempts, Process(a), ~MoveBundle(a) PROVE UNCHANGED <<moved, name>>
    BY <1>3 DEF Process, Fails, DisableJobs, StartMonitor, StartHelpers, ExecInstaller,
       PrintSucceeded, Exits
  <1>4. ASSUME NEW a \in Attempts, WaiterReaps(a) \/ Watchers(a) \/ Canceller(a)
        PROVE  UNCHANGED <<moved, name>>
    BY <1>4 DEF WaiterReaps, Watchers, MonitorRestores, CleanerKills, Canceller, CancelSignals,
       CancelRemoves
  <1>5. CASE Timer \/ Relaunch \/ Deaths
    BY <1>5 DEF Timer, TimerSucceeded, TimerFailed, Dismissed, Relaunch, Deaths, AppDies,
       InstallerDies
  <1>6. CASE UNCHANGED vars
    BY <1>6 DEF vars
  <1> QED
    BY <1>1, <1>2, <1>3, <1>4, <1>5, <1>6 DEF Next

(* Success reaches a log only from a process past the move, and moved only *)
(* grows.                                                                  *)
LEMMA StepSucceeded == InstallInv /\ [Next]_vars => SucceededMoved'
  <1> SUFFICES ASSUME InstallInv, [Next]_vars PROVE SucceededMoved'
    OBVIOUS
  <1> USE DEF InstallInv, InstallTypeOK, SucceededMoved, appVars, fileVars, usbVars
  <1>1. CASE User
    <2>1. ASSUME NEW x \in Names, NameUsed(x) \/ SpawnFails(x) PROVE SucceededMoved'
      BY <2>1 DEF NameUsed, SpawnFails
    <2>2. ASSUME NEW x \in Names, StartInstallation(x) PROVE SucceededMoved'
      <3>1. UNCHANGED <<moved, log>> /\ installer' = [installer EXCEPT ![attempts + 1] = "launched"]
        BY <2>2 DEF StartInstallation
      <3> QED
        BY <3>1
    <2>3. CASE CancelInstallation \/ CloseDialog
      BY <2>3 DEF CancelInstallation, CloseDialog
    <2>4. CASE DeleteAll
      BY <2>4 DEF DeleteAll, Removed
    <2> QED
      BY <1>1, <2>1, <2>2, <2>3, <2>4 DEF User
  <1>2. ASSUME NEW a \in Attempts, Process(a) PROVE SucceededMoved'
    <2>1. CASE Fails(a)
      BY <2>1 DEF Fails, Printed
    <2>2. CASE DisableJobs(a) \/ StartMonitor(a) \/ ExecInstaller(a) \/ Exits(a)
      BY <2>2 DEF DisableJobs, StartMonitor, ExecInstaller, Exits, To
    <2>3. CASE StartHelpers(a)
      BY <2>3 DEF StartHelpers
    <2>4. CASE MoveBundle(a)
      BY <2>4 DEF MoveBundle, To
    <2>5. CASE PrintSucceeded(a)
      BY <2>5 DEF PrintSucceeded, Printed, To
    <2> QED
      BY <1>2, <2>1, <2>2, <2>3, <2>4, <2>5 DEF Process
  <1>3. ASSUME NEW a \in Attempts, WaiterReaps(a) \/ Watchers(a) \/ Canceller(a)
        PROVE  SucceededMoved'
    <2>1. CASE WaiterReaps(a)
      BY <2>1 DEF WaiterReaps, Printed
    <2>2. CASE Watchers(a)
      BY <2>2 DEF Watchers, MonitorRestores, CleanerKills
    <2>3. CASE CancelSignals(a)
      BY <2>3 DEF CancelSignals
    <2>4. CASE CancelRemoves(a)
      BY <2>4 DEF CancelRemoves, Removed
    <2> QED
      BY <1>3, <2>1, <2>2, <2>3, <2>4 DEF Canceller
  <1>4. CASE Timer \/ Relaunch
    BY <1>4 DEF Timer, TimerSucceeded, TimerFailed, Dismissed, Relaunch
  <1>5. CASE Deaths
    <2>1. CASE AppDies
      BY <2>1 DEF AppDies
    <2>2. ASSUME NEW a \in Attempts, InstallerDies(a) PROVE SucceededMoved'
      BY <2>2 DEF InstallerDies
    <2> QED
      BY <1>5, <2>1, <2>2 DEF Deaths
  <1>6. CASE UNCHANGED vars
    BY <1>6 DEF vars
  <1> QED
    BY <1>1, <1>2, <1>3, <1>4, <1>5, <1>6 DEF Next

(* Only the timer writes "complete", and only after it read a success.     *)
LEMMA StepComplete == InstallInv /\ [Next]_vars => CompleteIsInstalled'
  <1> SUFFICES ASSUME InstallInv, [Next]_vars PROVE CompleteIsInstalled'
    OBVIOUS
  <1> USE DEF InstallInv, InstallTypeOK, CompleteIsInstalled, appVars, fileVars, usbVars
  <1>1. CASE User
    <2>1. ASSUME NEW x \in Names, NameUsed(x) PROVE CompleteIsInstalled'
      BY <2>1 DEF NameUsed
    <2>2. ASSUME NEW x \in Names, SpawnFails(x) \/ StartInstallation(x)
          PROVE  CompleteIsInstalled'
      BY <2>2 DEF SpawnFails, StartInstallation
    <2>3. CASE CancelInstallation \/ CloseDialog
      BY <2>3 DEF CancelInstallation, CloseDialog
    <2>4. CASE DeleteAll
      BY <2>4 DEF DeleteAll, Removed
    <2> QED
      BY <1>1, <2>1, <2>2, <2>3, <2>4 DEF User
  <1>2. ASSUME NEW a \in Attempts, Process(a) PROVE CompleteIsInstalled'
    <2>1. record' = record /\ moved \subseteq moved'
      BY <1>2 DEF Process, Fails, DisableJobs, StartMonitor, StartHelpers, ExecInstaller,
         MoveBundle, PrintSucceeded, Exits
    <2> QED
      BY <2>1
  <1>3. ASSUME NEW a \in Attempts, WaiterReaps(a) \/ Watchers(a) \/ Canceller(a)
        PROVE  CompleteIsInstalled'
    <2>1. CASE WaiterReaps(a)
      BY <2>1 DEF WaiterReaps, WriteAttempt
    <2>2. CASE Watchers(a) \/ CancelSignals(a)
      BY <2>2 DEF Watchers, MonitorRestores, CleanerKills, CancelSignals
    <2>3. CASE CancelRemoves(a)
      BY <2>3 DEF CancelRemoves, Removed
    <2> QED
      BY <1>3, <2>1, <2>2, <2>3 DEF Canceller
  <1>4. CASE TimerSucceeded
    <2>1. sheet \in moved
      BY <1>4 DEF TimerSucceeded, MadeOnly, SucceededMoved
    <2> QED
      BY <1>4, <2>1 DEF TimerSucceeded, WriteAttempt
  <1>5. CASE TimerFailed
    BY <1>5 DEF TimerFailed, WriteAttempt
  <1>6. CASE Dismissed \/ Relaunch \/ Deaths
    BY <1>6 DEF Dismissed, Relaunch, Deaths, AppDies, InstallerDies
  <1>7. CASE UNCHANGED vars
    BY <1>7 DEF vars
  <1> QED
    BY <1>1, <1>2, <1>3, <1>4, <1>5, <1>6, <1>7 DEF Next, Timer

-----------------------------------------------------------------------------
(* The invariant for every number of attempts, names, deaths and           *)
(* cancellations: every action of the application, the script, the         *)
(* installer and the watchers keeps it.                                    *)
THEOREM InstallInvariant == Spec => []InstallInv
  <1>1. InstallInv /\ [Next]_vars => InstallTypeOK'
    <2> SUFFICES ASSUME InstallInv, [Next]_vars PROVE InstallTypeOK'
      OBVIOUS
    <2>1. CASE UNCHANGED vars
      BY <2>1 DEF vars, appVars, fileVars, usbVars, InstallInv, InstallTypeOK
    <2> QED
      BY <2>1, UserType, ProcessType, OthersType, AppType DEF Next
  <1>2. InstallInv /\ [Next]_vars => InstallInv'
    BY <1>1, StepMadeOnly, StepSucceeded, StepComplete, StepOneBundle DEF InstallInv
  <1> QED
    BY <1>2, InstallInit, PTL DEF Spec

(* The state of application, files and processes keeps its types.          *)
THEOREM InstallTypeSafe == Spec => []InstallTypeOK
  <1>1. InstallInv => InstallTypeOK
    BY DEF InstallInv
  <1> QED
    BY <1>1, InstallInvariant, PTL

(* A record of VZWriteInstallationAttempt that says complete is true.      *)
THEOREM CompleteSafe == Spec => []CompleteIsInstalled
  <1>1. InstallInv => CompleteIsInstalled
    BY DEF InstallInv
  <1> QED
    BY <1>1, InstallInvariant, PTL

(* The move at the end of StartInstall never meets a bundle of that name,  *)
(* although an installer may outlive the application that started it.      *)
THEOREM OneBundleSafe == Spec => []OneBundlePerName
  <1>1. InstallInv => OneBundlePerName
    BY DEF InstallInv
  <1> QED
    BY <1>1, InstallInvariant, PTL
=============================================================================
