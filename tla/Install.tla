------------------------------- MODULE Install -------------------------------
(***************************************************************************)
(* The installation of a Virtual Mac: the application's sheet, timer and   *)
(* waiter thread (VirtualMacApp.m), the setuid launcher                    *)
(* (install_launcher.c), the script that prepares the USB helpers          *)
(* (start-install.sh), the installer it becomes (install_macos.m), and the *)
(* watchers the script leaves behind.                                      *)
(*                                                                         *)
(* Launcher, script and installer are one process, the leader of a process *)
(* group that also holds the script's watchers and usbmuxd.  They outlive  *)
(* the application.  The processes share only files: the attempt's         *)
(* directory with its log and its record, the bundle, and the files in     *)
(* /tmp the watchers read.                                                 *)
(*                                                                         *)
(* External: the framework's installation itself, launchd's third-party    *)
(* usbmuxd job, and the death of a process.  A dismissal animation is      *)
(* longer than the cancel launcher needs to send its signal.               *)
(***************************************************************************)
EXTENDS Naturals

CONSTANTS Names,       \* names a Virtual Mac can be given
          NoName,
          MaxAttempts, \* bound: installations started
          MaxDeaths,   \* bound: deaths of the application or an installer
          MaxCancels   \* bound: installations the user cancels

ASSUME InstallAssumption ==
  /\ NoName \notin Names
  /\ MaxAttempts \in Nat \ {0}
  /\ MaxDeaths \in Nat
  /\ MaxCancels \in Nat

VARIABLES
  app,       \* "up" or "down"
  sheet,     \* the attempt of installationController, or None
  phase,     \* of the sheet: "none", "open" (timer valid), "closing", "cancelling"
  listed,    \* attempts the "Incomplete Installation" dialog names
  attempts,  \* attempts so far
  name,      \* the name each attempt installs
  dir,       \* its directory: "none", "present" or "removed"
  record,    \* State in its Attempt.plist
  log,       \* the verdicts its log holds
  installer, \* where its launcher, script or installer process is
  waiter,    \* the application's thread in waitpid
  moved,     \* attempts whose staging became the final bundle
  canceller, \* its --cancel-install process
  jobLoaded, \* the third-party usbmuxd job runs
  jobFile,   \* /tmp/virtualmac-third-party-usbmuxd.jobs names it
  monitors,  \* attempts whose job monitor runs
  helper,    \* the attempt whose usbmuxd runs, or None
  cleaners,  \* attempts whose helper watcher runs
  deaths, cancels

appVars  == <<app, sheet, phase, listed>>
fileVars == <<attempts, name, dir, record, log>>
usbVars  == <<jobLoaded, jobFile, monitors, helper, cleaners>>
vars     == <<appVars, fileVars, installer, waiter, moved, canceller, usbVars, deaths, cancels>>

Attempts == 1 .. MaxAttempts
None     == 0

\* The process: launched, usbmuxd job booted out, its monitor started, helpers
\* started, exec'd install-macos, bundle moved, verdict printed; then its end.
LiveStates == {"launched", "disabled", "cleared", "helped", "installing", "moved", "printed"}
EndStates  == {"exit0", "exit1", "killed"}

Live(a)      == installer[a] \in LiveStates
\* killall finds the process under this name.
IsMacos(a)   == installer[a] \in {"installing", "moved", "printed"}
Present(a)   == dir[a] = "present"
\* kill -0 succeeds for a zombie, so until the application reaps it.
Exists(a)    == Live(a) \/ waiter[a] = "waiting"
BundleNames  == {name[a] : a \in moved}

Init ==
  /\ app = "up" /\ sheet = None /\ phase = "none" /\ listed = {}
  /\ attempts = 0
  /\ name = [a \in Attempts |-> NoName]
  /\ dir = [a \in Attempts |-> "none"]
  /\ record = [a \in Attempts |-> "none"]
  /\ log = [a \in Attempts |-> {}]
  /\ installer = [a \in Attempts |-> "none"]
  /\ waiter = [a \in Attempts |-> "none"]
  /\ moved = {}
  /\ canceller = [a \in Attempts |-> "none"]
  /\ jobLoaded = TRUE /\ jobFile = FALSE /\ monitors = {}
  /\ helper = None /\ cleaners = {}
  /\ deaths = 0 /\ cancels = 0

\* A verdict reaches whoever opens the log by its path.
Printed(a, verdicts) == [log EXCEPT ![a] = IF Present(a) THEN @ \union verdicts ELSE @]

\* VZWriteInstallationAttempt creates no directory: without one it writes nothing.
WriteAttempt(a, state) == record' = [record EXCEPT ![a] = IF Present(a) THEN state ELSE @]

-----------------------------------------------------------------------------
(* installRestoreImageAtURL: on the main thread.                           *)

CanInstall == app = "up" /\ sheet = None /\ listed = {} /\ attempts < MaxAttempts

\* "Name Already Used": the directory is made before the test.
NameUsed(x) ==
  /\ CanInstall
  /\ x \in BundleNames
  /\ attempts' = attempts + 1
  /\ name' = [name EXCEPT ![attempts + 1] = x]
  /\ dir' = [dir EXCEPT ![attempts + 1] = "present"]
  /\ UNCHANGED <<appVars, record, log, installer, waiter, moved, canceller, usbVars,
                 deaths, cancels>>

SpawnFails(x) ==
  /\ CanInstall
  /\ x \notin BundleNames
  /\ attempts' = attempts + 1
  /\ name' = [name EXCEPT ![attempts + 1] = x]
  /\ dir' = [dir EXCEPT ![attempts + 1] = "present"]
  /\ record' = [record EXCEPT ![attempts + 1] = "failed"]
  /\ UNCHANGED <<appVars, log, installer, waiter, moved, canceller, usbVars, deaths, cancels>>

StartInstallation(x) ==
  /\ CanInstall
  /\ x \notin BundleNames
  /\ attempts' = attempts + 1
  /\ name' = [name EXCEPT ![attempts + 1] = x]
  /\ dir' = [dir EXCEPT ![attempts + 1] = "present"]
  /\ record' = [record EXCEPT ![attempts + 1] = "installing"]
  /\ installer' = [installer EXCEPT ![attempts + 1] = "launched"]
  /\ waiter' = [waiter EXCEPT ![attempts + 1] = "waiting"]
  /\ sheet' = attempts + 1 /\ phase' = "open"
  /\ UNCHANGED <<app, listed, log, moved, canceller, usbVars, deaths, cancels>>

-----------------------------------------------------------------------------
(* The launcher, the script and the installer.                             *)

To(a, from, to) ==
  /\ installer[a] = from
  /\ installer' = [installer EXCEPT ![a] = to]

\* The process ends with an error: most paths print a verdict, some only exit.
Fails(a) ==
  /\ installer[a] \in {"launched", "disabled", "cleared", "helped", "installing"}
  /\ installer' = [installer EXCEPT ![a] = "exit1"]
  /\ \/ log' = Printed(a, {"fail"})
     \/ log' = log
  /\ UNCHANGED <<appVars, attempts, name, dir, record, waiter, moved, canceller, usbVars,
                 deaths, cancels>>

\* The job file is truncated; a loaded job is booted out and noted.  Fails then
\* stands for a second job that cannot be booted out.
DisableJobs(a) ==
  /\ To(a, "launched", "disabled")
  /\ name[a] \notin BundleNames
  /\ jobLoaded' = FALSE
  /\ jobFile' = jobLoaded
  /\ UNCHANGED <<appVars, fileVars, waiter, moved, canceller, monitors, helper, cleaners,
                 deaths, cancels>>

StartMonitor(a) ==
  /\ To(a, "disabled", "cleared")
  /\ monitors' = IF jobFile THEN monitors \union {a} ELSE monitors
  /\ UNCHANGED <<appVars, fileVars, waiter, moved, canceller, jobLoaded, jobFile, helper,
                 cleaners, deaths, cancels>>

\* Mutant: the watcher that owns the helper is not started.
StartHelpersUnwatched(a) ==
  /\ installer[a] = "cleared"
  /\ installer' = [b \in Attempts |->
                     IF b = a THEN "helped" ELSE IF IsMacos(b) THEN "killed" ELSE installer[b]]
  /\ helper' = a
  /\ UNCHANGED <<appVars, fileVars, waiter, moved, canceller, jobLoaded, jobFile, monitors,
                 cleaners, deaths, cancels>>

\* Every install-macos and usbmuxd is killed, then this attempt's usbmuxd and
\* its watcher start.
StartHelpers(a) ==
  /\ installer[a] = "cleared"
  /\ installer' = [b \in Attempts |->
                     IF b = a THEN "helped" ELSE IF IsMacos(b) THEN "killed" ELSE installer[b]]
  /\ helper' = a
  /\ cleaners' = cleaners \union {a}
  /\ UNCHANGED <<appVars, fileVars, waiter, moved, canceller, jobLoaded, jobFile, monitors,
                 deaths, cancels>>

ExecInstaller(a) ==
  /\ To(a, "helped", "installing")
  /\ name[a] \notin BundleNames
  /\ UNCHANGED <<appVars, fileVars, waiter, moved, canceller, usbVars, deaths, cancels>>

\* Mutant: the move replaces whatever is at the final path.
MoveBundleOver(a) ==
  /\ To(a, "installing", "moved")
  /\ Present(a)
  /\ moved' = moved \union {a}
  /\ UNCHANGED <<appVars, fileVars, waiter, canceller, usbVars, deaths, cancels>>

\* Mutant: success is reported although the move failed.
MoveBundleUnchecked(a) ==
  /\ To(a, "installing", "moved")
  /\ moved' = IF Present(a) /\ name[a] \notin BundleNames THEN moved \union {a} ELSE moved
  /\ UNCHANGED <<appVars, fileVars, waiter, canceller, usbVars, deaths, cancels>>

\* The framework's installation succeeded; staging moves to the final path.
MoveBundle(a) ==
  /\ To(a, "installing", "moved")
  /\ Present(a)
  /\ name[a] \notin BundleNames
  /\ moved' = moved \union {a}
  /\ UNCHANGED <<appVars, fileVars, waiter, canceller, usbVars, deaths, cancels>>

PrintSucceeded(a) ==
  /\ To(a, "moved", "printed")
  /\ log' = Printed(a, {"ok"})
  /\ UNCHANGED <<appVars, attempts, name, dir, record, waiter, moved, canceller, usbVars,
                 deaths, cancels>>

Exits(a) ==
  /\ To(a, "printed", "exit0")
  /\ UNCHANGED <<appVars, fileVars, waiter, moved, canceller, usbVars, deaths, cancels>>

\* The system kills the process, for memory.
InstallerDies(a) ==
  /\ Live(a) /\ deaths < MaxDeaths
  /\ deaths' = deaths + 1
  /\ installer' = [installer EXCEPT ![a] = "killed"]
  /\ UNCHANGED <<appVars, fileVars, waiter, moved, canceller, usbVars, cancels>>

-----------------------------------------------------------------------------
(* The script's watchers poll for the end of the process.                  *)

MonitorRestores(a) ==
  /\ a \in monitors /\ ~Exists(a)
  /\ monitors' = monitors \ {a}
  /\ jobLoaded' = (jobLoaded \/ jobFile)
  /\ jobFile' = FALSE
  /\ UNCHANGED <<appVars, fileVars, installer, waiter, moved, canceller, helper, cleaners,
                 deaths, cancels>>

\* The process in the pid file is killed, whoever wrote it.
CleanerKills(a) ==
  /\ a \in cleaners /\ ~Exists(a)
  /\ cleaners' = cleaners \ {a}
  /\ helper' = None
  /\ UNCHANGED <<appVars, fileVars, installer, waiter, moved, canceller, jobLoaded, jobFile,
                 monitors, deaths, cancels>>

-----------------------------------------------------------------------------
(* The application again: the waiter thread, the 1 s timer, cancelling.    *)

\* Mutant: only the record is written, so the timer never sees the failure.
WaiterReapsSilently(a) ==
  /\ waiter[a] = "waiting" /\ installer[a] \in EndStates
  /\ waiter' = [waiter EXCEPT ![a] = "done"]
  /\ \/ installer[a] = "exit0" /\ UNCHANGED record
     \/ installer[a] # "exit0" /\ WriteAttempt(a, "failed")
  /\ UNCHANGED <<appVars, attempts, name, dir, log, installer, moved, canceller, usbVars,
                 deaths, cancels>>

WaiterReaps(a) ==
  /\ waiter[a] = "waiting" /\ installer[a] \in EndStates
  /\ waiter' = [waiter EXCEPT ![a] = "done"]
  /\ \/ installer[a] = "exit0" /\ UNCHANGED <<log, record>>
     \/ /\ installer[a] # "exit0"
        /\ log' = Printed(a, {"fail"})
        /\ WriteAttempt(a, "failed")
  /\ UNCHANGED <<appVars, attempts, name, dir, installer, moved, canceller, usbVars,
                 deaths, cancels>>

TimerSucceeded ==
  /\ phase = "open" /\ "ok" \in log[sheet]
  /\ WriteAttempt(sheet, "complete")
  /\ phase' = "closing"
  /\ UNCHANGED <<app, sheet, listed, attempts, name, dir, log, installer, waiter, moved,
                 canceller, usbVars, deaths, cancels>>

TimerFailed ==
  /\ phase = "open" /\ "ok" \notin log[sheet] /\ "fail" \in log[sheet]
  /\ WriteAttempt(sheet, "failed")
  /\ phase' = "closing"
  /\ UNCHANGED <<app, sheet, listed, attempts, name, dir, log, installer, waiter, moved,
                 canceller, usbVars, deaths, cancels>>

CancelInstallation ==
  /\ phase = "open" /\ cancels < MaxCancels
  /\ cancels' = cancels + 1
  /\ canceller' = [canceller EXCEPT ![sheet] = "spawned"]
  /\ phase' = "cancelling"
  /\ UNCHANGED <<app, sheet, listed, fileVars, installer, waiter, moved, usbVars, deaths>>

Dismissed ==
  /\ \/ phase = "closing"
     \/ phase = "cancelling" /\ canceller[sheet] # "spawned"
  /\ sheet' = None /\ phase' = "none"
  /\ UNCHANGED <<app, listed, fileVars, installer, waiter, moved, canceller, usbVars,
                 deaths, cancels>>

\* kill(-process, SIGTERM): the process and everything the script left running.
CancelSignals(a) ==
  /\ canceller[a] = "spawned"
  /\ canceller' = [canceller EXCEPT ![a] = "signalled"]
  /\ installer' = [installer EXCEPT ![a] = IF Live(a) THEN "killed" ELSE @]
  /\ monitors' = monitors \ {a}
  /\ cleaners' = cleaners \ {a}
  /\ helper' = IF helper = a THEN None ELSE helper
  /\ UNCHANGED <<appVars, fileVars, waiter, moved, jobLoaded, jobFile, deaths, cancels>>

\* Half a second later it becomes rm -rf.
Removed(paths) ==
  /\ dir' = [a \in Attempts |-> IF a \in paths THEN "removed" ELSE dir[a]]
  /\ record' = [a \in Attempts |-> IF a \in paths THEN "none" ELSE record[a]]
  /\ log' = [a \in Attempts |-> IF a \in paths THEN {} ELSE log[a]]

CancelRemoves(a) ==
  /\ canceller[a] = "signalled"
  /\ canceller' = [canceller EXCEPT ![a] = "done"]
  /\ Removed({a})
  /\ UNCHANGED <<appVars, attempts, name, installer, waiter, moved, usbVars, deaths, cancels>>

-----------------------------------------------------------------------------
(* The application dies and comes back.                                    *)

AppDies ==
  /\ app = "up" /\ deaths < MaxDeaths
  /\ deaths' = deaths + 1
  /\ app' = "down" /\ sheet' = None /\ phase' = "none" /\ listed' = {}
  /\ waiter' = [a \in Attempts |-> IF waiter[a] = "waiting" THEN "done" ELSE waiter[a]]
  /\ UNCHANGED <<fileVars, installer, moved, canceller, usbVars, cancels>>

\* The first presentVMLibrary of a launch lists the attempts left unfinished.
Relaunch ==
  /\ app = "down"
  /\ app' = "up"
  /\ listed' = {a \in Attempts : Present(a) /\ record[a] \in {"installing", "failed"}}
  /\ UNCHANGED <<sheet, phase, fileVars, installer, waiter, moved, canceller, usbVars,
                 deaths, cancels>>

CloseDialog ==
  /\ listed # {}
  /\ listed' = {}
  /\ UNCHANGED <<app, sheet, phase, fileVars, installer, waiter, moved, canceller, usbVars,
                 deaths, cancels>>

DeleteAll ==
  /\ listed # {}
  /\ Removed(listed)
  /\ listed' = {}
  /\ UNCHANGED <<app, sheet, phase, attempts, name, installer, waiter, moved, canceller,
                 usbVars, deaths, cancels>>

-----------------------------------------------------------------------------
User == \/ \E x \in Names : NameUsed(x) \/ SpawnFails(x) \/ StartInstallation(x)
        \/ CancelInstallation \/ CloseDialog \/ DeleteAll

Process(a) == \/ Fails(a) \/ DisableJobs(a) \/ StartMonitor(a) \/ StartHelpers(a) \/ ExecInstaller(a)
              \/ MoveBundle(a) \/ PrintSucceeded(a) \/ Exits(a)

Watchers(a) == MonitorRestores(a) \/ CleanerKills(a)
Canceller(a) == CancelSignals(a) \/ CancelRemoves(a)
Timer == TimerSucceeded \/ TimerFailed \/ Dismissed
Deaths == AppDies \/ \E a \in Attempts : InstallerDies(a)

Next ==
  \/ User \/ Timer \/ Relaunch \/ Deaths
  \/ \E a \in Attempts : Process(a) \/ WaiterReaps(a) \/ Watchers(a) \/ Canceller(a)

Spec == Init /\ [][Next]_vars

\* Processes and threads run, the timer fires, and an installation ends one way
\* or the other.  Nothing obliges the user to act, the application to come back
\* or anything to die.
FairSpec ==
  /\ Spec
  /\ WF_vars(Timer)
  /\ \A a \in Attempts :
       /\ WF_vars(Process(a)) /\ WF_vars(WaiterReaps(a)) /\ WF_vars(Canceller(a))
       /\ WF_vars(MonitorRestores(a)) /\ WF_vars(CleanerKills(a))

-----------------------------------------------------------------------------
(* Properties.                                                             *)

\* Types of the application's, the files' and the processes' state.
InstallTypeOK ==
  /\ app \in {"up", "down"}
  /\ sheet \in Attempts \union {None}
  /\ phase \in {"none", "open", "closing", "cancelling"}
  /\ listed \subseteq Attempts
  /\ attempts \in 0 .. MaxAttempts
  /\ name \in [Attempts -> Names \union {NoName}]
  /\ dir \in [Attempts -> {"none", "present", "removed"}]
  /\ record \in [Attempts -> {"none", "installing", "complete", "failed"}]
  /\ log \in [Attempts -> SUBSET {"ok", "fail"}]
  /\ installer \in [Attempts -> {"none"} \union LiveStates \union EndStates]
  /\ waiter \in [Attempts -> {"none", "waiting", "done"}]
  /\ moved \subseteq Attempts
  /\ canceller \in [Attempts -> {"none", "spawned", "signalled", "done"}]
  /\ jobLoaded \in BOOLEAN /\ jobFile \in BOOLEAN
  /\ monitors \subseteq Attempts /\ cleaners \subseteq Attempts
  /\ helper \in Attempts \union {None}
  /\ deaths \in 0 .. MaxDeaths /\ cancels \in 0 .. MaxCancels

\* VZWriteInstallationAttempt's record says complete only of an attempt whose
\* bundle is in the library, whichever of timer, waiter and canceller wrote last.
CompleteIsInstalled == \A a \in Attempts : record[a] = "complete" => a \in moved

\* No two attempts produce the same bundle, although the name is tested long
\* before it is used and an earlier installer may still run.
OneBundlePerName == \A a, b \in moved : name[a] = name[b] => a = b

\* The sheet the user cannot dismiss (modalInPresentation) goes away, however the
\* process ends: a verdict always reaches the log the timer reads.
SheetEnds == sheet # None ~> sheet = None

\* The script's usbmuxd does not outlive its installer for ever ("Without this,
\* successful restores leave a polling usbmuxd consuming CPU").
HelperReaped == helper # None ~> helper = None
=============================================================================
