----------------------------- MODULE VmLifecycle -----------------------------
(***************************************************************************)
(* The application's ownership of a running Virtual Mac: the globals of    *)
(* VirtualMacApp.m (gVirtualMachine, gVirtualMachineDelegate,              *)
(* gForceStopPending, gFramebufferView), the boot and stop paths that      *)
(* change them, and the main queue their callbacks arrive on.              *)
(*                                                                         *)
(* Everything but the iPadOS 14 start worker runs on the main thread; an   *)
(* action is one turn of it.  On iPadOS 14 the worker runs on a background *)
(* queue and posts blocks to the main queue.  The Virtualization framework *)
(* is external: it answers every start and every stop once, and stops a    *)
(* guest either because it was asked to or by itself, never both.          *)
(***************************************************************************)
EXTENDS Naturals, Sequences

CONSTANTS Bundles,   \* the Virtual Macs in the library
          NoBundle,  \* nil, as a bundle path
          MaxBoots   \* bound: starts in one run of the application

ASSUME LifecycleAssumption ==
  /\ NoBundle \notin Bundles
  /\ MaxBoots \in Nat \ {0}

VARIABLES
  mode,         \* the device: iPadOS 14, microphone permission undetermined
  launch,       \* didFinishLaunching: "start", "asking" or "done"
  answers,      \* who may still continue the launch
  boots,        \* starts so far; the machines are 1 .. boots
  bundle,       \* the bundle each machine was started from
  vm,           \* gVirtualMachine
  delegate,     \* gVirtualMachineDelegate # nil
  view,         \* the machine whose framebuffer gFramebufferView shows
  activePath,   \* activeVMBundlePath
  screen,       \* "none", "library" or "vm"
  forcePending, \* gForceStopPending
  stopping,     \* machines with an unanswered stop request
  guest,        \* what the framework knows of each machine
  released,     \* machines whose last reference the application dropped
  worker,       \* where each background start is
  queue         \* the main queue

launchVars == <<mode, launch, answers>>
appVars    == <<vm, delegate, view, activePath, screen>>
stopVars   == <<forcePending, stopping>>
vars       == <<launchVars, boots, bundle, appVars, stopVars, guest, released, worker, queue>>

\* iPadOS 14 starts a machine on a background queue; an undetermined permission
\* delays the end of the launch.
Modes == [background : BOOLEAN, asks : BOOLEAN]

\* Everything happens in turns of the main thread.
OnMain == ~mode.background /\ ~mode.asks

Machines == 1 .. MaxBoots
NoVM     == 0

GuestStates  == {"none", "built", "starting", "running", "off"}
WorkerStates == {"idle", "queued", "waiting", "prepared", "refused", "done"}

Block(kind, n) == [kind |-> kind, machine |-> n]
Blocks ==
  [kind : {"finish", "stopFinish", "prepare", "invoke"}, machine : Machines \union {NoVM}]

\* A machine the framework has accepted a start of, and one it still runs.
Started(n) == guest[n] \in {"starting", "running"}
Alive(n)   == Started(n) /\ n \notin released

\* -state of VZVirtualMachine is stopped (0) before a start and after the end.
StateIsStopped(n) == guest[n] \in {"built", "off"}

\* The block that will start a machine retains it.
Retained(n) == \E i \in 1 .. Len(queue) : queue[i] = Block("invoke", n)

Init ==
  /\ mode \in Modes
  /\ launch = "start" /\ answers = {}
  /\ boots = 0
  /\ bundle = [n \in Machines |-> NoBundle]
  /\ vm = NoVM /\ delegate = FALSE /\ view = NoVM
  /\ activePath = NoBundle /\ screen = "none"
  /\ forcePending = FALSE /\ stopping = {}
  /\ guest = [n \in Machines |-> "none"] /\ released = {}
  /\ worker = [n \in Machines |-> "idle"]
  /\ queue = <<>>

-----------------------------------------------------------------------------
(* Leaving a machine.  finishVMAndShowLibraryWithError: releases whatever  *)
(* gVirtualMachine is at that moment.                                      *)

Finish(v) ==
  /\ released' = released \union {n \in {v} : n # NoVM /\ ~Retained(n)}
  /\ vm' = NoVM
  /\ delegate' = FALSE
  /\ view' = NoVM
  /\ activePath' = NoBundle
  /\ screen' = "library"

(* Starting a machine.                                                     *)

\* The worker run to its end on the main thread (iPadOS 15 and later).
StartOnMain(b, n) ==
  /\ bundle' = [bundle EXCEPT ![n] = b]
  /\ UNCHANGED <<worker, queue>>
  /\ \/ /\ guest' = [guest EXCEPT ![n] = "starting"]
        /\ released' = released
        /\ vm' = n /\ delegate' = TRUE /\ view' = n
        /\ activePath' = b /\ screen' = "vm"
     \/ Finish(vm) /\ guest' = guest                            \* no configuration
     \/ Finish(n) /\ guest' = [guest EXCEPT ![n] = "built"]      \* no framebuffer

StartInBackground(b, n) ==
  /\ bundle' = [bundle EXCEPT ![n] = b]
  /\ worker' = [worker EXCEPT ![n] = "queued"]
  /\ activePath' = b /\ screen' = "vm"
  /\ UNCHANGED <<vm, delegate, view, guest, queue, released>>

StartVirtualMachine(b) ==
  /\ boots < MaxBoots
  /\ boots' = boots + 1
  /\ IF mode.background THEN StartInBackground(b, boots + 1) ELSE StartOnMain(b, boots + 1)
  /\ UNCHANGED stopVars

PresentVMLibrary ==
  /\ screen' = "library"
  /\ UNCHANGED <<boots, bundle, vm, delegate, view, activePath, stopVars, guest, worker, queue, released>>

-----------------------------------------------------------------------------
(* Launch: once the microphone permission is known the application boots   *)
(* the configured Virtual Mac or shows the library.                        *)

Continuation ==
  /\ launch' = "done"
  /\ UNCHANGED mode
  /\ \/ \E b \in Bundles : StartVirtualMachine(b)
     \/ PresentVMLibrary

LaunchKnown ==
  /\ launch = "start" /\ ~mode.asks
  /\ Continuation
  /\ UNCHANGED answers

LaunchAsks ==
  /\ launch = "start" /\ mode.asks
  /\ launch' = "asking"
  /\ answers' = {"callback", "timeout"}
  /\ UNCHANGED <<mode, boots, bundle, appVars, stopVars, guest, worker, queue, released>>

\* The permission callback or the 5 s timer; the second finds `continued' set.
PermissionAnswer(a) ==
  /\ a \in answers
  /\ answers' = answers \ {a}
  /\ \/ launch = "asking" /\ Continuation
     \/ /\ launch = "done"
        /\ UNCHANGED <<mode, launch, boots, bundle, appVars, stopVars, guest, worker, queue, released>>

-----------------------------------------------------------------------------
(* The user.                                                               *)

\* The HUD, a quick action or virtualmac://library.
ShowLibrary ==
  /\ launch # "start"
  /\ PresentVMLibrary
  /\ UNCHANGED launchVars

\* Mutant: the boot handler without its guard on gVirtualMachine.
BootUnguarded(b) ==
  /\ screen = "library"
  /\ StartVirtualMachine(b)
  /\ UNCHANGED launchVars

\* vmLibrary:bootBundleAtPath:options:, with no machine in gVirtualMachine.
BootBundle(b) ==
  /\ screen = "library"
  /\ vm = NoVM
  /\ StartVirtualMachine(b)
  /\ UNCHANGED launchVars

\* Mutant: the path of the tapped row becomes active before the guard is tested.
ResumeTapped ==
  /\ screen = "library"
  /\ vm # NoVM
  /\ activePath' \in Bundles
  /\ screen' = "vm"
  /\ UNCHANGED <<launchVars, boots, bundle, vm, delegate, view,
                 stopVars, guest, worker, queue, released>>

\* The same handler and vmLibraryResumeActiveVM: with one.
ResumeActive ==
  /\ screen = "library"
  /\ vm # NoVM
  /\ screen' = "vm"
  /\ UNCHANGED <<launchVars, boots, bundle, vm, delegate, view, activePath,
                 stopVars, guest, worker, queue, released>>

\* From the library, the HUD and the control files in /tmp.
ForceStopVirtualMachine ==
  /\ vm # NoVM
  /\ ~forcePending
  /\ ~StateIsStopped(vm)
  /\ forcePending' = TRUE
  /\ stopping' = stopping \union {vm}
  /\ UNCHANGED <<launchVars, boots, bundle, appVars, guest, worker, queue, released>>

-----------------------------------------------------------------------------
(* Answers and events of the framework.                                    *)

StartSucceeds(n) ==
  /\ guest[n] = "starting" /\ n \notin released
  /\ guest' = [guest EXCEPT ![n] = "running"]
  /\ UNCHANGED <<launchVars, boots, bundle, appVars, stopVars, worker, queue, released>>

\* Mutant: a failed start that leaves the display up.
StartFailsSilently(n) ==
  /\ guest[n] = "starting" /\ n \notin released
  /\ guest' = [guest EXCEPT ![n] = "off"]
  /\ UNCHANGED <<launchVars, boots, bundle, appVars, stopVars, worker, queue, released>>

StartFails(n) ==
  /\ guest[n] = "starting" /\ n \notin released
  /\ guest' = [guest EXCEPT ![n] = "off"]
  /\ Finish(vm)
  /\ UNCHANGED <<launchVars, boots, bundle, stopVars, worker, queue>>

\* guestDidStopVirtualMachine: and virtualMachine:didStopWithError:.
GuestStops(n) ==
  /\ guest[n] = "running" /\ n \notin released
  /\ guest' = [guest EXCEPT ![n] = "off"]
  /\ Finish(vm)
  /\ UNCHANGED <<launchVars, boots, bundle, stopVars, worker, queue>>

\* Mutants: an error answer that finishes the machine, and one that keeps the flag.
StopFailsFinishes(n) ==
  /\ n \in stopping
  /\ stopping' = stopping \ {n}
  /\ forcePending' = FALSE
  /\ queue' = Append(queue, Block("stopFinish", NoVM))
  /\ UNCHANGED <<launchVars, boots, bundle, appVars, guest, worker, released>>

StopFailsKeepsFlag(n) ==
  /\ n \in stopping
  /\ stopping' = stopping \ {n}
  /\ UNCHANGED <<launchVars, boots, bundle, appVars, forcePending, guest, worker, queue, released>>

\* Mutant: the answer is dropped when the machine is no longer the current one.
StopFailsIfCurrent(n) ==
  /\ n \in stopping /\ n = vm
  /\ stopping' = stopping \ {n}
  /\ forcePending' = FALSE
  /\ UNCHANGED <<launchVars, boots, bundle, appVars, guest, worker, queue, released>>

StopSucceeds(n) ==
  /\ n \in stopping
  /\ guest[n] = "running" /\ n \notin released
  /\ stopping' = stopping \ {n}
  /\ forcePending' = FALSE
  /\ guest' = [guest EXCEPT ![n] = "off"]
  /\ queue' = Append(queue, Block("stopFinish", NoVM))
  /\ UNCHANGED <<launchVars, boots, bundle, appVars, worker, released>>

StopFails(n) ==
  /\ n \in stopping
  /\ stopping' = stopping \ {n}
  /\ forcePending' = FALSE
  /\ UNCHANGED <<launchVars, boots, bundle, appVars, guest, worker, queue, released>>

-----------------------------------------------------------------------------
(* The iPadOS 14 worker.  It reads gVirtualMachine again at every step.    *)

\* Mutant: a failed start that only sets the status text.
WorkerRefusesSilently(n) ==
  /\ worker[n] = "queued"
  /\ worker' = [worker EXCEPT ![n] = "done"]
  /\ UNCHANGED <<launchVars, boots, bundle, appVars, stopVars, guest, queue, released>>

WorkerRefuses(n) ==
  /\ worker[n] = "queued"
  /\ worker' = [worker EXCEPT ![n] = "done"]
  /\ queue' = Append(queue, Block("finish", NoVM))
  /\ UNCHANGED <<launchVars, boots, bundle, appVars, stopVars, guest, released>>

WorkerBuilds(n) ==
  /\ worker[n] = "queued"
  /\ worker' = [worker EXCEPT ![n] = "waiting"]
  /\ guest' = [guest EXCEPT ![n] = "built"]
  /\ vm' = n
  /\ delegate' = TRUE
  /\ queue' = Append(queue, Block("prepare", n))
  /\ UNCHANGED <<launchVars, boots, bundle, view, activePath, screen, stopVars, released>>

WorkerSubmits(n) ==
  /\ worker[n] \in {"prepared", "refused"}
  /\ worker' = [worker EXCEPT ![n] = "done"]
  /\ queue' = Append(queue, IF worker[n] = "prepared" THEN Block("invoke", vm)
                                                      ELSE Block("finish", NoVM))
  /\ UNCHANGED <<launchVars, boots, bundle, appVars, stopVars, guest, released>>

(* Blocks on the main queue.                                               *)

Next_(kind) == queue # <<>> /\ Head(queue).kind = kind

\* finishVMOnMain, and a start answered with an error.
RunFinish ==
  /\ Next_("finish")
  /\ Finish(vm)
  /\ queue' = Tail(queue)
  /\ UNCHANGED <<launchVars, boots, bundle, stopVars, guest, worker>>

\* The end of a direct stop goes through gVirtualMachineDelegate, nil after a finish.
RunStopFinish ==
  /\ Next_("stopFinish")
  /\ \/ delegate /\ Finish(vm)
     \/ ~delegate /\ UNCHANGED <<appVars, released>>
  /\ queue' = Tail(queue)
  /\ UNCHANGED <<launchVars, boots, bundle, stopVars, guest, worker>>

\* prepareFramebufferOnMain; the worker waits for it.
RunPrepare ==
  /\ Next_("prepare")
  /\ queue' = Tail(queue)
  /\ \/ /\ vm # NoVM
        /\ view' = vm
        /\ worker' = [worker EXCEPT ![Head(queue).machine] = "prepared"]
     \/ /\ view' = view
        /\ worker' = [worker EXCEPT ![Head(queue).machine] = "refused"]
  /\ UNCHANGED <<launchVars, boots, bundle, vm, delegate, activePath, screen, stopVars, guest, released>>

\* invokeVirtualMachineStartOnMain; a start of a started machine is an error.
RunInvoke ==
  /\ Next_("invoke")
  /\ LET n == Head(queue).machine IN
       \/ /\ n = NoVM
          /\ queue' = Tail(queue) /\ guest' = guest
       \/ /\ n # NoVM /\ guest[n] = "built"
          /\ queue' = Tail(queue) /\ guest' = [guest EXCEPT ![n] = "starting"]
       \/ /\ n # NoVM /\ guest[n] # "built"
          /\ queue' = Append(Tail(queue), Block("finish", NoVM)) /\ guest' = guest
  /\ UNCHANGED <<launchVars, boots, bundle, appVars, stopVars, worker, released>>

-----------------------------------------------------------------------------
Launch == LaunchKnown \/ LaunchAsks \/ \E a \in answers : PermissionAnswer(a)

User ==
  \/ ShowLibrary
  \/ \E b \in Bundles : BootBundle(b)
  \/ ResumeActive
  \/ ForceStopVirtualMachine

StartAnswer(n) == StartSucceeds(n) \/ StartFails(n)
StopAnswer(n)  == StopSucceeds(n) \/ StopFails(n)
Framework      == \E n \in Machines : StartAnswer(n) \/ GuestStops(n) \/ StopAnswer(n)

WorkerStep(n) == WorkerRefuses(n) \/ WorkerBuilds(n) \/ WorkerSubmits(n)
Worker        == \E n \in Machines : WorkerStep(n)
MainQueue     == RunFinish \/ RunStopFinish \/ RunPrepare \/ RunInvoke

Next == Launch \/ User \/ Framework \/ Worker \/ MainQueue

Spec == Init /\ [][Next]_vars

\* The main queue and the worker's queue are served, the 5 s timer fires, and
\* the framework answers what it was asked.  Nothing obliges the permission
\* callback to come, a guest to stop or the user to act.
FairSpec ==
  /\ Spec
  /\ WF_vars(LaunchKnown \/ LaunchAsks)
  /\ WF_vars(PermissionAnswer("timeout"))
  /\ WF_vars(MainQueue)
  /\ \A n \in Machines : WF_vars(WorkerStep(n)) /\ WF_vars(StartAnswer(n)) /\ WF_vars(StopAnswer(n))

-----------------------------------------------------------------------------
(* Properties.                                                             *)

\* Types of the globals, of the framework's view of a machine and of the queue.
VmTypeOK ==
  /\ mode \in Modes
  /\ launch \in {"start", "asking", "done"}
  /\ answers \subseteq {"callback", "timeout"}
  /\ boots \in 0 .. MaxBoots
  /\ bundle \in [Machines -> Bundles \union {NoBundle}]
  /\ vm \in Machines \union {NoVM}
  /\ delegate \in BOOLEAN
  /\ view \in Machines \union {NoVM}
  /\ activePath \in Bundles \union {NoBundle}
  /\ screen \in {"none", "library", "vm"}
  /\ forcePending \in BOOLEAN
  /\ stopping \subseteq Machines
  /\ guest \in [Machines -> GuestStates]
  /\ released \subseteq Machines
  /\ worker \in [Machines -> WorkerStates]
  /\ queue \in Seq(Blocks)

\* No two machines are started at once: the guard of bootBundleAtPath and the
\* comment "Starting a second VZVirtualMachine in this process can replace the
\* active display plumbing".
OneMachine == \A m, n \in Machines : Alive(m) /\ Alive(n) => m = n

\* The guard achieves it where a start ends in the turn that began it.
OneMachineOnMain == OnMain => OneMachine

\* A finish releases only a machine whose guest has ended, whoever posted it
\* and however long ago: it has no other way to tell which machine it is for.
TornDownStopped == OnMain => \A n \in released : ~Started(n)

\* The bundle the library shows as active is the one of the running machine
\* (activeVMBundlePathForLibrary:), and its framebuffer is the one on display.
ActiveIsRunning == OnMain /\ vm # NoVM => activePath = bundle[vm] /\ view = vm

\* A pending force stop has exactly one request whose answer will clear it; a
\* flag left behind would disable force shutdown until the application ends.
ForceStopHonest ==
  \/ forcePending /\ \E n \in Machines : stopping = {n}
  \/ ~forcePending /\ stopping = {}

\* Once nothing is under way the display is not shown without a machine: every
\* failure path of a start leads back to the library.
Quiet == /\ queue = <<>>
         /\ \A n \in Machines : worker[n] \in {"idle", "done"} /\ (Alive(n) => guest[n] # "starting")
NoDeadScreen == Quiet /\ screen = "vm" => vm # NoVM

\* Whoever looks at the display of a Virtual Mac gets a running guest or the
\* library back.
BootSettles ==
  screen = "vm" ~> (screen = "library" \/ (vm # NoVM /\ guest[vm] = "running"))

\* Force shutdown becomes available again, whatever the framework answers.
ForceStopAnswered == forcePending ~> ~forcePending
=============================================================================
