-------------------------- MODULE VmLifecycleProofs --------------------------
(***************************************************************************)
(* What the boot guard of bootBundleAtPath achieves when a start runs to   *)
(* its end on the main thread (iPadOS 15 and later) and the microphone     *)
(* permission is known at launch: for any number of boots and bundles      *)
(* there is one machine, and no finish ever releases a running one.  The   *)
(* force-stop flag is honest in every mode.                                *)
(***************************************************************************)
EXTENDS VmLifecycle, TLAPS

\* The main thread owns everything: no worker, no answer to wait for, and at
\* most the block of one direct stop in the queue, for the machine it stopped.
MainOnlyInv ==
  /\ launch \in {"start", "done"}
  /\ answers = {}
  /\ worker = [n \in Machines |-> "idle"]
  /\ launch = "start" => vm = NoVM /\ screen = "none" /\ queue = <<>>
  /\ \/ queue = <<>>
     \/ queue = <<Block("stopFinish", NoVM)>> /\ vm # NoVM /\ guest[vm] = "off"

\* A started machine is the one in gVirtualMachine, and that one is not released.
OwnedInv ==
  /\ \A n \in Machines : n > boots => guest[n] = "none" /\ n \notin released
  /\ \A n \in Machines : Started(n) => n = vm
  /\ vm # NoVM => /\ vm <= boots
                  /\ vm \notin released
                  /\ delegate
                  /\ guest[vm] \in {"starting", "running", "off"}
  /\ ActiveIsRunning

OwnerInv == VmTypeOK /\ (OnMain => MainOnlyInv /\ OwnedInv)

-----------------------------------------------------------------------------
\* Finish keeps the types it touches, whatever machine it is given.
LEMMA FinishType ==
  ASSUME VmTypeOK, NEW v \in Machines \union {NoVM}, Finish(v)
  PROVE  /\ vm' \in Machines \union {NoVM} /\ delegate' \in BOOLEAN
         /\ view' \in Machines \union {NoVM}
         /\ activePath' \in Bundles \union {NoBundle}
         /\ screen' \in {"none", "library", "vm"}
         /\ released' \subseteq Machines
  BY DEF VmTypeOK, Finish, NoVM

\* The machine numbers: the next start's is a machine, NoVM is not.
LEMMA MachineNumbers ==
  /\ NoVM \notin Machines
  /\ \A k \in 0 .. MaxBoots : k < MaxBoots => k + 1 \in Machines /\ k + 1 \in 0 .. MaxBoots
  BY LifecycleAssumption DEF Machines, NoVM

LEMMA StartType ==
  ASSUME VmTypeOK, NEW b \in Bundles, StartVirtualMachine(b)
  PROVE  /\ boots' \in 0 .. MaxBoots
         /\ bundle' \in [Machines -> Bundles \union {NoBundle}]
         /\ vm' \in Machines \union {NoVM} /\ delegate' \in BOOLEAN
         /\ view' \in Machines \union {NoVM}
         /\ activePath' \in Bundles \union {NoBundle}
         /\ screen' \in {"none", "library", "vm"}
         /\ guest' \in [Machines -> GuestStates]
         /\ released' \subseteq Machines
         /\ worker' \in [Machines -> WorkerStates]
         /\ queue' = queue /\ stopping' = stopping /\ forcePending' = forcePending
<1> DEFINE n == boots + 1
<1>1. n \in Machines /\ n \in 0 .. MaxBoots
  BY MachineNumbers DEF StartVirtualMachine, VmTypeOK
<1>2. CASE mode.background
  BY <1>1, <1>2 DEF StartVirtualMachine, StartInBackground, VmTypeOK, stopVars, WorkerStates
<1>3. CASE ~mode.background
  <2> USE DEF VmTypeOK
  <2>0. /\ StartOnMain(b, n) /\ boots' = n /\ bundle' = [bundle EXCEPT ![n] = b]
        /\ worker' = worker /\ queue' = queue
        /\ stopping' = stopping /\ forcePending' = forcePending
    BY <1>3 DEF StartVirtualMachine, StartOnMain, stopVars
  <2>1. CASE Finish(vm) /\ guest' = guest
    BY <2>0, <2>1, <1>1, FinishType
  <2>2. CASE Finish(n) /\ guest' = [guest EXCEPT ![n] = "built"]
    BY <2>0, <2>2, <1>1, FinishType DEF GuestStates
  <2>3. CASE /\ guest' = [guest EXCEPT ![n] = "starting"]
             /\ released' = released
             /\ vm' = n /\ delegate' = TRUE /\ view' = n
             /\ activePath' = b /\ screen' = "vm"
    BY <2>0, <2>3, <1>1 DEF GuestStates
  <2>4. QED BY <2>0, <2>1, <2>2, <2>3 DEF StartOnMain
<1>4. QED BY <1>2, <1>3

LEMMA BlockType ==
  /\ Block("finish", NoVM) \in Blocks
  /\ Block("stopFinish", NoVM) \in Blocks
  /\ \A n \in Machines : Block("prepare", n) \in Blocks
  /\ \A n \in Machines \union {NoVM} : Block("invoke", n) \in Blocks
  BY DEF Block, Blocks

LEMMA TypeInductive == VmTypeOK /\ [Next]_vars => VmTypeOK'
<1> SUFFICES ASSUME VmTypeOK, [Next]_vars PROVE VmTypeOK'
  OBVIOUS
<1>1. CASE LaunchKnown
  <2>1. CASE PresentVMLibrary
    BY <1>1, <2>1 DEF LaunchKnown, Continuation, PresentVMLibrary, VmTypeOK, stopVars
  <2>2. ASSUME NEW b \in Bundles, StartVirtualMachine(b) PROVE VmTypeOK'
    BY <1>1, <2>2, StartType DEF LaunchKnown, Continuation, VmTypeOK
  <2>3. QED BY <1>1, <2>1, <2>2 DEF LaunchKnown, Continuation
<1>2. CASE LaunchAsks
  BY <1>2 DEF LaunchAsks, VmTypeOK, stopVars, appVars
<1>3. ASSUME NEW a \in answers, PermissionAnswer(a) PROVE VmTypeOK'
  <2>0. answers' \subseteq {"callback", "timeout"} /\ mode' \in Modes
    BY <1>3 DEF PermissionAnswer, Continuation, VmTypeOK
  <2>1. CASE PresentVMLibrary /\ launch' = "done"
    BY <2>0, <2>1 DEF PresentVMLibrary, VmTypeOK, stopVars
  <2>2. ASSUME NEW b \in Bundles, StartVirtualMachine(b), launch' = "done" PROVE VmTypeOK'
    BY <2>0, <2>2, StartType DEF VmTypeOK
  <2>3. CASE UNCHANGED <<launch, boots, bundle, appVars, stopVars, guest, worker, queue, released>>
    BY <2>0, <2>3 DEF VmTypeOK, appVars, stopVars
  <2>4. QED BY <1>3, <2>1, <2>2, <2>3 DEF PermissionAnswer, Continuation
<1>4. CASE ShowLibrary
  BY <1>4 DEF ShowLibrary, PresentVMLibrary, VmTypeOK, stopVars, launchVars
<1>5. ASSUME NEW b \in Bundles, BootBundle(b) PROVE VmTypeOK'
  BY <1>5, StartType DEF BootBundle, VmTypeOK, launchVars
<1>6. CASE ResumeActive
  BY <1>6 DEF ResumeActive, VmTypeOK, stopVars, launchVars
<1>7. CASE ForceStopVirtualMachine
  BY <1>7 DEF ForceStopVirtualMachine, VmTypeOK, appVars, launchVars
<1>8. ASSUME NEW n \in Machines, StartSucceeds(n) PROVE VmTypeOK'
  BY <1>8 DEF StartSucceeds, VmTypeOK, appVars, stopVars, launchVars, GuestStates
<1>9. ASSUME NEW n \in Machines, StartFails(n) PROVE VmTypeOK'
  BY <1>9, FinishType DEF StartFails, VmTypeOK, stopVars, launchVars, GuestStates
<1>10. ASSUME NEW n \in Machines, GuestStops(n) PROVE VmTypeOK'
  BY <1>10, FinishType DEF GuestStops, VmTypeOK, stopVars, launchVars, GuestStates
<1>11. ASSUME NEW n \in Machines, StopSucceeds(n) PROVE VmTypeOK'
  <2>1. queue' \in Seq(Blocks)
    <3>1. queue \in Seq(Blocks) /\ queue' = Append(queue, Block("stopFinish", NoVM))
      BY <1>11 DEF StopSucceeds, VmTypeOK
    <3>2. QED BY <3>1, BlockType
  <2>2. guest' \in [Machines -> GuestStates]
    BY <1>11 DEF StopSucceeds, VmTypeOK, GuestStates
  <2>3. QED BY <1>11, <2>1, <2>2 DEF StopSucceeds, VmTypeOK, appVars, launchVars
<1>12. ASSUME NEW n \in Machines, StopFails(n) PROVE VmTypeOK'
  BY <1>12 DEF StopFails, VmTypeOK, appVars, launchVars
<1>13. ASSUME NEW n \in Machines, WorkerRefuses(n) PROVE VmTypeOK'
  BY <1>13, BlockType DEF WorkerRefuses, VmTypeOK, appVars, stopVars, launchVars, WorkerStates
<1>14. ASSUME NEW n \in Machines, WorkerBuilds(n) PROVE VmTypeOK'
  BY <1>14, BlockType DEF WorkerBuilds, VmTypeOK, stopVars, launchVars, WorkerStates, GuestStates
<1>15. ASSUME NEW n \in Machines, WorkerSubmits(n) PROVE VmTypeOK'
  BY <1>15, BlockType DEF WorkerSubmits, VmTypeOK, appVars, stopVars, launchVars, WorkerStates
<1>16. CASE RunFinish
  BY <1>16, FinishType DEF RunFinish, Next_, VmTypeOK, stopVars, launchVars
<1>17. CASE RunStopFinish
  BY <1>17, FinishType DEF RunStopFinish, Next_, VmTypeOK, stopVars, launchVars, appVars
<1>18. CASE RunPrepare
  BY <1>18 DEF RunPrepare, Next_, VmTypeOK, stopVars, launchVars, WorkerStates
<1>19. CASE RunInvoke
  <2>1. guest' \in [Machines -> GuestStates]
    BY <1>19 DEF RunInvoke, VmTypeOK, GuestStates
  <2>2. queue' = Tail(queue) \/ queue' = Append(Tail(queue), Block("finish", NoVM))
    BY <1>19 DEF RunInvoke
  <2>3. queue \in Seq(Blocks) /\ queue # <<>>
    BY <1>19 DEF RunInvoke, Next_, VmTypeOK
  <2>4. queue' \in Seq(Blocks)
    BY <2>2, <2>3, BlockType
  <2>5. QED BY <1>19, <2>1, <2>4 DEF RunInvoke, VmTypeOK, stopVars, launchVars, appVars
<1>20. CASE UNCHANGED vars
  BY <1>20 DEF vars, VmTypeOK, stopVars, launchVars, appVars
<1>21. QED
  BY <1>1, <1>2, <1>3, <1>4, <1>5, <1>6, <1>7, <1>8, <1>9, <1>10, <1>11, <1>12, <1>13,
     <1>14, <1>15, <1>16, <1>17, <1>18, <1>19, <1>20
  DEF Next, Launch, User, Framework, Worker, MainQueue, WorkerStep, StartAnswer, StopAnswer

LEMMA TypeInitially == Init => VmTypeOK
<1> SUFFICES ASSUME Init PROVE VmTypeOK
  OBVIOUS
<1>1. queue \in Seq(Blocks) /\ boots \in 0 .. MaxBoots
  BY LifecycleAssumption DEF Init
<1>2. guest \in [Machines -> GuestStates] /\ worker \in [Machines -> WorkerStates]
  BY DEF Init, GuestStates, WorkerStates
<1>3. QED BY <1>1, <1>2 DEF Init, VmTypeOK

\* Every global keeps its type, on every iPadOS version.
THEOREM VmTypeSafe == Spec => []VmTypeOK
  BY TypeInitially, TypeInductive, PTL DEF Spec

-----------------------------------------------------------------------------
\* The flag and the outstanding request are set together and cleared together.
LEMMA ForceStopInductive == VmTypeOK /\ ForceStopHonest /\ [Next]_vars => ForceStopHonest'
<1> SUFFICES ASSUME VmTypeOK, ForceStopHonest, [Next]_vars PROVE ForceStopHonest'
  OBVIOUS
<1>1. CASE ForceStopVirtualMachine
  BY <1>1 DEF ForceStopVirtualMachine, ForceStopHonest, VmTypeOK
<1>2. ASSUME NEW n \in Machines, StopAnswer(n) PROVE ForceStopHonest'
  BY <1>2 DEF StopAnswer, StopSucceeds, StopFails, ForceStopHonest
<1>3. CASE UNCHANGED stopVars
  BY <1>3 DEF stopVars, ForceStopHonest
<1>4. QED
  <2>1. ASSUME NEW b \in Bundles, StartVirtualMachine(b) PROVE UNCHANGED stopVars
    BY <2>1 DEF StartVirtualMachine
  <2>2. CASE Launch
    BY <2>1, <2>2, <1>3 DEF Launch, LaunchKnown, LaunchAsks, PermissionAnswer, Continuation,
       PresentVMLibrary, stopVars
  <2>3. CASE User
    BY <2>1, <2>3, <1>1, <1>3 DEF User, ShowLibrary, PresentVMLibrary, BootBundle, ResumeActive
  <2>4. CASE Framework
    BY <2>4, <1>2, <1>3 DEF Framework, StartAnswer, StartSucceeds, StartFails, GuestStops
  <2>5. CASE Worker
    BY <2>5, <1>3 DEF Worker, WorkerStep, WorkerRefuses, WorkerBuilds, WorkerSubmits
  <2>6. CASE MainQueue
    BY <2>6, <1>3 DEF MainQueue, RunFinish, RunStopFinish, RunPrepare, RunInvoke
  <2>7. CASE UNCHANGED vars
    BY <2>7, <1>3 DEF vars
  <2>8. QED BY <2>2, <2>3, <2>4, <2>5, <2>6, <2>7 DEF Next

\* forceStopVirtualMachine: on every iPadOS version a pending flag has exactly
\* one outstanding request, so force shutdown is never disabled for good.
THEOREM ForceStopSafe == Spec => []ForceStopHonest
<1>1. Init => ForceStopHonest
  BY DEF Init, ForceStopHonest
<1>2. QED BY <1>1, ForceStopInductive, VmTypeSafe, PTL DEF Spec

-----------------------------------------------------------------------------
\* A start on the main thread, from a state without a machine.
LEMMA StartKeepsOwner ==
  ASSUME OnMain, OwnerInv, vm = NoVM, NEW b \in Bundles, StartVirtualMachine(b),
         launch' = "done", UNCHANGED answers
  PROVE  MainOnlyInv' /\ OwnedInv'
<1> DEFINE n == boots + 1
<1>1. n \in Machines /\ n > boots /\ n # NoVM /\ boots' = n /\ boots \in Nat
  BY MachineNumbers, LifecycleAssumption DEF StartVirtualMachine, VmTypeOK, OwnerInv, NoVM
<1>2. /\ StartOnMain(b, n)
      /\ queue = <<>> /\ queue' = queue /\ worker' = worker
      /\ bundle' = [bundle EXCEPT ![n] = b]
  BY DEF OnMain, StartVirtualMachine, StartOnMain, OwnerInv, MainOnlyInv
<1>3. MainOnlyInv'
  BY <1>2 DEF OwnerInv, MainOnlyInv
<1>4. \A m \in Machines : ~Started(m)
  BY MachineNumbers DEF OwnerInv, OwnedInv
<1>5. /\ guest[n] = "none" /\ n \notin released
      /\ \A m \in Machines : m > boots => guest[m] = "none" /\ m \notin released
  BY <1>1 DEF OwnerInv, OwnedInv
<1>6. guest \in [Machines -> GuestStates] /\ bundle \in [Machines -> Bundles \union {NoBundle}]
  BY DEF OwnerInv, VmTypeOK
<1>7. Machines \subseteq Nat
  BY DEF Machines
<1>8. CASE Finish(vm) /\ guest' = guest
  BY <1>1, <1>3, <1>4, <1>5, <1>7, <1>8 DEF Finish, OwnedInv, ActiveIsRunning, Started
<1>9. CASE Finish(n) /\ guest' = [guest EXCEPT ![n] = "built"]
  BY <1>1, <1>3, <1>4, <1>5, <1>6, <1>7, <1>9 DEF Finish, OwnedInv, ActiveIsRunning, Started
<1>10. CASE /\ guest' = [guest EXCEPT ![n] = "starting"]
            /\ released' = released
            /\ vm' = n /\ delegate' = TRUE /\ view' = n
            /\ activePath' = b /\ screen' = "vm"
  <2>1. \A m \in Machines : m > boots' => guest'[m] = "none" /\ m \notin released'
    BY <1>1, <1>5, <1>6, <1>7, <1>10
  <2>2. \A m \in Machines : Started(m)' => m = vm'
    BY <1>1, <1>4, <1>6, <1>10 DEF Started
  <2>3. vm' <= boots' /\ vm' \notin released' /\ delegate' /\ guest'[vm'] = "starting"
    BY <1>1, <1>5, <1>6, <1>10
  <2>4. ActiveIsRunning'
    BY <1>1, <1>2, <1>6, <1>10 DEF ActiveIsRunning
  <2>5. QED BY <1>3, <2>1, <2>2, <2>3, <2>4 DEF OwnedInv
<1>11. QED BY <1>2, <1>3, <1>8, <1>9, <1>10 DEF StartOnMain

\* A finish that reports the end of the guest in gVirtualMachine, or of no guest.
LEMMA FinishKeepsOwned ==
  ASSUME OnMain, OwnerInv, Finish(vm), boots' = boots, bundle' = bundle,
         guest' \in [Machines -> GuestStates],
         \A m \in Machines : guest'[m] = guest[m] \/ (m = vm /\ guest'[m] = "off"),
         vm # NoVM => guest'[vm] = "off"
  PROVE  OwnedInv'
<1>1. \A m \in Machines : ~Started(m)'
  BY MachineNumbers DEF OwnerInv, OwnedInv, Started
<1>2. \A m \in Machines : m > boots => m # vm
  <2>1. vm # NoVM => vm <= boots
    BY DEF OwnerInv, OwnedInv
  <2>2. boots \in Nat /\ Machines \subseteq Nat
    BY LifecycleAssumption DEF OwnerInv, VmTypeOK, Machines
  <2>3. QED BY <2>1, <2>2, MachineNumbers
<1>3. \A m \in Machines : m > boots' => guest'[m] = "none" /\ m \notin released'
  BY <1>2 DEF OwnerInv, OwnedInv, Finish
<1>4. QED BY <1>1, <1>3 DEF OwnedInv, Finish, ActiveIsRunning

\* The device does not change.
LEMMA ModeKept == [Next]_vars => mode' = mode
<1>1. CASE Launch
  BY <1>1 DEF Launch, LaunchKnown, LaunchAsks, PermissionAnswer, Continuation
<1>2. CASE User
  BY <1>2 DEF User, ShowLibrary, BootBundle, ResumeActive, ForceStopVirtualMachine, launchVars
<1>3. CASE Framework
  BY <1>3 DEF Framework, StartAnswer, StopAnswer, StartSucceeds, StartFails, GuestStops,
     StopSucceeds, StopFails, launchVars
<1>4. CASE Worker
  BY <1>4 DEF Worker, WorkerStep, WorkerRefuses, WorkerBuilds, WorkerSubmits, launchVars
<1>5. CASE MainQueue
  BY <1>5 DEF MainQueue, RunFinish, RunStopFinish, RunPrepare, RunInvoke, launchVars
<1>6. CASE UNCHANGED vars
  BY <1>6 DEF vars, launchVars
<1>7. QED BY <1>1, <1>2, <1>3, <1>4, <1>5, <1>6 DEF Next

LEMMA OwnerInductive ==
  ASSUME OwnerInv, [Next]_vars
  PROVE  OwnerInv'
<1>0. VmTypeOK'
  BY TypeInductive DEF OwnerInv
<1> SUFFICES ASSUME OnMain PROVE MainOnlyInv' /\ OwnedInv'
  BY <1>0, ModeKept DEF OwnerInv, OnMain
<1>1. CASE Launch
  <2>1. LaunchKnown
    BY <1>1 DEF OnMain, Launch, LaunchAsks, OwnerInv, MainOnlyInv
  <2>2. CASE PresentVMLibrary
    BY <2>1, <2>2 DEF LaunchKnown, Continuation, PresentVMLibrary, OwnerInv, MainOnlyInv, OwnedInv,
       ActiveIsRunning, Started
  <2>3. ASSUME NEW b \in Bundles, StartVirtualMachine(b) PROVE MainOnlyInv' /\ OwnedInv'
    <3>1. vm = NoVM /\ launch' = "done" /\ UNCHANGED answers
      BY <2>1 DEF LaunchKnown, Continuation, OwnerInv, MainOnlyInv
    <3>2. QED BY <2>3, <3>1, StartKeepsOwner
  <2>4. QED BY <2>1, <2>2, <2>3 DEF LaunchKnown, Continuation
<1>2. CASE ShowLibrary \/ ResumeActive
  BY <1>2 DEF ShowLibrary, PresentVMLibrary, ResumeActive, OwnerInv, MainOnlyInv, OwnedInv,
     ActiveIsRunning, Started, launchVars
<1>3. ASSUME NEW b \in Bundles, BootBundle(b) PROVE MainOnlyInv' /\ OwnedInv'
  <2>1. vm = NoVM /\ launch' = launch /\ UNCHANGED answers /\ StartVirtualMachine(b)
    BY <1>3 DEF BootBundle, launchVars
  <2>2. CASE launch = "done"
    BY <2>1, <2>2, StartKeepsOwner
  <2>3. CASE launch = "start"
    BY <1>3, <2>3 DEF BootBundle, OwnerInv, MainOnlyInv
  <2>4. QED BY <2>2, <2>3 DEF OwnerInv, MainOnlyInv
<1>4. CASE ForceStopVirtualMachine
  BY <1>4 DEF ForceStopVirtualMachine, OwnerInv, MainOnlyInv, OwnedInv, ActiveIsRunning, Started,
     launchVars, appVars
<1>5. ASSUME NEW n \in Machines, StartSucceeds(n) PROVE MainOnlyInv' /\ OwnedInv'
  BY <1>5 DEF StartSucceeds, OwnerInv, VmTypeOK, MainOnlyInv, OwnedInv, ActiveIsRunning, Started,
     launchVars, appVars
<1>6. ASSUME NEW n \in Machines, StartFails(n) \/ GuestStops(n) PROVE MainOnlyInv' /\ OwnedInv'
  <2>1. /\ Started(n) /\ guest' = [guest EXCEPT ![n] = "off"] /\ Finish(vm)
        /\ UNCHANGED <<launchVars, boots, bundle, worker, queue>>
    BY <1>6 DEF StartFails, GuestStops, Started
  <2>2. n = vm /\ queue = <<>>
    BY <2>1 DEF OwnerInv, OwnedInv, MainOnlyInv, Started
  <2>3. guest \in [Machines -> GuestStates]
    BY DEF OwnerInv, VmTypeOK
  <2>4. OwnedInv'
    BY <2>1, <2>2, <2>3, FinishKeepsOwned DEF GuestStates
  <2>5. MainOnlyInv'
    BY <2>1, <2>2, MachineNumbers DEF OwnerInv, MainOnlyInv, launchVars, Finish
  <2>6. QED BY <2>4, <2>5
<1>7. ASSUME NEW n \in Machines, StopSucceeds(n) PROVE MainOnlyInv' /\ OwnedInv'
  <2>1. n = vm /\ queue = <<>> /\ guest[n] = "running" /\ vm # NoVM
    BY <1>7, MachineNumbers DEF StopSucceeds, OwnerInv, OwnedInv, MainOnlyInv, Started
  <2>2. queue' = <<Block("stopFinish", NoVM)>>
    BY <1>7, <2>1 DEF StopSucceeds
  <2>3. MainOnlyInv'
    BY <1>7, <2>1, <2>2 DEF StopSucceeds, OwnerInv, VmTypeOK, MainOnlyInv, launchVars, appVars
  <2>4. OwnedInv'
    BY <1>7, <2>1 DEF StopSucceeds, OwnerInv, VmTypeOK, OwnedInv, ActiveIsRunning, Started, appVars
  <2>5. QED BY <2>3, <2>4
<1>8. ASSUME NEW n \in Machines, StopFails(n) PROVE MainOnlyInv' /\ OwnedInv'
  BY <1>8 DEF StopFails, OwnerInv, MainOnlyInv, OwnedInv, ActiveIsRunning, Started, launchVars,
     appVars
<1>9. CASE Worker
  BY <1>9 DEF Worker, WorkerStep, WorkerRefuses, WorkerBuilds, WorkerSubmits, OwnerInv, MainOnlyInv
<1>10. CASE RunStopFinish
  <2>1. queue = <<Block("stopFinish", NoVM)>> /\ vm # NoVM /\ guest[vm] = "off"
    BY <1>10 DEF RunStopFinish, Next_, OwnerInv, MainOnlyInv
  <2>2. delegate
    BY <2>1 DEF OwnerInv, OwnedInv
  <2>3. Finish(vm) /\ queue' = <<>> /\ UNCHANGED <<launchVars, boots, bundle, guest, worker>>
    BY <1>10, <2>1, <2>2 DEF RunStopFinish
  <2>4. guest \in [Machines -> GuestStates]
    BY DEF OwnerInv, VmTypeOK
  <2>5. OwnedInv'
    BY <2>1, <2>3, <2>4, FinishKeepsOwned
  <2>6. MainOnlyInv'
    BY <2>1, <2>3 DEF OwnerInv, MainOnlyInv, launchVars, Finish
  <2>7. QED BY <2>5, <2>6
<1>11. CASE RunFinish \/ RunPrepare \/ RunInvoke
  BY <1>11 DEF RunFinish, RunPrepare, RunInvoke, Next_, OwnerInv, MainOnlyInv, Block
<1>12. CASE UNCHANGED vars
  BY <1>12 DEF vars, OwnerInv, MainOnlyInv, OwnedInv, ActiveIsRunning, Started, launchVars, appVars
<1>13. QED
  BY <1>1, <1>2, <1>3, <1>4, <1>5, <1>6, <1>7, <1>8, <1>9, <1>10, <1>11, <1>12
  DEF Next, User, Framework, MainQueue, StartAnswer, StopAnswer

\* With a start that ends on the main thread and a known permission, a started
\* machine is always the one in gVirtualMachine and a queued finish is always
\* for it.
THEOREM OwnerInvariant == Spec => []OwnerInv
<1>1. Init => OwnerInv
  BY TypeInitially DEF Init, OwnerInv, MainOnlyInv, OwnedInv, ActiveIsRunning, Started
<1>2. OwnerInv /\ [Next]_vars => OwnerInv'
  BY OwnerInductive
<1>3. QED BY <1>1, <1>2, PTL DEF Spec

\* bootBundleAtPath's guard on gVirtualMachine is enough on the main thread: no
\* two machines are ever started at once.
THEOREM OneMachineSafe == Spec => []OneMachineOnMain
<1>1. OwnerInv => OneMachineOnMain
  BY DEF OwnerInv, OwnedInv, OneMachine, OneMachineOnMain, Alive
<1>2. QED BY <1>1, OwnerInvariant, PTL

\* finishVMAndShowLibraryWithError: never releases a machine that still runs,
\* although it does not know for which machine it was posted.
THEOREM FinishReleasesStopped == Spec => []TornDownStopped
<1>1. OwnerInv => TornDownStopped
  <2> SUFFICES ASSUME OwnerInv, OnMain, NEW n \in released PROVE ~Started(n)
    BY DEF TornDownStopped
  <2>1. n \in Machines
    BY DEF OwnerInv, VmTypeOK
  <2>2. Started(n) => n = vm
    BY <2>1 DEF OwnerInv, OwnedInv
  <2>3. QED BY <2>1, <2>2, MachineNumbers DEF OwnerInv, OwnedInv
<1>2. QED BY <1>1, OwnerInvariant, PTL

\* The library's active row and the display belong to the running machine.
THEOREM ActiveSafe == Spec => []ActiveIsRunning
<1>1. OwnerInv => ActiveIsRunning
  BY DEF OwnerInv, OwnedInv, ActiveIsRunning
<1>2. QED BY <1>1, OwnerInvariant, PTL

-----------------------------------------------------------------------------
\* A display without a machine has a start or a finish to wait for.  A worker
\* that was never built, and a finish, may be overtaken by anything else.
StartUnderWay ==
  screen = "vm" /\ vm = NoVM =>
    \/ \E n \in Machines : worker[n] = "queued"
    \/ \E i \in 1 .. Len(queue) : queue[i].kind = "finish"

\* A framebuffer is prepared for a worker that has built its machine; what
\* comes after the last boot has not begun.
PrepareInv ==
  /\ \A n \in Machines : n > boots => worker[n] = "idle"
  /\ \A i \in 1 .. Len(queue) : queue[i].kind = "prepare" =>
       /\ queue[i].machine \in Machines /\ queue[i].machine <= boots
       /\ worker[queue[i].machine] # "queued"

\* What is posted stays in the queue until its turn has come.
LEMMA PostedStays ==
  ASSUME NEW s \in Seq(Blocks), NEW b \in Blocks, NEW t, t = Append(s, b)
  PROVE  /\ Len(t) = Len(s) + 1 /\ t[Len(s) + 1] = b
         /\ \A i \in 1 .. Len(s) : t[i] = s[i]
         /\ (\E i \in 1 .. Len(s) : s[i].kind = "finish")
              => \E i \in 1 .. Len(t) : t[i].kind = "finish"
  OBVIOUS

LEMMA PostedFinish ==
  ASSUME VmTypeOK, queue' = Append(queue, Block("finish", NoVM))
  PROVE  \E i \in 1 .. Len(queue') : queue'[i].kind = "finish"
<1>1. queue \in Seq(Blocks) /\ Block("finish", NoVM) \in Blocks
  BY BlockType DEF VmTypeOK
<1>2. Len(queue') = Len(queue) + 1 /\ queue'[Len(queue) + 1] = Block("finish", NoVM)
        /\ Len(queue) \in Nat
  BY <1>1, PostedStays
<1>3. QED BY <1>2 DEF Block

LEMMA TurnPasses ==
  ASSUME VmTypeOK, queue # <<>>
  PROVE  /\ Tail(queue) \in Seq(Blocks) /\ Len(queue) \in Nat \ {0}
         /\ Len(Tail(queue)) = Len(queue) - 1
         /\ \A i \in 1 .. Len(queue) - 1 : Tail(queue)[i] = queue[i + 1]
         /\ (/\ Head(queue).kind # "finish"
             /\ \E i \in 1 .. Len(queue) : queue[i].kind = "finish")
              => \E i \in 1 .. Len(Tail(queue)) : Tail(queue)[i].kind = "finish"
<1>1. /\ Tail(queue) \in Seq(Blocks) /\ Len(queue) \in Nat \ {0} /\ Head(queue) = queue[1]
      /\ Len(Tail(queue)) = Len(queue) - 1
      /\ \A i \in 1 .. Len(queue) - 1 : Tail(queue)[i] = queue[i + 1]
  BY DEF VmTypeOK
<1>2. ASSUME NEW i \in 1 .. Len(queue), queue[i].kind = "finish", Head(queue).kind # "finish"
      PROVE  i - 1 \in 1 .. Len(Tail(queue)) /\ Tail(queue)[i - 1].kind = "finish"
  <2>1. i - 1 \in 1 .. Len(queue) - 1 /\ (i - 1) + 1 = i
    BY <1>1, <1>2
  <2>2. QED BY <1>1, <1>2, <2>1
<1>3. QED BY <1>1, <1>2

LEMMA TurnOf ==
  ASSUME VmTypeOK, queue # <<>>, NEW i \in 1 .. Len(Tail(queue))
  PROVE  i + 1 \in 1 .. Len(queue) /\ Tail(queue)[i] = queue[i + 1]
<1>1. Len(queue) \in Nat \ {0} /\ Len(Tail(queue)) = Len(queue) - 1
  BY TurnPasses
<1>2. i \in 1 .. Len(queue) - 1 /\ i + 1 \in 1 .. Len(queue)
  BY <1>1
<1>3. QED BY <1>2, TurnPasses

\* A step that posts a block of another kind, or runs one.
LEMMA PrepareStays ==
  ASSUME VmTypeOK, PrepareInv, boots' = boots,
         \A n \in Machines : worker'[n] # worker[n] => worker'[n] # "queued" /\ n <= boots,
         \/ UNCHANGED queue
         \/ \E b \in Blocks : b.kind # "prepare" /\ queue' = Append(queue, b)
         \/ queue # <<>> /\ queue' = Tail(queue)
         \/ queue # <<>> /\ \E b \in Blocks : b.kind # "prepare" /\ queue' = Append(Tail(queue), b)
  PROVE  PrepareInv'
<1>1. \A n \in Machines : n > boots => worker'[n] = "idle"
  BY DEF PrepareInv, VmTypeOK, Machines
<1>2. ASSUME NEW i \in 1 .. Len(queue'), queue'[i].kind = "prepare"
      PROVE  \E j \in 1 .. Len(queue) : queue[j] = queue'[i]
  <2>0. queue \in Seq(Blocks) /\ Len(queue) \in Nat
    BY DEF VmTypeOK
  <2>1. CASE UNCHANGED queue
    BY <1>2, <2>1
  <2>2. ASSUME NEW b \in Blocks, b.kind # "prepare", queue' = Append(queue, b)
        PROVE  \E j \in 1 .. Len(queue) : queue[j] = queue'[i]
    <3>1. i \in 1 .. Len(queue) /\ queue'[i] = queue[i]
      BY <1>2, <2>0, <2>2, PostedStays
    <3>2. QED BY <3>1
  <2>3. CASE queue # <<>> /\ queue' = Tail(queue)
    <3>1. i \in 1 .. Len(Tail(queue)) /\ queue'[i] = Tail(queue)[i]
      BY <1>2, <2>3
    <3>2. i + 1 \in 1 .. Len(queue) /\ Tail(queue)[i] = queue[i + 1]
      BY <2>3, <3>1, TurnOf
    <3>3. QED BY <3>1, <3>2
  <2>4. ASSUME NEW b \in Blocks, b.kind # "prepare", queue # <<>>, queue' = Append(Tail(queue), b)
        PROVE  \E j \in 1 .. Len(queue) : queue[j] = queue'[i]
    <3>0. Tail(queue) \in Seq(Blocks) /\ Len(Tail(queue)) = Len(queue) - 1
      BY <2>4, TurnPasses
    <3> DEFINE t == Tail(queue)
    <3>a. t \in Seq(Blocks)
      BY <3>0
    <3>b. queue' = Append(t, b)
      BY <2>4
    <3> HIDE DEF t
    <3>1. t \in Seq(Blocks) /\ Len(t) \in Nat /\ queue' = Append(t, b)
      BY <3>a, <3>b
    <3>2. Len(queue') = Len(t) + 1 /\ queue'[Len(t) + 1] = b
      BY <2>4, <3>1, PostedStays
    <3>3. \A j \in 1 .. Len(t) : queue'[j] = t[j]
      BY <2>4, <3>1, PostedStays
    <3>4. i # Len(t) + 1
      BY <1>2, <2>4, <3>2
    <3>5. i \in 1 .. Len(t) /\ queue'[i] = t[i]
      BY <3>1, <3>2, <3>3, <3>4
    <3>6. i + 1 \in 1 .. Len(queue) /\ t[i] = queue[i + 1]
      BY <2>4, <3>5, TurnOf DEF t
    <3>7. QED BY <3>5, <3>6
  <2>5. QED BY <2>1, <2>2, <2>3, <2>4
<1>3. QED BY <1>1, <1>2 DEF PrepareInv

LEMMA PrepareInductive == VmTypeOK /\ PrepareInv /\ [Next]_vars => PrepareInv'
<1> SUFFICES ASSUME VmTypeOK, PrepareInv, [Next]_vars PROVE PrepareInv'
  OBVIOUS
<1>1. CASE UNCHANGED <<boots, worker, queue>>
  BY <1>1, PrepareStays
<1>2. ASSUME NEW b \in Bundles, StartVirtualMachine(b) PROVE PrepareInv'
  <2>1. boots + 1 \in Machines /\ boots' = boots + 1 /\ boots \in Nat /\ queue' = queue
    BY <1>2, MachineNumbers, LifecycleAssumption
    DEF StartVirtualMachine, StartInBackground, StartOnMain, VmTypeOK
  <2>2. worker' = worker \/ worker' = [worker EXCEPT ![boots + 1] = "queued"]
    BY <1>2 DEF StartVirtualMachine, StartInBackground, StartOnMain
  <2>3. \A n \in Machines : n # boots + 1 => worker'[n] = worker[n]
    BY <2>2 DEF VmTypeOK
  <2>4. \A n \in Machines : n \in Nat
    BY LifecycleAssumption DEF Machines
  <2>5. \A n \in Machines : n > boots' => worker'[n] = "idle"
    BY <2>1, <2>3, <2>4 DEF PrepareInv
  <2>6. ASSUME NEW m \in Machines, m <= boots, worker[m] # "queued"
        PROVE  m <= boots' /\ worker'[m] # "queued"
    BY <2>1, <2>3, <2>4, <2>6
  <2>7. QED BY <2>1, <2>5, <2>6 DEF PrepareInv
<1>3. CASE Launch \/ User
  BY <1>1, <1>2, <1>3 DEF Launch, LaunchKnown, LaunchAsks, PermissionAnswer, Continuation,
     PresentVMLibrary, User, ShowLibrary, BootBundle, ResumeActive, ForceStopVirtualMachine
<1>4. ASSUME NEW n \in Machines, StartAnswer(n) \/ GuestStops(n) \/ StopFails(n) PROVE PrepareInv'
  BY <1>1, <1>4 DEF StartAnswer, StartSucceeds, StartFails, GuestStops, StopFails
<1>5. ASSUME NEW n \in Machines, StopSucceeds(n) PROVE PrepareInv'
  <2>1. Block("stopFinish", NoVM).kind # "prepare" /\ UNCHANGED <<boots, worker>>
          /\ queue' = Append(queue, Block("stopFinish", NoVM))
    BY <1>5 DEF StopSucceeds, Block
  <2>2. QED BY <2>1, BlockType, PrepareStays
\* A worker that has begun is one of a boot.
<1>6. \A n \in Machines : worker[n] # "idle" => n <= boots /\ n \in Nat
  BY LifecycleAssumption DEF PrepareInv, Machines, VmTypeOK
<1>7. ASSUME NEW n \in Machines, WorkerRefuses(n) \/ WorkerSubmits(n) PROVE PrepareInv'
  <2>1. worker' = [worker EXCEPT ![n] = "done"] /\ worker[n] # "idle" /\ UNCHANGED boots
    BY <1>7 DEF WorkerRefuses, WorkerSubmits
  <2>2. \E b \in Blocks : b.kind # "prepare" /\ queue' = Append(queue, b)
    <3>1. queue' = Append(queue, Block("finish", NoVM)) \/ queue' = Append(queue, Block("invoke", vm))
      BY <1>7 DEF WorkerRefuses, WorkerSubmits
    <3>2. Block("finish", NoVM).kind # "prepare" /\ Block("invoke", vm).kind # "prepare"
      BY DEF Block
    <3>3. QED BY <3>1, <3>2, BlockType DEF VmTypeOK
  <2>3. \A m \in Machines : worker'[m] # worker[m] => worker'[m] # "queued" /\ m <= boots
    BY <1>6, <2>1 DEF VmTypeOK
  <2>4. QED BY <2>1, <2>2, <2>3, PrepareStays
<1>8. ASSUME NEW n \in Machines, WorkerBuilds(n) PROVE PrepareInv'
  <2>1. /\ worker' = [worker EXCEPT ![n] = "waiting"] /\ worker[n] = "queued"
        /\ boots' = boots /\ queue' = Append(queue, Block("prepare", n))
    BY <1>8 DEF WorkerBuilds
  <2>2. /\ n <= boots /\ worker'[n] = "waiting"
        /\ \A m \in Machines : m # n => worker'[m] = worker[m]
    BY <1>6, <2>1 DEF VmTypeOK
  <2>3. /\ queue \in Seq(Blocks) /\ Len(queue) \in Nat /\ Len(queue') = Len(queue) + 1
        /\ queue'[Len(queue) + 1] = Block("prepare", n)
        /\ \A i \in 1 .. Len(queue) : queue'[i] = queue[i]
    BY <2>1, BlockType, PostedStays DEF VmTypeOK
  <2>4. \A m \in Machines : m > boots => worker'[m] = "idle"
    BY <2>2, <1>6, LifecycleAssumption DEF PrepareInv, VmTypeOK, Machines
  <2>5. ASSUME NEW i \in 1 .. Len(queue'), queue'[i].kind = "prepare"
        PROVE  /\ queue'[i].machine \in Machines /\ queue'[i].machine <= boots
               /\ worker'[queue'[i].machine] # "queued"
    <3>1. CASE i \in 1 .. Len(queue)
      BY <2>2, <2>3, <2>5, <3>1 DEF PrepareInv
    <3>2. CASE i = Len(queue) + 1
      BY <2>2, <2>3, <3>2 DEF Block
    <3>3. QED BY <2>3, <3>1, <3>2
  <2>6. QED BY <2>1, <2>4, <2>5 DEF PrepareInv
<1>9. CASE RunFinish \/ RunStopFinish
  BY <1>9, PrepareStays DEF RunFinish, RunStopFinish, Next_
<1>10. CASE RunPrepare
  <2>1. queue' = Tail(queue) /\ queue # <<>> /\ Head(queue).kind = "prepare" /\ boots' = boots
    BY <1>10 DEF RunPrepare, Next_
  <2>2. Head(queue).machine \in Machines /\ Head(queue).machine <= boots
    <3>1. Head(queue) = queue[1] /\ 1 \in 1 .. Len(queue)
      BY <2>1, TurnPasses DEF VmTypeOK
    <3>2. QED BY <2>1, <3>1 DEF PrepareInv
  <2>3. \A m \in Machines : worker'[m] # worker[m] => worker'[m] # "queued" /\ m <= boots
    BY <1>10, <2>2 DEF RunPrepare, VmTypeOK
  <2>4. QED BY <2>1, <2>3, PrepareStays
<1>11. CASE RunInvoke
  <2>1. queue # <<>> /\ UNCHANGED <<boots, worker>>
    BY <1>11 DEF RunInvoke, Next_
  <2>2. queue' = Tail(queue) \/ queue' = Append(Tail(queue), Block("finish", NoVM))
    BY <1>11 DEF RunInvoke
  <2>3. Block("finish", NoVM) \in Blocks /\ Block("finish", NoVM).kind # "prepare"
    BY BlockType DEF Block
  <2>4. QED BY <2>1, <2>2, <2>3, PrepareStays
<1>12. CASE UNCHANGED vars
  BY <1>1, <1>12 DEF vars
<1>13. QED
  BY <1>3, <1>4, <1>5, <1>7, <1>8, <1>9, <1>10, <1>11, <1>12
  DEF Next, Framework, StopAnswer, Worker, WorkerStep, MainQueue

LEMMA StartIsUnderWay == VmTypeOK /\ PrepareInv /\ StartUnderWay /\ [Next]_vars => StartUnderWay'
<1> SUFFICES ASSUME VmTypeOK, PrepareInv, StartUnderWay, [Next]_vars PROVE StartUnderWay'
  OBVIOUS
<1> USE DEF StartUnderWay
<1>1. ASSUME NEW v, Finish(v) PROVE StartUnderWay'
  BY <1>1 DEF Finish
<1>2. CASE UNCHANGED <<vm, screen, worker, queue>>
  BY <1>2
<1>3. CASE screen' # "vm"
  BY <1>3
<1>4. ASSUME NEW b \in Bundles, StartVirtualMachine(b) PROVE StartUnderWay'
  <2>1. boots + 1 \in Machines
    BY <1>4, MachineNumbers DEF StartVirtualMachine, VmTypeOK
  <2>2. CASE mode.background
    <3>1. worker' = [worker EXCEPT ![boots + 1] = "queued"]
      BY <1>4, <2>2 DEF StartVirtualMachine, StartInBackground
    <3>2. worker'[boots + 1] = "queued"
      BY <2>1, <3>1 DEF VmTypeOK
    <3>3. QED BY <2>1, <3>2
  <2>3. CASE ~mode.background
    BY <1>1, <1>4, <2>1, <2>3, MachineNumbers DEF StartVirtualMachine, StartOnMain
  <2>4. QED BY <2>2, <2>3
<1>5. CASE Launch
  <2>1. CASE LaunchAsks
    BY <1>2, <2>1 DEF LaunchAsks, appVars
  <2>2. CASE Continuation
    BY <1>3, <1>4, <2>2 DEF Continuation, PresentVMLibrary
  <2>3. CASE UNCHANGED <<appVars, worker, queue>>
    BY <1>2, <2>3 DEF appVars
  <2>4. QED BY <1>5, <2>1, <2>2, <2>3 DEF Launch, LaunchKnown, PermissionAnswer
<1>6. CASE User
  <2>1. CASE ShowLibrary
    BY <1>3, <2>1 DEF ShowLibrary, PresentVMLibrary
  <2>2. ASSUME NEW b \in Bundles, BootBundle(b) PROVE StartUnderWay'
    BY <1>4, <2>2 DEF BootBundle
  <2>3. CASE ResumeActive
    BY <2>3 DEF ResumeActive
  <2>4. CASE ForceStopVirtualMachine
    BY <1>2, <2>4 DEF ForceStopVirtualMachine, appVars
  <2>5. QED BY <1>6, <2>1, <2>2, <2>3, <2>4 DEF User
<1>7. ASSUME NEW n \in Machines, StartAnswer(n) \/ GuestStops(n) \/ StopFails(n) PROVE StartUnderWay'
  BY <1>1, <1>2, <1>7 DEF StartAnswer, StartSucceeds, StartFails, GuestStops, StopFails, appVars
<1>8. ASSUME NEW n \in Machines, StopSucceeds(n) PROVE StartUnderWay'
  BY <1>8, PostedStays, BlockType DEF StopSucceeds, appVars, VmTypeOK
<1>9. ASSUME NEW n \in Machines, WorkerRefuses(n) PROVE StartUnderWay'
  BY <1>9, PostedFinish DEF WorkerRefuses
<1>10. ASSUME NEW n \in Machines, WorkerBuilds(n) PROVE StartUnderWay'
  BY <1>10, MachineNumbers DEF WorkerBuilds
<1>11. ASSUME NEW n \in Machines, WorkerSubmits(n) PROVE StartUnderWay'
  <2>1. \A m \in Machines : worker[m] = "queued" => worker'[m] = "queued"
    BY <1>11 DEF WorkerSubmits, VmTypeOK
  <2>2. vm' = vm /\ screen' = screen
    BY <1>11 DEF WorkerSubmits, appVars
  <2>3. PICK b \in Blocks : queue' = Append(queue, b)
    BY <1>11, BlockType DEF WorkerSubmits, VmTypeOK
  <2>4. QED BY <2>1, <2>2, <2>3, PostedStays DEF VmTypeOK
<1>12. CASE RunFinish
  BY <1>1, <1>12 DEF RunFinish
<1>13. CASE RunStopFinish
  <2>1. CASE Finish(vm)
    BY <1>1, <2>1
  <2>2. CASE UNCHANGED appVars
    BY <1>13, <2>2, TurnPasses DEF RunStopFinish, Next_, appVars
  <2>3. QED BY <1>13, <2>1, <2>2 DEF RunStopFinish
<1>14. CASE RunPrepare
  <2>1. queue' = Tail(queue) /\ queue # <<>> /\ Head(queue).kind = "prepare"
          /\ vm' = vm /\ screen' = screen
    BY <1>14 DEF RunPrepare, Next_
  <2>2. \A n \in Machines : worker[n] = "queued" => worker'[n] = "queued"
    <3>1. Head(queue) = queue[1] /\ 1 \in 1 .. Len(queue)
      BY <2>1, TurnPasses DEF VmTypeOK
    <3>2. Head(queue).machine \in Machines /\ worker[Head(queue).machine] # "queued"
      BY <2>1, <3>1 DEF PrepareInv
    <3>3. QED BY <1>14, <3>2 DEF RunPrepare, VmTypeOK
  <2>3. QED BY <2>1, <2>2, TurnPasses
<1>15. CASE RunInvoke
  <2>1. queue # <<>> /\ Head(queue).kind = "invoke" /\ UNCHANGED <<vm, screen, worker>>
    BY <1>15 DEF RunInvoke, Next_, appVars
  <2>2. queue' = Tail(queue) \/ queue' = Append(Tail(queue), Block("finish", NoVM))
    BY <1>15 DEF RunInvoke
  <2>3. (\E i \in 1 .. Len(queue) : queue[i].kind = "finish")
           => \E i \in 1 .. Len(queue') : queue'[i].kind = "finish"
    <3>1. CASE queue' = Tail(queue)
      BY <2>1, <3>1, TurnPasses
    <3>2. CASE queue' = Append(Tail(queue), Block("finish", NoVM))
      <4>1. Tail(queue) \in Seq(Blocks) /\ Len(Tail(queue)) \in Nat /\ Block("finish", NoVM) \in Blocks
        BY <2>1, TurnPasses, BlockType DEF VmTypeOK
      <4>2. Len(queue') = Len(Tail(queue)) + 1 /\ queue'[Len(Tail(queue)) + 1] = Block("finish", NoVM)
        BY <3>2, <4>1, PostedStays
      <4>3. QED BY <4>1, <4>2 DEF Block
    <3>3. QED BY <2>2, <3>1, <3>2
  <2>4. QED BY <2>1, <2>3
<1>16. CASE UNCHANGED vars
  BY <1>2, <1>16 DEF vars, appVars
<1>17. QED
  BY <1>5, <1>6, <1>7, <1>8, <1>9, <1>10, <1>11, <1>12, <1>13, <1>14, <1>15, <1>16
  DEF Next, Framework, StopAnswer, Worker, WorkerStep, MainQueue

\* Every failure path of a start leads back to the library, on every iPadOS
\* version and for any number of boots, also when workers, blocks of the main
\* queue and the permission callback overtake each other.
THEOREM NoDeadScreenSafe == Spec => []NoDeadScreen
<1>1. Init => PrepareInv /\ StartUnderWay
  BY DEF Init, PrepareInv, StartUnderWay
<1>2. StartUnderWay => NoDeadScreen
  <2> SUFFICES ASSUME StartUnderWay, Quiet, screen = "vm", vm = NoVM PROVE FALSE
    BY DEF NoDeadScreen
  <2>1. queue = <<>> /\ \A n \in Machines : worker[n] # "queued"
    BY DEF Quiet
  <2>2. QED BY <2>1 DEF StartUnderWay
<1>3. QED BY <1>1, <1>2, VmTypeSafe, PrepareInductive, StartIsUnderWay, PTL DEF Spec
==============================================================================
