----------------------------- MODULE UsbBridge -----------------------------
(***************************************************************************)
(* The socket server of vmmhook.m that lends the restore device to other   *)
(* processes.  Every connection is handled on a thread of its own: it      *)
(* copies the host's state into the response, takes a lock, and runs its   *)
(* operation, which hands commands and endpoint-0 transfers to the same    *)
(* controller that UsbHost enumerates with.  A worker thread configures    *)
(* RestoreOS as soon as it is published.                                   *)
(*                                                                         *)
(* Completions find their waiter through two shared slots, one for         *)
(* commands and one for endpoint 0.  Bulk transfers have slots and locks   *)
(* of their own and are not part of this module.                           *)
(***************************************************************************)
EXTENDS UsbHost, Sequences

CONSTANTS
    Clients,      \* threads of fake_usb_bridge_handle_client
    Worker,       \* the thread of fake_usb_bridge_prepare_restoreos
    Nobody,       \* no thread
    Operations    \* the operations clients ask for

(* The calls that run under the lock.                                      *)
Calls == {"GET_STATE", "CONTROL", "RESET", "CREATE_ENDPOINT"}

ASSUME BridgeAssumption ==
    /\ Worker \notin Clients
    /\ Nobody \notin Clients \cup {Worker}
    /\ Operations \subseteq Calls

VARIABLES
    thread,           \* what every thread is doing
    bridgeLock,       \* fake_usb_bridge_lock
    commandLock,      \* fake_usb_bridge_command_lock
    pendingCommand,   \* fake_usb_bridge_command_pending: its owner
    pendingTransfer,  \* fake_usb_bridge_transfer_pending[0]: its owner
    inFlight,         \* threads whose endpoint-0 ring the controller holds
    orphans,          \* rings it still holds of requests that gave up
    endpoints,        \* fake_usb_bridge_endpoints of the restore interface
    jobs,             \* generations that prepare_restoreos was queued for
    serving           \* fake_usb_bridge_started

bridgeVars == <<thread, bridgeLock, commandLock, pendingCommand,
                pendingTransfer, inFlight, orphans, endpoints, jobs, serving>>

allVars == <<hostVars, bridgeVars>>

Threads == Clients \cup {Worker}

Steps ==
    {"idle", "generation", "product", "state", "lock", "next", "command",
     "await", "ring", "transfer", "drop", "send", "finish", "done"}

Signals == {"none", "ok", "failed"}

Outcomes == {"none", "ok", "ENODEV", "EINVAL", "EIO", "ETIMEDOUT"}

Thread ==
    [at : Steps,                     \* where the thread is
     todo : Seq(Calls),              \* calls it still has to make
     generation : Nat,               \* response.device_generation
     product : Products \cup {NoProduct},
     ready : BOOLEAN,                \* response.ready
     command : Commands,             \* pending->command_type
     signal : Signals,               \* the semaphore, with the status
     own : BOOLEAN,                  \* ghost: its own ring was completed
     outcome : Outcomes]             \* response.status

Asleep ==
    [at |-> "idle", todo |-> <<>>, generation |-> 0, product |-> NoProduct,
     ready |-> FALSE, command |-> "PortReset", signal |-> "none",
     own |-> FALSE, outcome |-> "none"]

BridgeTypeOK ==
    /\ TypeOK
    /\ thread \in [Threads -> Thread]
    /\ bridgeLock \in Threads \cup {Nobody}
    /\ commandLock \in Threads \cup {Nobody}
    /\ pendingCommand \in Threads \cup {Nobody}
    /\ pendingTransfer \in Threads \cup {Nobody}
    /\ inFlight \subseteq Threads
    /\ orphans \in Nat
    /\ endpoints \in BOOLEAN
    /\ jobs \subseteq Nat
    /\ serving \in BOOLEAN

BridgeInit ==
    /\ HostInit
    /\ thread = [t \in Threads |-> Asleep]
    /\ bridgeLock = Nobody
    /\ commandLock = Nobody
    /\ pendingCommand = Nobody
    /\ pendingTransfer = Nobody
    /\ inFlight = {}
    /\ orphans = 0
    /\ endpoints = FALSE
    /\ jobs = {}
    /\ serving = FALSE

-----------------------------------------------------------------------------
(* The interrupt handler as the bridge sees it.                            *)

Signal(t, status) == thread' = [thread EXCEPT ![t].signal = status]

(* The claim of process_interrupt: any answer of the awaited type belongs  *)
(* to the thread in the command slot, whoever sent the command.            *)
ClaimCommand ==
    /\ interrupt = Idle
    /\ pendingCommand # Nobody
    /\ LET t == pendingCommand
           c == thread[t].command
       IN  /\ outstanding[c] > 0
           /\ outstanding' = [outstanding EXCEPT ![c] = @ - 1]
           /\ \E status \in {"ok"} \cup (IF Faulty THEN {"failed"} ELSE {}) :
                 Signal(t, status)
    /\ UNCHANGED <<stage, address, generation, descriptor, retries, tail,
                   reading, polls, portEvents, interrupt, device, changes,
                   bridgeLock, commandLock, pendingCommand, pendingTransfer,
                   inFlight, orphans, endpoints, jobs, serving>>

Claimed == {thread[t].command : t \in {pendingCommand} \cap Threads}

(* The descriptor read of an enumeration completes while a thread is in    *)
(* the endpoint-0 slot: an error is taken for the thread's own, a success  *)
(* is not its terminal, and neither reaches the enumeration.               *)
ReadTaken ==
    /\ interrupt = Idle
    /\ reading > 0
    /\ pendingTransfer # Nobody
    /\ reading' = reading - 1
    /\ \/ /\ device # Unplugged
          /\ descriptor' = device
          /\ UNCHANGED thread
       \/ /\ Signal(pendingTransfer, "failed")
          /\ UNCHANGED descriptor
    /\ UNCHANGED <<stage, address, generation, retries, tail, outstanding,
                   polls, portEvents, interrupt, device, changes, bridgeLock,
                   commandLock, pendingCommand, pendingTransfer, inFlight,
                   orphans, endpoints, jobs, serving>>

(* Mutant: any success completes the request in the slot.                  *)
RingDoneAny(r) ==
    /\ interrupt = Idle
    /\ \/ /\ r \in inFlight
          /\ inFlight' = inFlight \ {r}
          /\ UNCHANGED orphans
       \/ /\ r = Nobody
          /\ orphans > 0
          /\ orphans' = orphans - 1
          /\ UNCHANGED inFlight
    /\ \E status \in {"ok", "failed"} :
          /\ status = "ok" => device # Unplugged
          /\ thread' =
               IF pendingTransfer = Nobody
               THEN thread
               ELSE [thread EXCEPT
                       ![pendingTransfer].signal = status,
                       ![pendingTransfer].own = (pendingTransfer = r)]
    /\ UNCHANGED <<hostVars, bridgeLock, commandLock, pendingCommand,
                   pendingTransfer, endpoints, jobs, serving>>

(* The controller completes the ring of thread r, or one whose request     *)
(* gave up long ago.  A success counts only for the ring that the slot's   *)
(* owner waits for, an error for whoever is in the slot.                   *)
RingDone(r) ==
    /\ interrupt = Idle
    /\ \/ /\ r \in inFlight
          /\ inFlight' = inFlight \ {r}
          /\ UNCHANGED orphans
       \/ /\ r = Nobody
          /\ orphans > 0
          /\ orphans' = orphans - 1
          /\ UNCHANGED inFlight
    /\ \E status \in {"ok", "failed"} :
          /\ status = "ok" => device # Unplugged
          /\ thread' =
               IF \/ pendingTransfer = Nobody
                  \/ status = "ok" /\ pendingTransfer # r
               THEN thread
               ELSE [thread EXCEPT
                       ![pendingTransfer].signal = status,
                       ![pendingTransfer].own = (pendingTransfer = r)]
    /\ UNCHANGED <<hostVars, bridgeLock, commandLock, pendingCommand,
                   pendingTransfer, endpoints, jobs, serving>>

(* What the enumeration does on its own.  Publishing RestoreOS queues the  *)
(* worker; dropping a personality forgets its endpoints.                   *)
Enumerate ==
    /\ \/ \E c \in Commands \ Claimed : CommandDone(c)
       \/ pendingTransfer = Nobody /\ TransferDone
       \/ PortChange
       \/ Handle
       \/ PollTimer
       \/ DeviceChange
    /\ jobs' = IF ~Ready /\ stage' = "DeviceDescriptorRead"
                  /\ descriptor = RestoreOS
               THEN jobs \cup {generation}
               ELSE jobs
    /\ endpoints' = (endpoints /\ generation' = generation)
    /\ serving' = (serving \/ stage' = "DeviceDescriptorRead")
    /\ UNCHANGED <<thread, bridgeLock, commandLock, pendingCommand,
                   pendingTransfer, inFlight, orphans>>

-----------------------------------------------------------------------------
(* fake_usb_bridge_handle_client: the response is filled in field by field *)
(* before the operation's lock is taken.                                   *)

OthersUnchanged ==
    UNCHANGED <<hostVars, bridgeLock, commandLock, pendingCommand,
                pendingTransfer, inFlight, orphans, endpoints, jobs, serving>>

Connect(t, op) ==
    /\ serving
    /\ thread[t].at = "idle"
    /\ thread' = [thread EXCEPT ![t].at = "generation", ![t].todo = <<op>>]
    /\ OthersUnchanged

CopyGeneration(t) ==
    /\ thread[t].at = "generation"
    /\ thread' = [thread EXCEPT ![t].at = "product",
                                ![t].generation = generation]
    /\ OthersUnchanged

CopyProduct(t) ==
    /\ thread[t].at = "product"
    /\ thread' = [thread EXCEPT ![t].at = "state", ![t].product = descriptor]
    /\ OthersUnchanged

CopyState(t) ==
    /\ thread[t].at = "state"
    /\ thread' = [thread EXCEPT ![t].at = "lock", ![t].ready = Ready]
    /\ OthersUnchanged

(* prepare_restoreos reads the configuration header, then the whole        *)
(* configuration, sets it, and creates the interface's endpoints.          *)
Preparation == <<"CONTROL", "CONTROL", "CONTROL", "CREATE_ENDPOINT">>

StartWorker ==
    /\ thread[Worker].at \in {"idle", "done"}
    /\ \E g \in jobs :
          /\ jobs' = jobs \ {g}
          /\ thread' = [thread EXCEPT ![Worker] =
                          [Asleep EXCEPT !.at = "lock", !.generation = g,
                                         !.todo = Preparation]]
    /\ UNCHANGED <<hostVars, bridgeLock, commandLock, pendingCommand,
                   pendingTransfer, inFlight, orphans, endpoints, serving>>

(* A client trusts the copy it made; the worker looks again.               *)
Lock(t) ==
    /\ thread[t].at = "lock"
    /\ bridgeLock = Nobody
    /\ bridgeLock' = t
    /\ LET usable == IF t = Worker
                     THEN /\ thread[t].generation = generation
                          /\ descriptor = RestoreOS
                          /\ Ready
                     ELSE thread[t].ready
       IN  thread' = [thread EXCEPT
             ![t].at = IF usable THEN "next" ELSE "finish",
             ![t].outcome = IF usable THEN "ok" ELSE "ENODEV"]
    /\ UNCHANGED <<hostVars, commandLock, pendingCommand, pendingTransfer,
                   inFlight, orphans, endpoints, jobs, serving>>

(* Mutant: an error returns without unlocking.                             *)
FinishLocked(t) ==
    /\ thread[t].at = "finish"
    /\ bridgeLock' = IF thread[t].outcome = "ok" THEN Nobody ELSE t
    /\ thread' = [thread EXCEPT ![t].at = "done"]
    /\ UNCHANGED <<hostVars, commandLock, pendingCommand, pendingTransfer,
                   inFlight, orphans, endpoints, jobs, serving>>

Finish(t) ==
    /\ thread[t].at = "finish"
    /\ bridgeLock' = Nobody
    /\ thread' = [thread EXCEPT ![t].at = "done"]
    /\ UNCHANGED <<hostVars, commandLock, pendingCommand, pendingTransfer,
                   inFlight, orphans, endpoints, jobs, serving>>

-----------------------------------------------------------------------------
(* One call of the operation.                                              *)

Call(t) == Head(thread[t].todo)

(* The call returned: the next one, or the end.  An error ends the rest.   *)
(* A reset takes back what the response said of the device.                *)
After(t, outcome) ==
    LET rest == IF outcome = "ok" THEN Tail(thread[t].todo) ELSE <<>>
    IN  [thread EXCEPT
           ![t].todo = rest,
           ![t].outcome = outcome,
           ![t].signal = "none",
           ![t].ready = @ /\ Call(t) # "RESET",
           ![t].generation = IF Call(t) = "RESET" THEN generation ELSE @,
           ![t].at = IF rest = <<>> THEN "finish" ELSE "next"]

Issue(t, command) ==
    thread' = [thread EXCEPT ![t].at = "command", ![t].command = command,
                             ![t].signal = "none", ![t].own = FALSE]

(* The calls up to their first command or transfer.                        *)
Begin(t) ==
    /\ thread[t].at = "next"
    /\ CASE Call(t) = "GET_STATE" -> thread' = After(t, "ok")
         [] Call(t) = "RESET" -> Issue(t, "PortReset")
         [] Call(t) = "CREATE_ENDPOINT" ->
              IF address = 0 THEN thread' = After(t, "EINVAL")
              ELSE IF endpoints THEN thread' = After(t, "ok")
              ELSE Issue(t, "EndpointCreate")
         [] Call(t) = "CONTROL" ->
              IF tail
              THEN thread' = [thread EXCEPT ![t].at = "ring",
                                            ![t].signal = "none",
                                            ![t].own = FALSE]
              ELSE Issue(t, "EndpointSetNextTransfer")
    /\ OthersUnchanged

(* fake_usb_bridge_command.                                                *)
SendCommand(t) ==
    /\ thread[t].at = "command"
    /\ commandLock = Nobody
    /\ commandLock' = t
    /\ pendingCommand' = t
    /\ outstanding' = [outstanding EXCEPT ![thread[t].command] = @ + 1]
    /\ thread' = [thread EXCEPT ![t].at = "await"]
    /\ UNCHANGED <<stage, address, generation, descriptor, retries, tail,
                   reading, polls, portEvents, interrupt, device, changes,
                   bridgeLock, pendingTransfer, inFlight, orphans, endpoints,
                   jobs, serving>>

(* What follows a command: the rest of the call, or its error path, which  *)
(* for a control request resets endpoint 0 while the device has an address.*)
Answered(t, outcome) ==
    CASE Call(t) = "CONTROL" /\ thread[t].command = "EndpointReset" ->
           After(t, thread[t].outcome)
      [] Call(t) = "CONTROL" /\ thread[t].command # "EndpointReset" ->
           IF outcome = "ok"
           THEN [thread EXCEPT ![t].at = "ring", ![t].signal = "none"]
           ELSE IF address # 0
           THEN [thread EXCEPT ![t].at = "command", ![t].outcome = outcome,
                               ![t].command = "EndpointReset",
                               ![t].signal = "none"]
           ELSE After(t, outcome)
      [] Call(t) = "RESET" /\ outcome = "ok" ->
           [thread EXCEPT ![t].at = "drop"]
      [] OTHER -> After(t, outcome)

(* Mutant: a command that times out is left in the slot.                   *)
CommandReturnsPending(t) ==
    /\ thread[t].at = "await"
    /\ \E outcome \in Outcomes :
          /\ outcome = CASE thread[t].signal = "none" -> "ETIMEDOUT"
                         [] thread[t].signal = "ok" -> "ok"
                         [] thread[t].signal = "failed" -> "EIO"
          /\ thread' = Answered(t, outcome)
          /\ endpoints' = IF Call(t) = "CREATE_ENDPOINT" /\ outcome = "ok"
                          THEN TRUE ELSE endpoints
    /\ commandLock' = Nobody
    /\ pendingCommand' = IF thread[t].signal = "none" THEN t ELSE Nobody
    /\ UNCHANGED <<hostVars, bridgeLock, pendingTransfer, inFlight, orphans,
                   jobs, serving>>

CommandReturns(t) ==
    /\ thread[t].at = "await"
    /\ \E outcome \in Outcomes :
          /\ outcome = CASE thread[t].signal = "none" -> "ETIMEDOUT"
                         [] thread[t].signal = "ok" -> "ok"
                         [] thread[t].signal = "failed" -> "EIO"
          /\ thread' = Answered(t, outcome)
          /\ endpoints' = IF Call(t) = "CREATE_ENDPOINT" /\ outcome = "ok"
                          THEN TRUE ELSE endpoints
    /\ commandLock' = Nobody
    /\ pendingCommand' = Nobody
    /\ UNCHANGED <<hostVars, bridgeLock, pendingTransfer, inFlight, orphans,
                   jobs, serving>>

(* fake_usb_bridge_control from the doorbell on.                           *)
RingControl(t) ==
    /\ thread[t].at = "ring"
    /\ pendingTransfer' = t
    /\ inFlight' = inFlight \cup {t}
    /\ thread' = [thread EXCEPT ![t].at = "transfer"]
    /\ UNCHANGED <<hostVars, bridgeLock, commandLock, pendingCommand, orphans,
                   endpoints, jobs, serving>>

ControlReturns(t) ==
    /\ thread[t].at = "transfer"
    /\ pendingTransfer' = Nobody
    /\ inFlight' = inFlight \ {t}
    /\ orphans' = IF t \in inFlight THEN orphans + 1 ELSE orphans
    /\ tail' = (thread[t].signal = "ok")
    /\ LET outcome == CASE thread[t].signal = "none" -> "ETIMEDOUT"
                        [] thread[t].signal = "ok" -> "ok"
                        [] thread[t].signal = "failed" -> "EIO"
       IN  thread' = IF outcome # "ok" /\ address # 0
                     THEN [thread EXCEPT ![t].at = "command",
                                         ![t].outcome = outcome,
                                         ![t].command = "EndpointReset",
                                         ![t].signal = "none"]
                     ELSE After(t, outcome)
    /\ UNCHANGED <<stage, address, generation, descriptor, retries,
                   outstanding, reading, polls, portEvents, interrupt, device,
                   changes, bridgeLock, commandLock, pendingCommand, endpoints,
                   jobs, serving>>

(* fake_usb_bridge_reset after its command: forget the personality, then   *)
(* ask for the port status as the enumeration does.                        *)
ResetDrop(t) ==
    /\ thread[t].at = "drop"
    /\ DropPersonality
    /\ endpoints' = FALSE
    /\ thread' = [thread EXCEPT ![t].at = "send"]
    /\ UNCHANGED <<stage, descriptor, outstanding, reading, polls, portEvents,
                   interrupt, device, changes, bridgeLock, commandLock,
                   pendingCommand, pendingTransfer, inFlight, orphans, jobs,
                   serving>>

ResetSend(t) ==
    /\ thread[t].at = "send"
    /\ Send("PortStatus", "PortStatus")
    /\ thread' = After(t, "ok")
    /\ UNCHANGED <<address, generation, descriptor, retries, tail, reading,
                   polls, portEvents, interrupt, device, changes, bridgeLock,
                   commandLock, pendingCommand, pendingTransfer, inFlight,
                   orphans, endpoints, jobs, serving>>

-----------------------------------------------------------------------------
ThreadStep(t) ==
    \/ CopyGeneration(t) \/ CopyProduct(t) \/ CopyState(t)
    \/ Lock(t) \/ Begin(t) \/ SendCommand(t) \/ CommandReturns(t)
    \/ RingControl(t) \/ ControlReturns(t) \/ ResetDrop(t) \/ ResetSend(t)
    \/ Finish(t)

BridgeNext ==
    \/ Enumerate
    \/ ClaimCommand
    \/ ReadTaken
    \/ \E r \in Threads \cup {Nobody} : RingDone(r)
    \/ \E t \in Clients, op \in Operations : Connect(t, op)
    \/ StartWorker
    \/ \E t \in Threads : ThreadStep(t)

(* The controller and its queue make progress, and every thread is         *)
(* scheduled; all waits but the one for the lock have a timeout.           *)
BridgeFairness ==
    /\ WF_allVars(/\ Enumerate \/ ClaimCommand \/ ReadTaken
                    \/ StartWorker \/ \E r \in Threads : RingDone(r)
                  /\ UNCHANGED device)
    /\ \A t \in Threads : WF_allVars(ThreadStep(t))

BridgeSafety == BridgeInit /\ [][BridgeNext]_allVars

BridgeSpec == BridgeSafety /\ BridgeFairness

-----------------------------------------------------------------------------
(* The two slots always belong to the thread that holds the matching lock  *)
(* and still waits on its semaphore, so a completion is never delivered to *)
(* a request that has returned.                                            *)
PendingIsOwned ==
    /\ \A t \in Threads :
          /\ pendingCommand = t <=> thread[t].at = "await"
          /\ pendingCommand = t => commandLock = t
          /\ pendingTransfer = t <=> thread[t].at = "transfer"
          /\ pendingTransfer = t => bridgeLock = t

(* A control request only succeeds by the completion of its own ring,      *)
(* however late the rings of earlier, timed-out requests complete.         *)
ControlOkIsOwn ==
    \A t \in Threads :
        thread[t].at = "transfer" /\ thread[t].signal = "ok" => thread[t].own

(* Every accepted connection is answered: no two threads wait for each     *)
(* other's lock, and no lost completion blocks a request for good.         *)
RequestsAnswered ==
    \A t \in Clients :
        thread[t].at = "generation" ~> thread[t].at = "done"
=============================================================================
