------------------------------ MODULE UsbHost ------------------------------
(***************************************************************************)
(* The userspace USB host controller that vmmhook.m runs inside the VMM:   *)
(* it powers the virtual controller on, enumerates whatever restore        *)
(* personality the guest presents on the port (DFU, Recovery, RestoreOS),  *)
(* and publishes it to the bridge clients as a "generation".               *)
(*                                                                         *)
(* Interrupts of Apple's virtual controller (AVP, external) are handled    *)
(* one at a time on its serial queue.  fake_usb_host_process_interrupt     *)
(* loads the stage once and acts on the loaded value, so a handler is two  *)
(* steps here: an arrival, which fills "interrupt", and an action on it.   *)
(* Bridge clients (module UsbBridge) write the same variables from other   *)
(* threads between the two.                                                *)
(***************************************************************************)
EXTENDS Naturals

CONSTANTS
    Products,     \* USB product ids a personality can have
    RestoreOS,    \* 0x12ac, the one that prepare_restoreos configures
    Unplugged,    \* nothing is connected to the port
    NoProduct,    \* the descriptor buffer is zeroed
    Idle,         \* no interrupt is being handled
    MaxRetry,     \* 15 in the code: descriptor reads retried after a stall
    MaxChanges,   \* bound: personality changes of the device
    Faulty        \* whether the controller may answer with an error

Commands ==
    {"ControllerPowerOn", "ControllerStart", "PortPowerOn", "PortReset",
     "PortStatus", "DeviceCreate", "EndpointCreate", "EndpointReset",
     "EndpointSetNextTransfer"}

Stages ==
    Commands \cup {"WaitForConnect", "ReadDeviceDescriptor",
                   "DeviceDescriptorRead", "Failed"}

VARIABLES
    stage,        \* fake_usb_host_stage
    address,      \* fake_usb_host_device_address: 0, or set by DeviceCreate
    generation,   \* fake_usb_device_generation
    descriptor,   \* product id held in fake_usb_device_descriptor
    retries,      \* fake_usb_descriptor_retry_count
    tail,         \* whether fake_usb_bridge_tail is non-NULL
    outstanding,  \* commands handed to the controller and not yet answered
    reading,      \* descriptor transfers rung and not yet completed
    polls,        \* armed fake_usb_host_poll_port timers
    portEvents,   \* port-change interrupts not yet handled
    interrupt,    \* the interrupt being handled, with the stage it loaded
    device,       \* external: the personality on the wire
    changes       \* how often the personality changed (bound)

hostVars == <<stage, address, generation, descriptor, retries, tail,
              outstanding, reading, polls, portEvents, interrupt, device,
              changes>>

Results == {"ok", "failed", "connected", "disconnected", "stall", "short"}

Interrupts ==
    [kind : {"command", "transfer", "port", "drop"},
     command : Commands, result : Results, stage : Stages]

ASSUME HostAssumption ==
    /\ RestoreOS \in Products
    /\ Unplugged \notin Products
    /\ NoProduct \notin Products
    /\ MaxRetry \in Nat
    /\ MaxChanges \in Nat
    /\ Faulty \in BOOLEAN
    /\ Unplugged # NoProduct
    /\ Idle \notin Interrupts

Ready == stage = "DeviceDescriptorRead"

(* A stage in which a port change asks for the port status again.          *)
AwaitingPort == {"PortPowerOn", "PortStatus", "WaitForConnect"}

TypeOK ==
    /\ stage \in Stages
    /\ address \in {0, 1}
    /\ generation \in Nat
    /\ descriptor \in Products \cup {NoProduct}
    /\ retries \in 0..MaxRetry
    /\ tail \in BOOLEAN
    /\ outstanding \in [Commands -> Nat]
    /\ reading \in Nat
    /\ polls \in Nat
    /\ portEvents \in Nat
    /\ interrupt \in Interrupts \cup {Idle}
    /\ device \in Products \cup {Unplugged}
    /\ changes \in 0..MaxChanges

-----------------------------------------------------------------------------
(* traced_usb_hci_init: the controller object exists, ControllerPowerOn is *)
(* scheduled, and nothing has been read from the port yet.                 *)
HostInit ==
    /\ stage = "ControllerPowerOn"
    /\ address = 0
    /\ generation = 1
    /\ descriptor = NoProduct
    /\ retries = 0
    /\ tail = FALSE
    /\ outstanding = [c \in Commands |->
                        IF c = "ControllerPowerOn" THEN 1 ELSE 0]
    /\ reading = 0
    /\ polls = 0
    /\ portEvents = 0
    /\ interrupt = Idle
    /\ device \in Products \cup {Unplugged}
    /\ changes = 0

(* fake_usb_host_send_after: publish the stage, hand the command over.     *)
Send(next, command) ==
    /\ stage' = next
    /\ outstanding' = [outstanding EXCEPT ![command] = @ + 1]

(* fake_usb_bridge_drop_personality, as far as the host side goes.         *)
DropPersonality ==
    /\ address' = 0
    /\ retries' = 0
    /\ tail' = FALSE
    /\ generation' = generation + 1

-----------------------------------------------------------------------------
(* Arrivals: the controller reports something and the handler starts.      *)

Arrive(kind, command, result) ==
    /\ interrupt = Idle
    /\ interrupt' = [kind |-> kind, command |-> command, result |-> result,
                     stage |-> stage]

Answers(command) ==
    (IF command = "PortStatus"
     THEN {IF device = Unplugged THEN "disconnected" ELSE "connected"}
     ELSE {"ok"})
    \cup (IF Faulty THEN {"failed"} ELSE {})

CommandDone(command) ==
    /\ outstanding[command] > 0
    /\ outstanding' = [outstanding EXCEPT ![command] = @ - 1]
    /\ \E result \in Answers(command) : Arrive("command", command, result)
    /\ UNCHANGED <<stage, address, generation, descriptor, retries, tail,
                   reading, polls, portEvents, device, changes>>

(* The data stage has written the buffer by the time the interrupt comes.  *)
TransferDone ==
    /\ reading > 0
    /\ reading' = reading - 1
    /\ \/ /\ device # Unplugged
          /\ descriptor' = device
          /\ Arrive("transfer", "EndpointSetNextTransfer", "ok")
       \/ /\ Arrive("transfer", "EndpointSetNextTransfer", "stall")
          /\ UNCHANGED descriptor
       \/ /\ Faulty
          /\ Arrive("transfer", "EndpointSetNextTransfer", "short")
          /\ UNCHANGED descriptor
    /\ UNCHANGED <<stage, address, generation, retries, tail, outstanding,
                   polls, portEvents, device, changes>>

PortChange ==
    /\ portEvents > 0
    /\ portEvents' = portEvents - 1
    /\ Arrive("port", "PortStatus", "ok")
    /\ UNCHANGED <<stage, address, generation, descriptor, retries, tail,
                   outstanding, reading, polls, device, changes>>

-----------------------------------------------------------------------------
(* Handling: one action per arm of fake_usb_host_process_interrupt.        *)

Handling(kind) == interrupt # Idle /\ interrupt.kind = kind

CommandOk(command) ==
    /\ Handling("command")
    /\ interrupt.result # "failed"
    /\ interrupt.command = command
    /\ interrupt.stage = command

CommandFailed ==
    /\ Handling("command")
    /\ interrupt.result = "failed"
    /\ stage' = "Failed"
    /\ interrupt' = Idle
    /\ UNCHANGED <<address, generation, descriptor, retries, tail,
                   outstanding, reading, polls, portEvents, device, changes>>

(* An answer that does not belong to the current stage changes nothing.    *)
CommandIgnored ==
    /\ Handling("command")
    /\ interrupt.result # "failed"
    /\ interrupt.stage # interrupt.command
    /\ interrupt' = Idle
    /\ UNCHANGED <<stage, address, generation, descriptor, retries, tail,
                   outstanding, reading, polls, portEvents, device, changes>>

(* The steps of the enumeration that only send the next command.           *)
NextCommand ==
    [ControllerPowerOn |-> "ControllerStart",
     ControllerStart |-> "PortPowerOn",
     PortPowerOn |-> "PortStatus",
     PortReset |-> "DeviceCreate",
     EndpointReset |-> "EndpointSetNextTransfer"]

Advance ==
    /\ \E c \in DOMAIN NextCommand :
          CommandOk(c) /\ Send(NextCommand[c], NextCommand[c])
    /\ interrupt' = Idle
    /\ UNCHANGED <<address, generation, descriptor, retries, tail, reading,
                   polls, portEvents, device, changes>>

PortConnected ==
    /\ CommandOk("PortStatus")
    /\ interrupt.result = "connected"
    /\ Send("PortReset", "PortReset")
    /\ interrupt' = Idle
    /\ UNCHANGED <<address, generation, descriptor, retries, tail, reading,
                   polls, portEvents, device, changes>>
(* Mutant: an empty port is not polled again.                              *)
PortEmptyUnpolled ==
    /\ CommandOk("PortStatus")
    /\ interrupt.result = "disconnected"
    /\ stage' = "WaitForConnect"
    /\ interrupt' = Idle
    /\ UNCHANGED <<address, generation, descriptor, retries, tail,
                   outstanding, reading, polls, portEvents, device, changes>>

PortEmpty ==
    /\ CommandOk("PortStatus")
    /\ interrupt.result = "disconnected"
    /\ stage' = "WaitForConnect"
    /\ polls' = polls + 1
    /\ interrupt' = Idle
    /\ UNCHANGED <<address, generation, descriptor, retries, tail,
                   outstanding, reading, portEvents, device, changes>>

DeviceCreated ==
    /\ CommandOk("DeviceCreate")
    /\ address' = 1
    /\ Send("EndpointCreate", "EndpointCreate")
    /\ interrupt' = Idle
    /\ UNCHANGED <<generation, descriptor, retries, tail, reading, polls,
                   portEvents, device, changes>>

EndpointCreated ==
    /\ CommandOk("EndpointCreate")
    /\ descriptor' = NoProduct
    /\ Send("EndpointSetNextTransfer", "EndpointSetNextTransfer")
    /\ interrupt' = Idle
    /\ UNCHANGED <<address, generation, retries, tail, reading, polls,
                   portEvents, device, changes>>
(* Mutant: a previous stage's buffer counts as read.                       *)
RingDoorbellEarly ==
    /\ CommandOk("EndpointSetNextTransfer")
    /\ stage' = "DeviceDescriptorRead"
    /\ reading' = reading + 1
    /\ interrupt' = Idle
    /\ UNCHANGED <<address, generation, descriptor, retries, tail,
                   outstanding, polls, portEvents, device, changes>>

RingDoorbell ==
    /\ CommandOk("EndpointSetNextTransfer")
    /\ stage' = "ReadDeviceDescriptor"
    /\ reading' = reading + 1
    /\ interrupt' = Idle
    /\ UNCHANGED <<address, generation, descriptor, retries, tail,
                   outstanding, polls, portEvents, device, changes>>

DescriptorRead ==
    /\ Handling("transfer")
    /\ interrupt.stage = "ReadDeviceDescriptor"
    /\ interrupt.result = "ok"
    /\ stage' = "DeviceDescriptorRead"
    /\ tail' = TRUE
    /\ interrupt' = Idle
    /\ UNCHANGED <<address, generation, descriptor, retries, outstanding,
                   reading, polls, portEvents, device, changes>>

DescriptorStalled ==
    /\ Handling("transfer")
    /\ interrupt.stage = "ReadDeviceDescriptor"
    /\ interrupt.result = "stall"
    /\ retries < MaxRetry
    /\ retries' = retries + 1
    /\ Send("EndpointReset", "EndpointReset")
    /\ interrupt' = Idle
    /\ UNCHANGED <<address, generation, descriptor, tail, reading, polls,
                   portEvents, device, changes>>

(* Retries used up, a short answer, or a stage that is no longer reading:  *)
(* no arm of the code applies and the stage stays where it is.             *)
DescriptorDropped ==
    /\ Handling("transfer")
    /\ \/ interrupt.stage # "ReadDeviceDescriptor"
       \/ interrupt.result = "short"
       \/ interrupt.result = "stall" /\ retries = MaxRetry
    /\ interrupt' = Idle
    /\ UNCHANGED <<stage, address, generation, descriptor, retries, tail,
                   outstanding, reading, polls, portEvents, device, changes>>

(* The device left while it was published.  The personality is dropped     *)
(* first; the stage still says "read" until the port status is requested.  *)
PortDrop ==
    /\ Handling("port")
    /\ interrupt.stage = "DeviceDescriptorRead"
    /\ DropPersonality
    /\ interrupt' = [interrupt EXCEPT !.kind = "drop"]
    /\ UNCHANGED <<stage, descriptor, outstanding, reading, polls,
                   portEvents, device, changes>>

PortDropped ==
    /\ Handling("drop")
    /\ Send("PortStatus", "PortStatus")
    /\ interrupt' = Idle
    /\ UNCHANGED <<address, generation, descriptor, retries, tail, reading,
                   polls, portEvents, device, changes>>

PortAgain ==
    /\ Handling("port")
    /\ interrupt.stage \in AwaitingPort
    /\ Send("PortStatus", "PortStatus")
    /\ interrupt' = Idle
    /\ UNCHANGED <<address, generation, descriptor, retries, tail, reading,
                   polls, portEvents, device, changes>>
(* Mutant: port changes are only looked at before a device is published.   *)
PortIgnoredWhenReady ==
    /\ Handling("port")
    /\ interrupt.stage \notin AwaitingPort
    /\ interrupt' = Idle
    /\ UNCHANGED <<stage, address, generation, descriptor, retries, tail,
                   outstanding, reading, polls, portEvents, device, changes>>

PortIgnored ==
    /\ Handling("port")
    /\ interrupt.stage \notin AwaitingPort \cup {"DeviceDescriptorRead"}
    /\ interrupt' = Idle
    /\ UNCHANGED <<stage, address, generation, descriptor, retries, tail,
                   outstanding, reading, polls, portEvents, device, changes>>

(* fake_usb_host_poll_port's timer, one second after an empty port.        *)
PollTimer ==
    /\ polls > 0
    /\ interrupt = Idle
    /\ polls' = polls - 1
    /\ IF stage = "WaitForConnect"
       THEN Send("PortStatus", "PortStatus")
       ELSE UNCHANGED <<stage, outstanding>>
    /\ UNCHANGED <<address, generation, descriptor, retries, tail, reading,
                   portEvents, interrupt, device, changes>>

(* External: the guest boots the next stage, disconnects or reconnects.    *)
(* A device that leaves is always reported; one that is attached to an     *)
(* empty port may not be, which is why the code polls.                     *)
DeviceChange ==
    /\ changes < MaxChanges
    /\ changes' = changes + 1
    /\ \E p \in (Products \cup {Unplugged}) \ {device} : device' = p
    /\ \/ portEvents' = portEvents + 1
       \/ device = Unplugged /\ UNCHANGED portEvents
    /\ UNCHANGED <<stage, address, generation, descriptor, retries, tail,
                   outstanding, reading, polls, interrupt>>

-----------------------------------------------------------------------------
Handle ==
    \/ CommandFailed \/ CommandIgnored \/ Advance \/ PortConnected
    \/ PortEmpty \/ DeviceCreated \/ EndpointCreated \/ RingDoorbell
    \/ DescriptorRead \/ DescriptorStalled \/ DescriptorDropped
    \/ PortDrop \/ PortDropped \/ PortAgain \/ PortIgnored

HostNext ==
    \/ \E c \in Commands : CommandDone(c)
    \/ TransferDone
    \/ PortChange
    \/ Handle
    \/ PollTimer
    \/ DeviceChange

-----------------------------------------------------------------------------
(* The controller answers what it is given and its serial queue runs what  *)
(* is put on it; the device itself is free never to change.                *)
HostStep ==
    \/ \E c \in Commands : CommandDone(c)
    \/ TransferDone \/ PortChange \/ Handle \/ PollTimer

HostFairness == WF_hostVars(HostStep)

HostSafety == HostInit /\ [][HostNext]_hostVars

HostSpec == HostSafety /\ HostFairness

-----------------------------------------------------------------------------
(* The stages in which the device has been given its address.              *)
Addressed ==
    {"EndpointCreate", "EndpointReset", "EndpointSetNextTransfer",
     "ReadDeviceDescriptor", "DeviceDescriptorRead"}

(* The enumeration has stopped for good: the controller refused a command, *)
(* or the last permitted descriptor read did not deliver 18 bytes.         *)
GaveUp ==
    \/ stage = "Failed"
    \/ /\ stage = "ReadDeviceDescriptor"
       /\ reading = 0
       /\ interrupt = Idle

(* A published device has an address, a descriptor and an endpoint-0 ring  *)
(* to append to, except between drop_personality and the store of          *)
(* PortStatus that follows it in the port-change arm.                      *)
ReadyIsDescribed ==
    Ready /\ ~Handling("drop") =>
        address = 1 /\ descriptor \in Products /\ tail

(* When the interrupt queue is empty, the personality that is published is *)
(* the one on the wire: a port change that the handler ignores during the  *)
(* enumeration never leaves an older descriptor published.                 *)
PublishedIsPresent ==
    Ready /\ interrupt = Idle /\ portEvents = 0 => descriptor = device

(* Once the device stops changing, the host ends up publishing it, polling *)
(* an empty port, or having given up; it is never lost half way through an *)
(* enumeration because a port change was ignored there.                    *)
DeviceIsPublished ==
    <>[](\/ GaveUp
         \/ Ready /\ descriptor = device
         \/ device = Unplugged /\ stage \in AwaitingPort)

=============================================================================
