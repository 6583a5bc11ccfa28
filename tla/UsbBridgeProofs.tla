-------------------------- MODULE UsbBridgeProofs --------------------------
(***************************************************************************)
(* The enumeration state machine of UsbHost, proved for every set of       *)
(* products, every retry limit and every number of reconnections: its type *)
(* invariant, that a published device is described, and that what is       *)
(* published is what is on the wire once no port change is waiting.        *)
(*                                                                         *)
(* The bridge server, proved for any number of client threads: its types,  *)
(* that the two slots always belong to a thread that holds the matching    *)
(* lock and still waits, and that a control request succeeds only by the   *)
(* completion of its own ring.  The steps of the enumeration come in       *)
(* through its type invariant; every other step moves one thread, and what *)
(* the others hold follows from the two locks.                             *)
(***************************************************************************)
EXTENDS UsbBridge, TLAPS


(* Handlers run one at a time on the serial queue, so the stage a handler  *)
(* loaded is still the current one when it acts.                           *)
StageIsCurrent == interrupt # Idle => interrupt.stage = stage

(* From EndpointCreate until the personality is dropped the device has an  *)
(* address.                                                                *)
AddressedStages == stage \in Addressed /\ ~Handling("drop") => address = 1

(* A completed read has left a product id in the buffer, and unless a port *)
(* change came in meanwhile it is the id of the device on the wire.        *)
ReadDelivered ==
    Handling("transfer") /\ interrupt.result = "ok" =>
        /\ descriptor \in Products
        /\ portEvents = 0 => descriptor = device

(* The same of a published descriptor, until a port change is taken up.    *)
PublishedDelivered ==
    Ready /\ ~Handling("port") /\ ~Handling("drop") =>
        /\ descriptor \in Products
        /\ tail
        /\ portEvents = 0 => descriptor = device

(* While the port change is being taken up the buffer is still intact.     *)
PublishedTaken ==
    Ready /\ Handling("port") => descriptor \in Products /\ tail

HostInv ==
    /\ TypeOK
    /\ StageIsCurrent
    /\ AddressedStages
    /\ ReadDelivered
    /\ PublishedDelivered
    /\ PublishedTaken

-----------------------------------------------------------------------------
(* Type correctness is inductive by itself.                                *)
LEMMA TypeInit == HostInit => TypeOK
  <1> SUFFICES ASSUME HostInit PROVE TypeOK
    OBVIOUS
  <1>1. outstanding \in [Commands -> Nat]
    BY DEF HostInit
  <1>2. stage \in Stages /\ tail \in BOOLEAN
    BY DEF HostInit, Stages, Commands
  <1>3. retries \in 0..MaxRetry /\ changes \in 0..MaxChanges
    BY HostAssumption DEF HostInit
  <1> QED
    BY <1>1, <1>2, <1>3 DEF HostInit, TypeOK

LEMMA SendType ==
  ASSUME outstanding \in [Commands -> Nat], NEW next \in Stages,
         NEW c \in Commands, Send(next, c)
  PROVE  stage' \in Stages /\ outstanding' \in [Commands -> Nat]
  BY DEF Send

LEMMA ArriveType ==
  ASSUME stage \in Stages, NEW kind \in {"command", "transfer", "port"},
         NEW c \in Commands, NEW r \in Results, Arrive(kind, c, r)
  PROVE  interrupt' \in Interrupts
  BY DEF Arrive, Interrupts

LEMMA TypeStep == TypeOK /\ [HostNext]_hostVars => TypeOK'
  <1> SUFFICES ASSUME TypeOK, [HostNext]_hostVars PROVE TypeOK'
    OBVIOUS
  <1> USE DEF TypeOK
  <1>1. CASE UNCHANGED hostVars
    BY <1>1 DEF hostVars
  <1>2. ASSUME NEW c \in Commands, CommandDone(c) PROVE TypeOK'
    <2>1. PICK r \in Answers(c) : Arrive("command", c, r)
      BY <1>2 DEF CommandDone
    <2>2. r \in Results
      BY DEF Answers, Results
    <2>3. interrupt' \in Interrupts
      BY <2>1, <2>2, ArriveType
    <2>4. outstanding' \in [Commands -> Nat]
      BY <1>2 DEF CommandDone
    <2> QED
      BY <1>2, <2>3, <2>4 DEF CommandDone
  <1>3. CASE TransferDone
    <2>1. reading' \in Nat /\ descriptor' \in Products \cup {NoProduct}
      BY <1>3 DEF TransferDone
    <2>2. interrupt' \in Interrupts
      BY <1>3 DEF TransferDone, Arrive, Interrupts, Results, Commands
    <2> QED
      BY <1>3, <2>1, <2>2 DEF TransferDone
  <1>4. CASE PortChange
    <2>1. interrupt' \in Interrupts
      BY <1>4 DEF PortChange, Arrive, Interrupts, Results, Commands
    <2> QED
      BY <1>4, <2>1 DEF PortChange
  <1>5. CASE CommandFailed
    BY <1>5 DEF CommandFailed, Stages
  <1>6. CASE CommandIgnored
    BY <1>6 DEF CommandIgnored
  <1>7. CASE Advance
    <2>1. PICK c \in DOMAIN NextCommand :
             CommandOk(c) /\ Send(NextCommand[c], NextCommand[c])
      BY <1>7 DEF Advance
    <2>2. NextCommand[c] \in Commands
      BY DEF NextCommand, Commands
    <2>3. stage' \in Stages /\ outstanding' \in [Commands -> Nat]
      BY <2>1, <2>2, SendType DEF Stages
    <2> QED
      BY <1>7, <2>3 DEF Advance
  <1>8. CASE PortConnected
    BY <1>8 DEF PortConnected, Send, Stages, Commands
  <1>9. CASE PortEmpty
    BY <1>9 DEF PortEmpty, Stages
  <1>10. CASE DeviceCreated
    BY <1>10 DEF DeviceCreated, Send, Stages, Commands
  <1>11. CASE EndpointCreated
    BY <1>11 DEF EndpointCreated, Send, Stages, Commands
  <1>12. CASE RingDoorbell
    BY <1>12 DEF RingDoorbell, Stages
  <1>13. CASE DescriptorRead
    BY <1>13 DEF DescriptorRead, Stages
  <1>14. CASE DescriptorStalled
    <2>1. retries' \in 0..MaxRetry
      BY <1>14, HostAssumption DEF DescriptorStalled
    <2> QED
      BY <1>14, <2>1 DEF DescriptorStalled, Send, Stages, Commands
  <1>15. CASE DescriptorDropped
    BY <1>15 DEF DescriptorDropped
  <1>16. CASE PortDrop
    <2>1. interrupt' \in Interrupts
      BY <1>16 DEF PortDrop, Handling, Interrupts
    <2>2. retries' \in 0..MaxRetry
      BY <1>16, HostAssumption DEF PortDrop, DropPersonality
    <2>3. tail' \in BOOLEAN
      BY <1>16 DEF PortDrop, DropPersonality
    <2> QED
      BY <1>16, <2>1, <2>2, <2>3 DEF PortDrop, DropPersonality
  <1>17. CASE PortDropped
    BY <1>17 DEF PortDropped, Send, Stages, Commands
  <1>18. CASE PortAgain
    BY <1>18 DEF PortAgain, Send, Stages, Commands
  <1>19. CASE PortIgnored
    BY <1>19 DEF PortIgnored
  <1>20. CASE PollTimer
    BY <1>20 DEF PollTimer, Send, Stages, Commands
  <1>21. CASE DeviceChange
    BY <1>21, HostAssumption DEF DeviceChange
  <1> QED
    BY <1>1, <1>2, <1>3, <1>4, <1>5, <1>6, <1>7, <1>8, <1>9, <1>10, <1>11,
       <1>12, <1>13, <1>14, <1>15, <1>16, <1>17, <1>18, <1>19, <1>20, <1>21
       DEF HostNext, Handle

(* The state of the enumeration always has its type, for any controller    *)
(* and any device.                                                         *)
THEOREM HostTypeCorrect == HostSafety => []TypeOK
  BY TypeInit, TypeStep, PTL DEF HostSafety

-----------------------------------------------------------------------------
LEMMA HostInvInit == HostInit => HostInv
  <1> SUFFICES ASSUME HostInit PROVE HostInv
    OBVIOUS
  <1>1. TypeOK
    BY TypeInit
  <1> QED
    BY <1>1 DEF HostInit, HostInv, StageIsCurrent, AddressedStages, Addressed,
       ReadDelivered, PublishedDelivered, PublishedTaken, Handling, Ready

LEMMA HostInvStep == HostInv /\ [HostNext]_hostVars => HostInv'
  <1> SUFFICES ASSUME HostInv, [HostNext]_hostVars PROVE HostInv'
    OBVIOUS
  <1>t. TypeOK'
    BY TypeStep DEF HostInv
  <1> DEFINE Rest == /\ StageIsCurrent /\ AddressedStages /\ ReadDelivered
                     /\ PublishedDelivered /\ PublishedTaken
  <1> SUFFICES Rest'
    BY <1>t DEF HostInv
  <1> USE DEF HostInv, TypeOK, StageIsCurrent, AddressedStages, Addressed,
      ReadDelivered, PublishedDelivered, PublishedTaken, Handling, Ready
  <1>1. CASE UNCHANGED hostVars
    BY <1>1 DEF hostVars
  <1>2. ASSUME NEW c \in Commands, CommandDone(c) PROVE Rest'
    BY <1>2 DEF CommandDone, Arrive
  <1>3. CASE TransferDone
    BY <1>3 DEF TransferDone, Arrive
  <1>4. CASE PortChange
    <2>1. interrupt' \in Interrupts /\ interrupt' # Idle
      BY <1>4, HostAssumption
         DEF PortChange, Arrive, Interrupts, Results, Commands
    <2> QED
      BY <1>4, <2>1 DEF PortChange, Arrive
  <1>5. CASE CommandFailed
    BY <1>5 DEF CommandFailed
  <1>6. CASE CommandIgnored
    BY <1>6 DEF CommandIgnored
  <1>7. CASE Advance
    BY <1>7 DEF Advance, CommandOk, Send, NextCommand
  <1>8. CASE PortConnected
    BY <1>8 DEF PortConnected, Send
  <1>9. CASE PortEmpty
    BY <1>9 DEF PortEmpty
  <1>10. CASE DeviceCreated
    BY <1>10 DEF DeviceCreated, Send
  <1>11. CASE EndpointCreated
    BY <1>11 DEF EndpointCreated, CommandOk, Send
  <1>12. CASE RingDoorbell
    BY <1>12 DEF RingDoorbell, CommandOk
  <1>13. CASE DescriptorRead
    BY <1>13 DEF DescriptorRead
  <1>14. CASE DescriptorStalled
    BY <1>14 DEF DescriptorStalled, Send
  <1>15. CASE DescriptorDropped
    BY <1>15 DEF DescriptorDropped
  <1>16. CASE PortDrop
    <2>1. interrupt \in Interrupts
      BY <1>16 DEF PortDrop
    <2>2. interrupt' \in Interrupts /\ interrupt' # Idle
      BY <1>16, <2>1, HostAssumption DEF PortDrop, Interrupts
    <2>3. interrupt'.kind = "drop" /\ interrupt'.stage = interrupt.stage
      BY <1>16, <2>1 DEF PortDrop, Interrupts
    <2> QED
      BY <1>16, <2>2, <2>3 DEF PortDrop
  <1>17. CASE PortDropped
    BY <1>17 DEF PortDropped, Send
  <1>18. CASE PortAgain
    BY <1>18 DEF PortAgain, Send
  <1>19. CASE PortIgnored
    BY <1>19 DEF PortIgnored
  <1>20. CASE PollTimer
    BY <1>20 DEF PollTimer, Send
  <1>21. CASE DeviceChange
    BY <1>21, HostAssumption DEF DeviceChange
  <1> QED
    BY <1>1, <1>2, <1>3, <1>4, <1>5, <1>6, <1>7, <1>8, <1>9, <1>10, <1>11,
       <1>12, <1>13, <1>14, <1>15, <1>16, <1>17, <1>18, <1>19, <1>20, <1>21
       DEF HostNext, Handle

(* A published device has an address, a descriptor and a ring, whatever    *)
(* the order of stalls, failures and port changes.                         *)
THEOREM HostReadyIsDescribed == HostSafety => []ReadyIsDescribed
  <1>1. HostInv => ReadyIsDescribed
    BY DEF HostInv, ReadyIsDescribed, AddressedStages, Addressed,
           PublishedDelivered, PublishedTaken, Handling, Ready
  <1> QED
    BY <1>1, HostInvInit, HostInvStep, PTL DEF HostSafety

(* Port changes ignored in the middle of an enumeration never leave a      *)
(* stale personality published.                                            *)
THEOREM HostPublishedIsPresent == HostSafety => []PublishedIsPresent
  <1>1. HostInv => PublishedIsPresent
    BY DEF HostInv, PublishedIsPresent, PublishedDelivered, Handling
  <1> QED
    BY <1>1, HostInvInit, HostInvStep, PTL DEF HostSafety

-----------------------------------------------------------------------------
(* The bridge server.                                                      *)


(* Where a thread has no call to make, where it is in one, and where it    *)
(* holds fake_usb_bridge_lock.                                             *)
Resting == {"idle", "finish", "done"}
Calling == {"next", "command", "await", "ring", "transfer", "drop", "send"}
Holding == Calling \cup {"finish"}

(* What is known of one thread.  The signal of the last wait is cleared    *)
(* before the next ring, so a success in the slot is always a new one.     *)
ThreadInv(t) ==
    /\ thread[t].at \in Holding => bridgeLock = t
    /\ thread[t].at \in Resting \/ thread[t].todo # <<>>
    /\ pendingCommand = t <=> thread[t].at = "await"
    /\ thread[t].at = "await" => commandLock = t
    /\ pendingTransfer = t <=> thread[t].at = "transfer"
    /\ thread[t].at = "ring" => thread[t].signal = "none"
    /\ thread[t].at = "transfer" /\ thread[t].signal = "ok" => thread[t].own

BridgeInv == BridgeTypeOK /\ \A t \in Threads : ThreadInv(t)

(* The variables of the bridge other than its threads.                     *)
TableTypes ==
    /\ bridgeLock \in Threads \cup {Nobody}
    /\ commandLock \in Threads \cup {Nobody}
    /\ pendingCommand \in Threads \cup {Nobody}
    /\ pendingTransfer \in Threads \cup {Nobody}
    /\ inFlight \subseteq Threads
    /\ orphans \in Nat
    /\ endpoints \in BOOLEAN
    /\ jobs \subseteq Nat
    /\ serving \in BOOLEAN

LEMMA TypeParts ==
  BridgeTypeOK <=> TypeOK /\ thread \in [Threads -> Thread] /\ TableTypes
  BY DEF BridgeTypeOK, TableTypes

LEMMA NobodyIsNone == Nobody \notin Threads /\ Worker \in Threads
  BY BridgeAssumption DEF Threads

LEMMA AsleepIsThread == Asleep \in Thread
  <1>1. "PortReset" \in Commands /\ <<>> \in Seq(Calls)
    BY DEF Commands
  <1> QED
    BY <1>1 DEF Asleep, Thread, Steps, Signals, Outcomes

LEMMA OneThread ==
  ASSUME NEW t \in Threads, thread \in [Threads -> Thread], NEW rec \in Thread,
         thread' = [thread EXCEPT ![t] = rec]
  PROVE  /\ thread' \in [Threads -> Thread] /\ thread'[t] = rec
         /\ \A u \in Threads : u # t => thread'[u] = thread[u]
  OBVIOUS

LEMMA BridgeInitInv == BridgeInit => BridgeInv
  <1> SUFFICES ASSUME BridgeInit PROVE BridgeInv
    OBVIOUS
  <1>1. TypeOK /\ TableTypes
    BY TypeInit DEF BridgeInit, TableTypes
  <1>2. thread \in [Threads -> Thread]
    BY AsleepIsThread DEF BridgeInit
  <1>3. ASSUME NEW t \in Threads PROVE ThreadInv(t)
    <2>1. thread[t].at = "idle"
      BY DEF BridgeInit, Asleep
    <2> QED
      BY <2>1, NobodyIsNone DEF BridgeInit, ThreadInv, Holding, Calling, Resting
  <1> QED
    BY <1>1, <1>2, <1>3, TypeParts DEF BridgeInv

-----------------------------------------------------------------------------
(* Steps of the host leave the threads alone.                              *)
LEMMA EnumerateInv == BridgeInv /\ Enumerate => BridgeInv'
  <1> SUFFICES ASSUME BridgeInv, Enumerate PROVE BridgeInv'
    OBVIOUS
  <1>1. HostNext
    BY DEF Enumerate, HostNext
  <1>2. TypeOK'
    BY <1>1, TypeStep DEF BridgeInv, BridgeTypeOK
  <1>3. TableTypes'
    <2>1. generation \in Nat
      BY DEF BridgeInv, BridgeTypeOK, TypeOK
    <2>2. jobs' \subseteq Nat
      BY <2>1 DEF BridgeInv, BridgeTypeOK, Enumerate
    <2>3. endpoints' \in BOOLEAN /\ serving' \in BOOLEAN
      BY DEF BridgeInv, BridgeTypeOK, Enumerate
    <2> QED
      BY <2>2, <2>3 DEF BridgeInv, BridgeTypeOK, Enumerate, TableTypes
  <1>4. \A t \in Threads : ThreadInv(t)'
    BY DEF BridgeInv, Enumerate, ThreadInv
  <1>5. thread' \in [Threads -> Thread]
    BY DEF BridgeInv, BridgeTypeOK, Enumerate
  <1> QED
    BY <1>2, <1>3, <1>4, <1>5, TypeParts DEF BridgeInv, BridgeTypeOK, TableTypes

(* A completion that signals the thread in a slot.                         *)
LEMMA SignalKeeps ==
  ASSUME BridgeInv, NEW t \in Threads, NEW status \in Signals,
         Signal(t, status), thread[t].at \in {"await", "transfer"},
         thread[t].at = "transfer" => status # "ok",
         UNCHANGED <<bridgeLock, commandLock, pendingCommand, pendingTransfer>>
  PROVE  thread' \in [Threads -> Thread] /\ \A u \in Threads : ThreadInv(u)'
  <1>1. thread \in [Threads -> Thread]
    BY DEF BridgeInv, BridgeTypeOK
  <1>2. thread' \in [Threads -> Thread]
    BY <1>1 DEF Signal, Thread
  <1>3. \A u \in Threads : /\ thread'[u].at = thread[u].at
                           /\ thread'[u].todo = thread[u].todo
                           /\ thread'[u].own = thread[u].own
                           /\ u # t => thread'[u].signal = thread[u].signal
                           /\ u = t => thread'[u].signal = status
    BY <1>1 DEF Signal, Thread
  <1>4. ASSUME NEW u \in Threads PROVE ThreadInv(u)'
    BY <1>3 DEF BridgeInv, ThreadInv
  <1> QED
    BY <1>2, <1>4

LEMMA ClaimCommandInv == BridgeInv /\ ClaimCommand => BridgeInv'
  <1> SUFFICES ASSUME BridgeInv, ClaimCommand PROVE BridgeInv'
    OBVIOUS
  <1> DEFINE t == pendingCommand
  <1>1. t \in Threads /\ thread[t].at = "await" /\ thread[t].command \in Commands
    BY NobodyIsNone DEF ClaimCommand, BridgeInv, BridgeTypeOK, ThreadInv, Thread
  <1>2. PICK status \in Signals : Signal(t, status)
    BY DEF ClaimCommand, Signals
  <1>3. thread' \in [Threads -> Thread] /\ \A u \in Threads : ThreadInv(u)'
    BY <1>1, <1>2, SignalKeeps DEF ClaimCommand
  <1>4. TypeOK'
    <2>1. outstanding' \in [Commands -> Nat]
      BY <1>1 DEF ClaimCommand, BridgeInv, BridgeTypeOK, TypeOK
    <2> QED
      BY <2>1 DEF ClaimCommand, BridgeInv, BridgeTypeOK, TypeOK
  <1>5. TableTypes'
    BY DEF ClaimCommand, BridgeInv, BridgeTypeOK, TableTypes
  <1> QED
    BY <1>3, <1>4, <1>5 DEF BridgeInv, BridgeTypeOK, TableTypes

LEMMA ReadTakenInv == BridgeInv /\ ReadTaken => BridgeInv'
  <1> SUFFICES ASSUME BridgeInv, ReadTaken PROVE BridgeInv'
    OBVIOUS
  <1> DEFINE t == pendingTransfer
  <1>1. t \in Threads /\ thread[t].at = "transfer"
    BY NobodyIsNone DEF ReadTaken, BridgeInv, BridgeTypeOK, ThreadInv
  <1>2. thread' \in [Threads -> Thread] /\ \A u \in Threads : ThreadInv(u)'
    <2>1. CASE UNCHANGED thread
      BY <2>1 DEF ReadTaken, BridgeInv, BridgeTypeOK, ThreadInv
    <2>2. CASE Signal(t, "failed")
      BY <1>1, <2>2, SignalKeeps DEF ReadTaken, Signals
    <2> QED
      BY <2>1, <2>2 DEF ReadTaken
  <1>3. TypeOK'
    <2>1. reading' \in Nat
      BY DEF ReadTaken, BridgeInv, BridgeTypeOK, TypeOK
    <2>2. descriptor' \in Products \cup {NoProduct}
      BY DEF ReadTaken, BridgeInv, BridgeTypeOK, TypeOK
    <2> QED
      BY <2>1, <2>2 DEF ReadTaken, BridgeInv, BridgeTypeOK, TypeOK
  <1>4. TableTypes'
    BY DEF ReadTaken, BridgeInv, BridgeTypeOK, TableTypes
  <1> QED
    BY <1>2, <1>3, <1>4 DEF BridgeInv, BridgeTypeOK, TableTypes

(* A success reaches the slot's owner only from its own ring.              *)
LEMMA RingDoneInv ==
  ASSUME BridgeInv, NEW r \in Threads \cup {Nobody}, RingDone(r)
  PROVE  BridgeInv'
  <1> DEFINE t == pendingTransfer
  <1>1. TypeOK'
    BY DEF RingDone, hostVars, BridgeInv, BridgeTypeOK, TypeOK
  <1>2. TableTypes'
    <2>1. inFlight' \subseteq Threads /\ orphans' \in Nat
      BY DEF RingDone, BridgeInv, BridgeTypeOK
    <2> QED
      BY <2>1 DEF RingDone, BridgeInv, BridgeTypeOK, TableTypes
  <1>3. thread' \in [Threads -> Thread] /\ \A u \in Threads : ThreadInv(u)'
    <2>1. CASE UNCHANGED thread
      BY <2>1 DEF RingDone, BridgeInv, BridgeTypeOK, ThreadInv
    <2>2. CASE thread' # thread
      <3> DEFINE mine == (t = r)
      <3>1. PICK status \in {"ok", "failed"} :
               /\ t # Nobody
               /\ status = "ok" => mine
               /\ thread' = [thread EXCEPT ![t].signal = status, ![t].own = mine]
        BY <2>2 DEF RingDone
      <3>2. t \in Threads /\ thread[t].at = "transfer" /\ thread \in [Threads -> Thread]
        BY <3>1 DEF BridgeInv, BridgeTypeOK, ThreadInv
      <3>0. mine \in BOOLEAN
        OBVIOUS
      <3> HIDE DEF mine
      <3> DEFINE rec == [thread[t] EXCEPT !.signal = status, !.own = mine]
      <3>3. rec \in Thread /\ rec.at = "transfer" /\ rec.todo = thread[t].todo
              /\ (rec.signal = "ok" => rec.own)
        BY <3>0, <3>1, <3>2 DEF Thread, Signals
      <3>4. thread' = [thread EXCEPT ![t] = rec]
        BY <3>1
      <3> HIDE DEF rec
      <3>5. thread' \in [Threads -> Thread] /\ thread'[t] = rec
              /\ \A u \in Threads : u # t => thread'[u] = thread[u]
        BY <3>2, <3>3, <3>4, OneThread
      <3>6. UNCHANGED <<bridgeLock, commandLock, pendingCommand, pendingTransfer>>
        BY DEF RingDone
      <3>7. ASSUME NEW u \in Threads PROVE ThreadInv(u)'
        BY <3>2, <3>3, <3>5, <3>6 DEF BridgeInv, ThreadInv
      <3> QED
        BY <3>5, <3>7
    <2> QED
      BY <2>1, <2>2
  <1> QED
    BY <1>1, <1>2, <1>3 DEF BridgeInv, BridgeTypeOK, TableTypes

-----------------------------------------------------------------------------
(* A thread that is in no slot and goes to no slot.                        *)
LEMMA ThreadMoves ==
  ASSUME BridgeInv, NEW t \in Threads, thread' \in [Threads -> Thread],
         \A u \in Threads : u # t => thread'[u] = thread[u],
         thread[t].at \notin {"await", "transfer"},
         thread'[t].at \notin {"await", "transfer"},
         thread'[t].at \in Holding => thread[t].at \in Holding,
         thread'[t].at \in Resting \/ thread'[t].todo # <<>>,
         thread'[t].at = "ring" => thread'[t].signal = "none",
         UNCHANGED <<bridgeLock, commandLock, pendingCommand, pendingTransfer>>
  PROVE  \A u \in Threads : ThreadInv(u)'
  <1> SUFFICES ASSUME NEW u \in Threads PROVE ThreadInv(u)'
    OBVIOUS
  <1>1. CASE u = t
    BY <1>1 DEF BridgeInv, ThreadInv, Holding, Calling
  <1>2. CASE u # t
    BY <1>2 DEF BridgeInv, ThreadInv
  <1> QED
    BY <1>1, <1>2

LEMMA QuietTypes ==
  ASSUME BridgeInv, OthersUnchanged
  PROVE  TypeOK' /\ TableTypes' /\ UNCHANGED <<bridgeLock, commandLock, pendingCommand, pendingTransfer>>
  BY DEF OthersUnchanged, hostVars, BridgeInv, BridgeTypeOK, TypeOK, TableTypes

LEMMA Assemble ==
  ASSUME TypeOK', TableTypes', thread' \in [Threads -> Thread],
         \A u \in Threads : ThreadInv(u)'
  PROVE  BridgeInv'
  BY DEF BridgeInv, BridgeTypeOK, TableTypes

(* Connecting and copying the state change nothing but the thread.         *)
LEMMA CopyInv ==
  ASSUME BridgeInv, NEW t \in Threads,
         \/ \E op \in Operations : Connect(t, op)
         \/ CopyGeneration(t) \/ CopyProduct(t) \/ CopyState(t)
  PROVE  BridgeInv'
  <1>0. OthersUnchanged
    BY DEF Connect, CopyGeneration, CopyProduct, CopyState
  <1>1. thread \in [Threads -> Thread] /\ generation \in Nat
          /\ descriptor \in Products \cup {NoProduct} /\ Ready \in BOOLEAN
    BY DEF BridgeInv, BridgeTypeOK, TypeOK, Ready
  <1> DEFINE Copied ==
         /\ thread' \in [Threads -> Thread]
         /\ \A u \in Threads : u # t => thread'[u] = thread[u]
         /\ thread[t].at \in {"idle", "generation", "product", "state"}
         /\ thread'[t].at \in {"generation", "product", "state", "lock"}
         /\ thread'[t].todo # <<>>
  <1>2. Copied
    <2>1. ASSUME NEW op \in Operations, Connect(t, op) PROVE Copied
      <3> DEFINE rec == [thread[t] EXCEPT !.at = "generation", !.todo = <<op>>]
      <3>1. <<op>> \in Seq(Calls) /\ <<op>> # <<>>
        BY BridgeAssumption
      <3>2. rec \in Thread /\ rec.at = "generation" /\ rec.todo # <<>>
        BY <1>1, <3>1 DEF Thread, Steps
      <3>3. thread' = [thread EXCEPT ![t] = rec] /\ thread[t].at = "idle"
        BY <2>1 DEF Connect
      <3> HIDE DEF rec
      <3> QED
        BY <1>1, <3>2, <3>3, OneThread
    <2>2. CASE CopyGeneration(t)
      <3> DEFINE rec == [thread[t] EXCEPT !.at = "product", !.generation = generation]
      <3>1. rec \in Thread /\ rec.at \in {"generation", "product", "state", "lock"}
              /\ rec.todo = thread[t].todo
        BY <1>1 DEF Thread, Steps
      <3>2. thread' = [thread EXCEPT ![t] = rec]
        BY <2>2 DEF CopyGeneration
      <3>3. thread[t].at \in {"generation", "product", "state"} /\ thread[t].todo # <<>>
        BY <2>2 DEF CopyGeneration, BridgeInv, ThreadInv, Resting
      <3> HIDE DEF rec
      <3> QED
        BY <1>1, <3>1, <3>2, <3>3, OneThread
    <2>3. CASE CopyProduct(t)
      <3> DEFINE rec == [thread[t] EXCEPT !.at = "state", !.product = descriptor]
      <3>1. rec \in Thread /\ rec.at \in {"generation", "product", "state", "lock"}
              /\ rec.todo = thread[t].todo
        BY <1>1 DEF Thread, Steps
      <3>2. thread' = [thread EXCEPT ![t] = rec]
        BY <2>3 DEF CopyProduct
      <3>3. thread[t].at \in {"generation", "product", "state"} /\ thread[t].todo # <<>>
        BY <2>3 DEF CopyProduct, BridgeInv, ThreadInv, Resting
      <3> HIDE DEF rec
      <3> QED
        BY <1>1, <3>1, <3>2, <3>3, OneThread
    <2>4. CASE CopyState(t)
      <3> DEFINE rec == [thread[t] EXCEPT !.at = "lock", !.ready = Ready]
      <3>1. rec \in Thread /\ rec.at \in {"generation", "product", "state", "lock"}
              /\ rec.todo = thread[t].todo
        BY <1>1 DEF Thread, Steps
      <3>2. thread' = [thread EXCEPT ![t] = rec]
        BY <2>4 DEF CopyState
      <3>3. thread[t].at \in {"generation", "product", "state"} /\ thread[t].todo # <<>>
        BY <2>4 DEF CopyState, BridgeInv, ThreadInv, Resting
      <3> HIDE DEF rec
      <3> QED
        BY <1>1, <3>1, <3>2, <3>3, OneThread
    <2> QED
      BY <2>1, <2>2, <2>3, <2>4
  <1>3. \A u \in Threads : ThreadInv(u)'
    BY <1>0, <1>2, QuietTypes, ThreadMoves DEF Holding, Calling
  <1> QED
    BY <1>0, <1>2, <1>3, QuietTypes, Assemble

LEMMA StartWorkerInv == BridgeInv /\ StartWorker => BridgeInv'
  <1> SUFFICES ASSUME BridgeInv, StartWorker PROVE BridgeInv'
    OBVIOUS
  <1>1. PICK g \in jobs :
           /\ jobs' = jobs \ {g}
           /\ thread' = [thread EXCEPT ![Worker] =
                           [Asleep EXCEPT !.at = "lock", !.generation = g,
                                          !.todo = Preparation]]
    BY DEF StartWorker
  <1> DEFINE rec == [Asleep EXCEPT !.at = "lock", !.generation = g, !.todo = Preparation]
  <1>2. g \in Nat /\ thread \in [Threads -> Thread] /\ Preparation \in Seq(Calls)
          /\ Preparation # <<>>
    BY DEF BridgeInv, BridgeTypeOK, Preparation, Calls
  <1>3. rec \in Thread /\ rec.at = "lock" /\ rec.todo = Preparation
    <2> HIDE DEF Preparation
    <2> QED
      BY <1>2, AsleepIsThread DEF Thread, Steps
  <1>4. thread[Worker].at \in {"idle", "done"} /\ thread' = [thread EXCEPT ![Worker] = rec]
    BY <1>1 DEF StartWorker
  <1> HIDE DEF rec
  <1>5. /\ thread' \in [Threads -> Thread]
        /\ thread'[Worker].at = "lock" /\ thread'[Worker].todo # <<>>
        /\ \A u \in Threads : u # Worker => thread'[u] = thread[u]
    BY <1>2, <1>3, <1>4, NobodyIsNone, OneThread
  <1>6. \A u \in Threads : ThreadInv(u)'
    BY <1>4, <1>5, NobodyIsNone, ThreadMoves DEF StartWorker, Holding, Calling
  <1>7. TypeOK' /\ TableTypes'
    BY <1>1 DEF StartWorker, hostVars, BridgeInv, BridgeTypeOK, TypeOK, TableTypes
  <1> QED
    BY <1>5, <1>6, <1>7, Assemble

-----------------------------------------------------------------------------
(* fake_usb_bridge_lock is taken when nobody holds it and given back by    *)
(* its holder.                                                             *)
LEMMA LockInv ==
  ASSUME BridgeInv, NEW t \in Threads, Lock(t)
  PROVE  BridgeInv'
  <1> DEFINE usable == IF t = Worker
                       THEN /\ thread[t].generation = generation
                            /\ descriptor = RestoreOS
                            /\ Ready
                       ELSE thread[t].ready
             at == IF usable THEN "next" ELSE "finish"
             outcome == IF usable THEN "ok" ELSE "ENODEV"
             rec == [thread[t] EXCEPT !.at = at, !.outcome = outcome]
  <1>1. thread \in [Threads -> Thread]
    BY DEF BridgeInv, BridgeTypeOK
  <1>2. at \in {"next", "finish"} /\ outcome \in Outcomes
    BY DEF Outcomes
  <1>3. thread' = [thread EXCEPT ![t] = rec]
    BY DEF Lock
  <1> HIDE DEF usable, at, outcome
  <1>4. rec \in Thread /\ rec.at = at /\ rec.todo = thread[t].todo
    BY <1>1, <1>2 DEF Thread, Steps
  <1> HIDE DEF rec
  <1>5. /\ thread' \in [Threads -> Thread] /\ thread'[t] = rec
        /\ \A u \in Threads : u # t => thread'[u] = thread[u]
    BY <1>1, <1>3, <1>4, OneThread
  <1>6. thread[t].at = "lock" /\ bridgeLock = Nobody /\ bridgeLock' = t
          /\ UNCHANGED <<commandLock, pendingCommand, pendingTransfer>>
    BY DEF Lock
  <1>7. ASSUME NEW u \in Threads PROVE ThreadInv(u)'
    <2>1. CASE u = t
      BY <1>2, <1>4, <1>5, <1>6, <2>1 DEF BridgeInv, ThreadInv, Holding, Calling, Resting
    <2>2. CASE u # t
      BY <1>5, <1>6, <2>2, NobodyIsNone DEF BridgeInv, ThreadInv
    <2> QED
      BY <2>1, <2>2
  <1>8. TypeOK' /\ TableTypes'
    BY DEF Lock, hostVars, BridgeInv, BridgeTypeOK, TypeOK, TableTypes
  <1> QED
    BY <1>5, <1>7, <1>8, Assemble

LEMMA FinishInv ==
  ASSUME BridgeInv, NEW t \in Threads, Finish(t)
  PROVE  BridgeInv'
  <1> DEFINE rec == [thread[t] EXCEPT !.at = "done"]
  <1>1. thread \in [Threads -> Thread] /\ thread' = [thread EXCEPT ![t] = rec]
    BY DEF BridgeInv, BridgeTypeOK, Finish
  <1>2. rec \in Thread /\ rec.at = "done"
    BY <1>1 DEF Thread, Steps
  <1> HIDE DEF rec
  <1>3. /\ thread' \in [Threads -> Thread] /\ thread'[t] = rec
        /\ \A u \in Threads : u # t => thread'[u] = thread[u]
    BY <1>1, <1>2, OneThread
  <1>4. thread[t].at = "finish" /\ bridgeLock = t
          /\ UNCHANGED <<commandLock, pendingCommand, pendingTransfer>>
    BY DEF Finish, BridgeInv, ThreadInv, Holding
  <1>5. ASSUME NEW u \in Threads PROVE ThreadInv(u)'
    <2>1. CASE u = t
      BY <1>2, <1>3, <1>4, <2>1 DEF BridgeInv, ThreadInv, Holding, Calling, Resting
    <2>2. CASE u # t
      BY <1>3, <1>4, <2>2 DEF BridgeInv, ThreadInv
    <2> QED
      BY <2>1, <2>2
  <1>6. TypeOK' /\ TableTypes'
    BY DEF Finish, hostVars, BridgeInv, BridgeTypeOK, TypeOK, TableTypes
  <1> QED
    BY <1>3, <1>5, <1>6, Assemble

-----------------------------------------------------------------------------
(* What a call that returned leaves.                                       *)
LEMMA AfterMoves ==
  ASSUME BridgeInv, NEW t \in Threads, thread[t].at \in Calling,
         NEW outcome \in Outcomes, thread' = After(t, outcome)
  PROVE  /\ thread' \in [Threads -> Thread]
         /\ \A u \in Threads : u # t => thread'[u] = thread[u]
         /\ thread'[t].at \in {"finish", "next"}
         /\ thread'[t].at = "next" => thread'[t].todo # <<>>
  <1> DEFINE rest == IF outcome = "ok" THEN Tail(thread[t].todo) ELSE <<>>
             ready == thread[t].ready /\ Call(t) # "RESET"
             gen == IF Call(t) = "RESET" THEN generation ELSE thread[t].generation
             at == IF rest = <<>> THEN "finish" ELSE "next"
             rec == [thread[t] EXCEPT !.todo = rest, !.outcome = outcome,
                                      !.signal = "none", !.ready = ready,
                                      !.generation = gen, !.at = at]
  <1>1. thread \in [Threads -> Thread] /\ generation \in Nat
    BY DEF BridgeInv, BridgeTypeOK, TypeOK
  <1>2. thread[t].todo \in Seq(Calls) /\ thread[t].todo # <<>>
    BY <1>1 DEF BridgeInv, ThreadInv, Thread, Calling, Resting
  <1>3. rest \in Seq(Calls)
    BY <1>2
  <1>4. ready \in BOOLEAN /\ gen \in Nat
    BY <1>1 DEF Thread
  <1>5. at \in {"finish", "next"} /\ (at = "next" => rest # <<>>)
    OBVIOUS
  <1>6. thread' = [thread EXCEPT ![t] = rec]
    BY DEF After
  <1> HIDE DEF rest, ready, gen, at
  <1>7. rec \in Thread /\ rec.at = at /\ rec.todo = rest
    BY <1>1, <1>3, <1>4, <1>5 DEF Thread, Steps, Signals
  <1> HIDE DEF rec
  <1> QED
    BY <1>1, <1>5, <1>6, <1>7, OneThread

(* The calls up to their first command or transfer.                        *)
LEMMA BeginInv ==
  ASSUME BridgeInv, NEW t \in Threads, Begin(t)
  PROVE  BridgeInv'
  <1> DEFINE Begun == /\ thread' \in [Threads -> Thread]
                      /\ \A u \in Threads : u # t => thread'[u] = thread[u]
                      /\ thread'[t].at \in {"finish", "next", "command", "ring"}
                      /\ thread'[t].at \in Resting \/ thread'[t].todo # <<>>
                      /\ thread'[t].at = "ring" => thread'[t].signal = "none"
  <1>1. /\ thread \in [Threads -> Thread] /\ thread[t].at = "next"
        /\ thread[t].at \in Calling /\ thread[t].todo # <<>>
    BY DEF Begin, BridgeInv, BridgeTypeOK, ThreadInv, Calling, Resting
  <1>2. ASSUME NEW outcome \in Outcomes, thread' = After(t, outcome) PROVE Begun
    BY <1>1, <1>2, AfterMoves DEF Resting
  <1>3. ASSUME NEW command \in Commands, Issue(t, command) PROVE Begun
    <2> DEFINE rec == [thread[t] EXCEPT !.at = "command", !.command = command,
                                        !.signal = "none", !.own = FALSE]
    <2>1. rec \in Thread /\ rec.at = "command" /\ rec.todo = thread[t].todo
      BY <1>1 DEF Thread, Steps, Signals
    <2>2. thread' = [thread EXCEPT ![t] = rec]
      BY <1>3 DEF Issue
    <2> HIDE DEF rec
    <2> QED
      BY <1>1, <2>1, <2>2, OneThread
  <1>4. ASSUME thread' = [thread EXCEPT ![t].at = "ring", ![t].signal = "none", ![t].own = FALSE]
        PROVE  Begun
    <2> DEFINE rec == [thread[t] EXCEPT !.at = "ring", !.signal = "none", !.own = FALSE]
    <2>1. rec \in Thread /\ rec.at = "ring" /\ rec.todo = thread[t].todo /\ rec.signal = "none"
      BY <1>1 DEF Thread, Steps, Signals
    <2>2. thread' = [thread EXCEPT ![t] = rec]
      BY <1>4
    <2> HIDE DEF rec
    <2> QED
      BY <1>1, <2>1, <2>2, OneThread
  <1>5. \/ \E outcome \in Outcomes : thread' = After(t, outcome)
        \/ \E command \in Commands : Issue(t, command)
        \/ thread' = [thread EXCEPT ![t].at = "ring", ![t].signal = "none", ![t].own = FALSE]
    <2>1. Call(t) \in Calls
      BY <1>1 DEF Call, Thread
    <2>2. {"PortReset", "EndpointCreate", "EndpointSetNextTransfer"} \subseteq Commands
      BY DEF Commands
    <2>3. {"ok", "EINVAL"} \subseteq Outcomes
      BY DEF Outcomes
    <2> QED
      BY <2>1, <2>2, <2>3 DEF Begin, Calls
  <1>6. Begun
    BY <1>2, <1>3, <1>4, <1>5
  <1>7. OthersUnchanged
    BY DEF Begin
  <1>8. \A u \in Threads : ThreadInv(u)'
    BY <1>1, <1>6, <1>7, QuietTypes, ThreadMoves DEF Holding, Calling
  <1> QED
    BY <1>6, <1>7, <1>8, QuietTypes, Assemble

-----------------------------------------------------------------------------
(* A thread enters the command slot with the command lock, which nobody    *)
(* held.                                                                   *)
LEMMA SendCommandInv ==
  ASSUME BridgeInv, NEW t \in Threads, SendCommand(t)
  PROVE  BridgeInv'
  <1> DEFINE rec == [thread[t] EXCEPT !.at = "await"]
  <1>1. thread \in [Threads -> Thread] /\ thread' = [thread EXCEPT ![t] = rec]
    BY DEF BridgeInv, BridgeTypeOK, SendCommand
  <1>2. rec \in Thread /\ rec.at = "await" /\ rec.todo = thread[t].todo
    BY <1>1 DEF Thread, Steps
  <1> HIDE DEF rec
  <1>3. /\ thread' \in [Threads -> Thread] /\ thread'[t] = rec
        /\ \A u \in Threads : u # t => thread'[u] = thread[u]
    BY <1>1, <1>2, OneThread
  <1>4. /\ thread[t].at = "command" /\ commandLock = Nobody /\ commandLock' = t
        /\ pendingCommand' = t /\ UNCHANGED <<bridgeLock, pendingTransfer>>
    BY DEF SendCommand
  <1>5. ASSUME NEW u \in Threads PROVE ThreadInv(u)'
    <2>1. CASE u = t
      BY <1>2, <1>3, <1>4, <2>1 DEF BridgeInv, ThreadInv, Holding, Calling, Resting
    <2>2. CASE u # t
      BY <1>3, <1>4, <2>2, NobodyIsNone DEF BridgeInv, ThreadInv
    <2> QED
      BY <2>1, <2>2
  <1>6. TypeOK'
    <2>1. thread[t].command \in Commands
      BY <1>1 DEF Thread
    <2>2. outstanding' \in [Commands -> Nat]
      BY <2>1 DEF SendCommand, BridgeInv, BridgeTypeOK, TypeOK
    <2> QED
      BY <2>2 DEF SendCommand, BridgeInv, BridgeTypeOK, TypeOK
  <1>7. TableTypes'
    BY DEF SendCommand, BridgeInv, BridgeTypeOK, TableTypes
  <1> QED
    BY <1>3, <1>5, <1>6, <1>7, Assemble

(* What follows a command.                                                 *)
LEMMA AnsweredMoves ==
  ASSUME BridgeInv, NEW t \in Threads, thread[t].at = "await",
         NEW outcome \in Outcomes, thread' = Answered(t, outcome)
  PROVE  /\ thread' \in [Threads -> Thread]
         /\ \A u \in Threads : u # t => thread'[u] = thread[u]
         /\ thread'[t].at \in {"finish", "next", "command", "ring", "drop"}
         /\ thread'[t].at \in Resting \/ thread'[t].todo # <<>>
         /\ thread'[t].at = "ring" => thread'[t].signal = "none"
  <1> DEFINE Goal == /\ thread' \in [Threads -> Thread]
                     /\ \A u \in Threads : u # t => thread'[u] = thread[u]
                     /\ thread'[t].at \in {"finish", "next", "command", "ring", "drop"}
                     /\ thread'[t].at \in Resting \/ thread'[t].todo # <<>>
                     /\ thread'[t].at = "ring" => thread'[t].signal = "none"
             ring == [thread[t] EXCEPT !.at = "ring", !.signal = "none"]
             reset == [thread[t] EXCEPT !.at = "command", !.outcome = outcome,
                                        !.command = "EndpointReset", !.signal = "none"]
             drop == [thread[t] EXCEPT !.at = "drop"]
  <1>1. /\ thread \in [Threads -> Thread] /\ thread[t].at \in Calling
        /\ thread[t].todo # <<>> /\ thread[t].outcome \in Outcomes
    BY DEF BridgeInv, BridgeTypeOK, ThreadInv, Calling, Resting, Thread
  <1>2. ASSUME NEW o \in Outcomes, thread' = After(t, o) PROVE Goal
    BY <1>1, <1>2, AfterMoves DEF Resting
  <1>3. /\ ring \in Thread /\ ring.at = "ring" /\ ring.todo = thread[t].todo /\ ring.signal = "none"
        /\ reset \in Thread /\ reset.at = "command" /\ reset.todo = thread[t].todo
        /\ drop \in Thread /\ drop.at = "drop" /\ drop.todo = thread[t].todo
    <2>1. "EndpointReset" \in Commands
      BY DEF Commands
    <2> QED
      BY <1>1, <2>1 DEF Thread, Steps, Signals
  <1>4. \/ \E o \in Outcomes : thread' = After(t, o)
        \/ thread' = [thread EXCEPT ![t] = ring]
        \/ thread' = [thread EXCEPT ![t] = reset]
        \/ thread' = [thread EXCEPT ![t] = drop]
    <2>1. \/ thread' = After(t, thread[t].outcome)
          \/ thread' = After(t, outcome)
          \/ thread' = [thread EXCEPT ![t].at = "ring", ![t].signal = "none"]
          \/ thread' = [thread EXCEPT ![t].at = "command", ![t].outcome = outcome,
                                      ![t].command = "EndpointReset", ![t].signal = "none"]
          \/ thread' = [thread EXCEPT ![t].at = "drop"]
      BY Zenon DEF Answered
    <2> QED
      BY <1>1, <2>1
  <1> HIDE DEF ring, reset, drop
  <1>5. ASSUME NEW rec \in {ring, reset, drop}, thread' = [thread EXCEPT ![t] = rec] PROVE Goal
    <2>1. rec \in Thread /\ rec.at \in {"ring", "command", "drop"} /\ rec.todo # <<>>
            /\ (rec.at = "ring" => rec.signal = "none")
      BY <1>1, <1>3
    <2> QED
      BY <1>1, <1>5, <2>1, OneThread
  <1> QED
    BY <1>2, <1>4, <1>5

(* Only the holder of the command lock is in the slot, so the slot is      *)
(* empty when it returns.                                                  *)
LEMMA CommandReturnsInv ==
  ASSUME BridgeInv, NEW t \in Threads, CommandReturns(t)
  PROVE  BridgeInv'
  <1>1. PICK outcome \in Outcomes : thread' = Answered(t, outcome)
    BY DEF CommandReturns
  <1>2. /\ thread[t].at = "await" /\ commandLock' = Nobody /\ pendingCommand' = Nobody
        /\ UNCHANGED <<bridgeLock, pendingTransfer>>
    BY DEF CommandReturns
  <1>3. /\ thread' \in [Threads -> Thread]
        /\ \A u \in Threads : u # t => thread'[u] = thread[u]
        /\ thread'[t].at \in {"finish", "next", "command", "ring", "drop"}
        /\ thread'[t].at \in Resting \/ thread'[t].todo # <<>>
        /\ thread'[t].at = "ring" => thread'[t].signal = "none"
    BY <1>1, <1>2, AnsweredMoves
  <1>4. ASSUME NEW u \in Threads PROVE ThreadInv(u)'
    <2>1. CASE u = t
      BY <1>2, <1>3, <2>1, NobodyIsNone DEF BridgeInv, ThreadInv, Holding, Calling
    <2>2. CASE u # t
      BY <1>2, <1>3, <2>2, NobodyIsNone DEF BridgeInv, ThreadInv
    <2> QED
      BY <2>1, <2>2
  <1>5. TypeOK'
    BY DEF CommandReturns, hostVars, BridgeInv, BridgeTypeOK, TypeOK
  <1>6. TableTypes'
    <2>1. endpoints' \in BOOLEAN
      BY DEF CommandReturns, BridgeInv, BridgeTypeOK
    <2> QED
      BY <2>1 DEF CommandReturns, BridgeInv, BridgeTypeOK, TableTypes
  <1> QED
    BY <1>3, <1>4, <1>5, <1>6, Assemble

(* The endpoint-0 slot is guarded by fake_usb_bridge_lock.                 *)
LEMMA RingControlInv ==
  ASSUME BridgeInv, NEW t \in Threads, RingControl(t)
  PROVE  BridgeInv'
  <1> DEFINE rec == [thread[t] EXCEPT !.at = "transfer"]
  <1>1. thread \in [Threads -> Thread] /\ thread' = [thread EXCEPT ![t] = rec]
    BY DEF BridgeInv, BridgeTypeOK, RingControl
  <1>2. rec \in Thread /\ rec.at = "transfer" /\ rec.todo = thread[t].todo
          /\ rec.signal = thread[t].signal
    BY <1>1 DEF Thread, Steps
  <1> HIDE DEF rec
  <1>3. /\ thread' \in [Threads -> Thread] /\ thread'[t] = rec
        /\ \A u \in Threads : u # t => thread'[u] = thread[u]
    BY <1>1, <1>2, OneThread
  <1>4. /\ thread[t].at = "ring" /\ bridgeLock = t /\ pendingTransfer' = t
        /\ thread[t].signal = "none"
        /\ UNCHANGED <<bridgeLock, commandLock, pendingCommand>>
    BY DEF RingControl, BridgeInv, ThreadInv, Holding, Calling
  <1>5. ASSUME NEW u \in Threads PROVE ThreadInv(u)'
    <2>1. CASE u = t
      BY <1>2, <1>3, <1>4, <2>1 DEF BridgeInv, ThreadInv, Holding, Calling, Resting
    <2>2. CASE u # t
      BY <1>3, <1>4, <2>2 DEF BridgeInv, ThreadInv, Holding, Calling
    <2> QED
      BY <2>1, <2>2
  <1>6. TypeOK'
    BY DEF RingControl, hostVars, BridgeInv, BridgeTypeOK, TypeOK
  <1>7. TableTypes'
    BY DEF RingControl, BridgeInv, BridgeTypeOK, TableTypes
  <1> QED
    BY <1>3, <1>5, <1>6, <1>7, Assemble

LEMMA ControlReturnsInv ==
  ASSUME BridgeInv, NEW t \in Threads, ControlReturns(t)
  PROVE  BridgeInv'
  <1> DEFINE Goal == /\ thread' \in [Threads -> Thread]
                     /\ \A u \in Threads : u # t => thread'[u] = thread[u]
                     /\ thread'[t].at \in {"finish", "next", "command"}
                     /\ thread'[t].at \in Resting \/ thread'[t].todo # <<>>
  <1>1. /\ thread \in [Threads -> Thread] /\ thread[t].at \in Calling
        /\ thread[t].todo # <<>> /\ thread[t].signal \in Signals
    BY DEF ControlReturns, BridgeInv, BridgeTypeOK, ThreadInv, Calling, Resting, Thread
  <1>2. PICK outcome \in Outcomes :
           \/ thread' = [thread EXCEPT ![t].at = "command", ![t].outcome = outcome,
                                       ![t].command = "EndpointReset", ![t].signal = "none"]
           \/ thread' = After(t, outcome)
    BY <1>1 DEF ControlReturns, Signals, Outcomes
  <1>3. ASSUME thread' = After(t, outcome) PROVE Goal
    BY <1>1, <1>3, AfterMoves DEF Resting
  <1>4. ASSUME thread' = [thread EXCEPT ![t].at = "command", ![t].outcome = outcome,
                                        ![t].command = "EndpointReset", ![t].signal = "none"]
        PROVE  Goal
    <2> DEFINE rec == [thread[t] EXCEPT !.at = "command", !.outcome = outcome,
                                        !.command = "EndpointReset", !.signal = "none"]
    <2>1. "EndpointReset" \in Commands
      BY DEF Commands
    <2>2. rec \in Thread /\ rec.at = "command" /\ rec.todo = thread[t].todo
      BY <1>1, <2>1 DEF Thread, Steps, Signals
    <2>3. thread' = [thread EXCEPT ![t] = rec]
      BY <1>4
    <2> HIDE DEF rec
    <2> QED
      BY <1>1, <2>2, <2>3, OneThread
  <1>5. Goal
    BY <1>2, <1>3, <1>4
  <1>6. /\ thread[t].at = "transfer" /\ bridgeLock = t /\ pendingTransfer' = Nobody
        /\ UNCHANGED <<bridgeLock, commandLock, pendingCommand>>
    BY DEF ControlReturns, BridgeInv, ThreadInv, Holding, Calling
  <1>7. ASSUME NEW u \in Threads PROVE ThreadInv(u)'
    <2>1. CASE u = t
      BY <1>5, <1>6, <2>1, NobodyIsNone DEF BridgeInv, ThreadInv, Holding, Calling
    <2>2. CASE u # t
      BY <1>5, <1>6, <2>2, NobodyIsNone DEF BridgeInv, ThreadInv, Holding, Calling
    <2> QED
      BY <2>1, <2>2
  <1>8. TypeOK'
    <2>1. tail' \in BOOLEAN
      BY DEF ControlReturns
    <2> QED
      BY <2>1 DEF ControlReturns, BridgeInv, BridgeTypeOK, TypeOK
  <1>9. TableTypes'
    <2>1. inFlight' \subseteq Threads /\ orphans' \in Nat
      BY DEF ControlReturns, BridgeInv, BridgeTypeOK
    <2> QED
      BY <2>1 DEF ControlReturns, BridgeInv, BridgeTypeOK, TableTypes
  <1> QED
    BY <1>5, <1>7, <1>8, <1>9, Assemble

LEMMA ResetDropInv ==
  ASSUME BridgeInv, NEW t \in Threads, ResetDrop(t)
  PROVE  BridgeInv'
  <1> DEFINE rec == [thread[t] EXCEPT !.at = "send"]
  <1>1. thread \in [Threads -> Thread] /\ thread' = [thread EXCEPT ![t] = rec]
    BY DEF BridgeInv, BridgeTypeOK, ResetDrop
  <1>2. rec \in Thread /\ rec.at = "send" /\ rec.todo = thread[t].todo
    BY <1>1 DEF Thread, Steps
  <1> HIDE DEF rec
  <1>3. /\ thread' \in [Threads -> Thread] /\ thread'[t] = rec
        /\ \A u \in Threads : u # t => thread'[u] = thread[u]
    BY <1>1, <1>2, OneThread
  <1>4. thread[t].at = "drop" /\ thread[t].todo # <<>>
    BY DEF ResetDrop, BridgeInv, ThreadInv, Resting
  <1>5. \A u \in Threads : ThreadInv(u)'
    BY <1>2, <1>3, <1>4, ThreadMoves DEF ResetDrop, Holding, Calling
  <1>6. TypeOK'
    <2>1. address' \in {0, 1} /\ retries' \in 0..MaxRetry /\ generation' \in Nat
      BY HostAssumption DEF ResetDrop, DropPersonality, BridgeInv, BridgeTypeOK, TypeOK
    <2>2. tail' \in BOOLEAN
      BY DEF ResetDrop, DropPersonality
    <2> QED
      BY <2>1, <2>2 DEF ResetDrop, BridgeInv, BridgeTypeOK, TypeOK
  <1>7. TableTypes'
    BY DEF ResetDrop, BridgeInv, BridgeTypeOK, TableTypes
  <1> QED
    BY <1>3, <1>5, <1>6, <1>7, Assemble

LEMMA ResetSendInv ==
  ASSUME BridgeInv, NEW t \in Threads, ResetSend(t)
  PROVE  BridgeInv'
  <1>1. thread[t].at = "send" /\ thread[t].at \in Calling /\ thread' = After(t, "ok")
          /\ "ok" \in Outcomes
    BY DEF ResetSend, Calling, Outcomes
  <1>2. /\ thread' \in [Threads -> Thread]
        /\ \A u \in Threads : u # t => thread'[u] = thread[u]
        /\ thread'[t].at \in {"finish", "next"}
        /\ thread'[t].at = "next" => thread'[t].todo # <<>>
    BY <1>1, AfterMoves
  <1>3. \A u \in Threads : ThreadInv(u)'
    BY <1>1, <1>2, ThreadMoves DEF ResetSend, Holding, Calling, Resting
  <1>4. TypeOK'
    <2>1. "PortStatus" \in Commands /\ "PortStatus" \in Stages
      BY DEF Commands, Stages
    <2>2. stage' \in Stages /\ outstanding' \in [Commands -> Nat]
      BY <2>1, SendType DEF ResetSend, BridgeInv, BridgeTypeOK, TypeOK
    <2> QED
      BY <2>2 DEF ResetSend, BridgeInv, BridgeTypeOK, TypeOK
  <1>5. TableTypes'
    BY DEF ResetSend, BridgeInv, BridgeTypeOK, TableTypes
  <1> QED
    BY <1>2, <1>3, <1>4, <1>5, Assemble

-----------------------------------------------------------------------------
LEMMA ThreadStepInv ==
  ASSUME BridgeInv, NEW t \in Threads, ThreadStep(t)
  PROVE  BridgeInv'
  BY CopyInv, LockInv, BeginInv, SendCommandInv, CommandReturnsInv, RingControlInv,
     ControlReturnsInv, ResetDropInv, ResetSendInv, FinishInv
  DEF ThreadStep

LEMMA BridgeNextInv == BridgeInv /\ [BridgeNext]_allVars => BridgeInv'
  <1> SUFFICES ASSUME BridgeInv, [BridgeNext]_allVars PROVE BridgeInv'
    OBVIOUS
  <1>1. CASE UNCHANGED allVars
    BY <1>1 DEF allVars, bridgeVars, hostVars, BridgeInv, BridgeTypeOK, TypeOK, ThreadInv
  <1>2. ASSUME NEW t \in Clients, NEW op \in Operations, Connect(t, op) PROVE BridgeInv'
    BY <1>2, CopyInv DEF Threads
  <1> QED
    BY <1>1, <1>2, EnumerateInv, ClaimCommandInv, ReadTakenInv, RingDoneInv, StartWorkerInv,
       ThreadStepInv
    DEF BridgeNext

LEMMA BridgeInvariant == BridgeSpec => []BridgeInv
  BY BridgeInitInv, BridgeNextInv, PTL DEF BridgeSpec, BridgeSafety

(* Whatever the clients ask for and however the waits end, the tables of   *)
(* fake_usb_bridge keep their types.                                       *)
THEOREM BridgeTypeSafe == BridgeSpec => []BridgeTypeOK
  <1>1. BridgeInv => BridgeTypeOK
    BY DEF BridgeInv
  <1> QED
    BY <1>1, BridgeInvariant, PTL

(* A completion is never delivered to a request that has returned: the     *)
(* slots belong to the threads that hold the locks and wait.               *)
THEOREM PendingSafe == BridgeSpec => []PendingIsOwned
  <1>1. BridgeInv => PendingIsOwned
    BY DEF BridgeInv, ThreadInv, PendingIsOwned, Holding, Calling
  <1> QED
    BY <1>1, BridgeInvariant, PTL

(* A control request succeeds only by the completion of its own ring.      *)
THEOREM ControlOkSafe == BridgeSpec => []ControlOkIsOwn
  <1>1. BridgeInv => ControlOkIsOwn
    BY DEF BridgeInv, ThreadInv, ControlOkIsOwn
  <1> QED
    BY <1>1, BridgeInvariant, PTL
=============================================================================
