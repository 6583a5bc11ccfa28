-------------------------- MODULE UsbNotifyProofs --------------------------
(***************************************************************************)
(* The poller and the callbacks of the IOUSBLib facade share one record    *)
(* per registration without a lock.  Proved for any number of              *)
(* registrations and queues: the types, and that no client is handed a     *)
(* device older than one it was handed before.  The argument is one of     *)
(* ages: what a record names is never younger than the answer the poller   *)
(* works on, and a removal that is remembered is never older than what its *)
(* record names.  For callbacks that share one queue the order of its      *)
(* blocks is followed too: a removal comes before a newer match.           *)
(***************************************************************************)
EXTENDS UsbNotify, TLAPS

Pollers ==
    [at : {"sleep", "slot", "configure", "prior", "sync", "queue"},
     state : States, known : BOOLEAN,
     slot : 1..Len(Registrations) + 1, prior : 1..Len(Registrations) + 1]

(* handed <= service <= the poller's answer <= the bridge, for every slot, *)
(* and a remembered generation lies between service and the answer.        *)
Ages ==
    /\ poller.state.generation <= bridge.generation
    /\ \A i \in Slots :
          /\ handed[i] <= service[i]
          /\ service[i] <= poller.state.generation
          /\ observed[i] <= poller.state.generation
          /\ observed[i] # 0 => service[i] <= observed[i]

(* Outside the scan itself the poller is at a slot that exists.            *)
Scanning ==
    /\ poller.at \in {"configure", "prior", "sync"} => poller.slot \in Slots
    /\ poller.at = "sync" => poller.prior \in Slots

NotifyInv == NotifyTypeOK /\ Ages /\ Scanning

LEMMA SlotsAre == Slots = 1..Len(Registrations) /\ Len(Registrations) \in Nat
  BY NotifyAssumption DEF Slots

LEMMA GenerationsAre == Generations \subseteq Nat /\ 0 \in Generations /\ 1 \in Generations
  BY NotifyAssumption DEF Generations

LEMMA ElementIn ==
  ASSUME NEW S, NEW s \in Seq(S), NEW i \in DOMAIN s
  PROVE  s[i] \in S
  OBVIOUS

LEMMA QueueOf ==
  ASSUME NEW i \in Slots
  PROVE  Wants(i).queue \in Queues
  <1>1. Registrations[i] \in [termination : BOOLEAN, product : Products, queue : Queues]
    BY NotifyAssumption, ElementIn DEF Slots
  <1> QED
    BY <1>1 DEF Wants

LEMMA NotifyInitInv == NotifyInit => NotifyInv
  <1> SUFFICES ASSUME NotifyInit PROVE NotifyInv
    OBVIOUS
  <1>1. bridge \in States
    BY GenerationsAre DEF NotifyInit, States
  <1>2. poller \in Pollers /\ poller.state = bridge
    BY <1>1, SlotsAre DEF NotifyInit, Pollers
  <1>3. NotifyTypeOK
    <2>1. /\ used \in 0..Len(Registrations) /\ failures \in 0..MaxFailures
          /\ configured \in Generations
      BY SlotsAre, GenerationsAre, NotifyAssumption DEF NotifyInit
    <2>2. /\ observed \in [Slots -> Generations] /\ service \in [Slots -> Generations]
          /\ handed \in [Slots -> Generations] /\ delivered \in [Slots -> BOOLEAN]
      BY GenerationsAre DEF NotifyInit
    <2>3. queue \in [Queues -> Seq(Blocks)] /\ running \in [Queues -> Blocks \cup {Waiting}]
      BY DEF NotifyInit
    <2>4. armed = {} /\ reported = {} /\ overtaken = FALSE
      BY DEF NotifyInit
    <2> QED
      BY <1>1, <1>2, <2>1, <2>2, <2>3, <2>4 DEF NotifyTypeOK, Pollers
  <1>4. Ages
    BY <1>1, <1>2, GenerationsAre DEF NotifyInit, Ages, States
  <1>5. Scanning
    BY DEF NotifyInit, Scanning
  <1> QED
    BY <1>3, <1>4, <1>5 DEF NotifyInv

(* What the proofs need to know of numbers.                                *)
LEMMA Numbers ==
  ASSUME NotifyInv
  PROVE  /\ bridge \in States /\ bridge.generation \in Generations
         /\ poller \in Pollers /\ poller.state \in States
         /\ poller.state.generation \in Generations
         /\ poller.slot \in 1..Len(Registrations) + 1
         /\ poller.prior \in 1..Len(Registrations) + 1
         /\ observed \in [Slots -> Generations]
         /\ service \in [Slots -> Generations]
         /\ handed \in [Slots -> Generations]
  BY DEF NotifyInv, NotifyTypeOK, Pollers, States

LEMMA AgesAreNat ==
  ASSUME NotifyInv
  PROVE  /\ bridge.generation \in Nat /\ poller.state.generation \in Nat
         /\ \A i \in Slots : observed[i] \in Nat /\ service[i] \in Nat /\ handed[i] \in Nat
  BY Numbers, GenerationsAre

(* Within a pass the poller keeps its answer.                              *)
LEMMA NextSlotMoves ==
  ASSUME NotifyInv, poller.slot \in Slots, poller' = NextSlot
  PROVE  poller' \in Pollers /\ poller'.state = poller.state
  <1>1. poller.slot + 1 \in 1..Len(Registrations) + 1
    BY SlotsAre
  <1> QED
    BY <1>1, Numbers DEF NextSlot, Pollers

-----------------------------------------------------------------------------
(* The bridge moves on; clients register.                                  *)
LEMMA BridgeMoves ==
  ASSUME NotifyInv, Publish \/ Drop \/ Register
  PROVE  NotifyInv' /\ UNCHANGED handed
  <1>1. bridge' \in States /\ bridge.generation <= bridge'.generation
    <2>0. bridge \in States /\ bridge.generation \in Nat
      BY Numbers, AgesAreNat
    <2>1. CASE Publish
      <3>1. PICK p \in Products : bridge' = [bridge EXCEPT !.ready = TRUE, !.product = p]
        BY <2>1 DEF Publish
      <3>2. bridge' \in States /\ bridge'.generation = bridge.generation
        BY <2>0, <3>1 DEF States
      <3> QED
        BY <2>0, <3>2
    <2>2. CASE Drop
      <3>1. bridge.generation + 1 \in Generations
        BY <2>0, <2>2, NotifyAssumption DEF Drop, Generations
      <3>2. bridge' \in States /\ bridge'.generation = bridge.generation + 1
        BY <2>0, <2>2, <3>1 DEF Drop, States
      <3> QED
        BY <2>0, <3>2
    <2>3. CASE UNCHANGED bridge
      BY <2>0, <2>3
    <2> QED
      BY <2>1, <2>2, <2>3 DEF Register
  <1>2. used' \in 0..Len(Registrations)
    <2>1. used \in 0..Len(Registrations)
      BY DEF NotifyInv, NotifyTypeOK
    <2>2. UNCHANGED used \/ (used < Len(Registrations) /\ used' = used + 1)
      BY DEF Publish, Drop, Register
    <2> QED
      BY <2>1, <2>2, SlotsAre
  <1>3. UNCHANGED <<observed, service, delivered, configured, poller, queue, running,
                    failures, handed, armed, reported, overtaken>>
    BY DEF Publish, Drop, Register
  <1>4. NotifyTypeOK'
    BY <1>1, <1>2, <1>3 DEF NotifyInv, NotifyTypeOK
  <1>5. Ages'
    <2>1. bridge'.generation \in Nat
      BY <1>1, GenerationsAre DEF States
    <2>2. (poller.state.generation <= bridge.generation)'
      BY <1>1, <1>3, <2>1, AgesAreNat DEF NotifyInv, Ages
    <2> QED
      BY <1>3, <2>2 DEF NotifyInv, Ages
  <1>6. Scanning'
    BY <1>3 DEF NotifyInv, Scanning
  <1> QED
    BY <1>3, <1>4, <1>5, <1>6 DEF NotifyInv

(* A pass begins with a new answer, or without one.                        *)
LEMMA PollInv ==
  ASSUME NotifyInv, Poll
  PROVE  NotifyInv' /\ UNCHANGED handed
  <1>1. UNCHANGED <<bridge, used, observed, service, delivered, configured,
                    queue, running, handed, armed, reported, overtaken>>
    BY DEF Poll
  <1>2. failures' \in 0..MaxFailures
    BY NotifyAssumption DEF Poll, NotifyInv, NotifyTypeOK
  <1>3. poller' \in Pollers /\ poller'.at = "slot"
          /\ (poller'.state = bridge \/ poller'.state = poller.state)
    <2>0. poller \in Pollers /\ bridge \in States /\ 1 \in 1..Len(Registrations) + 1
      BY Numbers, SlotsAre
    <2>1. CASE poller' = [at |-> "slot", state |-> bridge, known |-> TRUE, slot |-> 1, prior |-> 1]
      BY <2>0, <2>1 DEF Pollers
    <2>2. CASE poller' = [poller EXCEPT !.at = "slot", !.known = FALSE, !.slot = 1]
      BY <2>0, <2>2 DEF Pollers
    <2> QED
      BY <2>1, <2>2 DEF Poll
  <1>4. NotifyTypeOK'
    BY <1>1, <1>2, <1>3 DEF NotifyInv, NotifyTypeOK, Pollers
  <1>5. Ages'
    <2> SUFFICES ASSUME NEW i \in Slots
                 PROVE  /\ poller'.state.generation <= bridge.generation
                        /\ handed[i] <= service[i]
                        /\ service[i] <= poller'.state.generation
                        /\ observed[i] <= poller'.state.generation
                        /\ observed[i] # 0 => service[i] <= observed[i]
      BY <1>1, <1>3, AgesAreNat DEF NotifyInv, Ages
    <2> QED
      BY <1>3, AgesAreNat DEF NotifyInv, Ages
  <1>6. Scanning'
    BY <1>3 DEF Scanning
  <1> QED
    BY <1>1, <1>4, <1>5, <1>6 DEF NotifyInv

(* Steps of the poller that only move it.                                  *)
LEMMA MoveInv ==
  ASSUME NotifyInv, Skip \/ EndPass \/ PriorSkip \/ PriorDone
  PROVE  NotifyInv' /\ UNCHANGED handed
  <1>1. UNCHANGED <<bridge, used, observed, service, delivered, configured,
                    queue, running, failures, handed, armed, reported, overtaken>>
    BY DEF Skip, EndPass, PriorSkip, PriorDone
  <1>2. poller' \in Pollers /\ poller'.state = poller.state /\ Scanning'
    <2>1. CASE Skip
      <3>1. poller'.at = "slot"
        BY <2>1, Numbers DEF Skip, NextSlot, Pollers
      <3> QED
        BY <2>1, <3>1, NextSlotMoves DEF Skip, Scanning
    <2>2. CASE EndPass
      BY <2>2, Numbers DEF EndPass, Pollers, Scanning
    <2>3. CASE PriorSkip
      <3>1. poller.prior + 1 \in 1..Len(Registrations) + 1 /\ poller.at = "prior"
              /\ poller' = [poller EXCEPT !.prior = @ + 1]
        BY <2>3, SlotsAre DEF PriorSkip
      <3> QED
        BY <3>1, Numbers DEF Pollers, Scanning, NotifyInv
    <2>4. CASE PriorDone
      <3>1. poller.prior + 1 \in 1..Len(Registrations) + 1 /\ poller.slot \in Slots
              /\ poller' = [poller EXCEPT !.at = "prior", !.prior = @ + 1]
        BY <2>4, SlotsAre DEF PriorDone, NotifyInv, Scanning
      <3> QED
        BY <3>1, Numbers DEF Pollers, Scanning
    <2> QED
      BY <2>1, <2>2, <2>3, <2>4
  <1>3. NotifyTypeOK'
    BY <1>1, <1>2 DEF NotifyInv, NotifyTypeOK, Pollers
  <1>4. Ages'
    BY <1>1, <1>2 DEF NotifyInv, Ages
  <1> QED
    BY <1>1, <1>2, <1>3, <1>4 DEF NotifyInv

-----------------------------------------------------------------------------
(* The poller's answer, and every slot but one, stay as they are.          *)
LEMMA SlotAges ==
  ASSUME NotifyInv, NEW i \in Slots, NEW o \in Generations, NEW s \in Generations,
         observed' = [observed EXCEPT ![i] = o], service' = [service EXCEPT ![i] = s],
         UNCHANGED <<bridge, handed>>, poller'.state = poller.state,
         service[i] <= s, s <= poller.state.generation, o <= poller.state.generation,
         o # 0 => s <= o
  PROVE  /\ observed' \in [Slots -> Generations] /\ service' \in [Slots -> Generations]
         /\ Ages'
  <1>1. /\ observed' \in [Slots -> Generations] /\ service' \in [Slots -> Generations]
        /\ \A j \in Slots : observed'[j] = IF j = i THEN o ELSE observed[j]
        /\ \A j \in Slots : service'[j] = IF j = i THEN s ELSE service[j]
    BY Numbers
  <1>2. ASSUME NEW j \in Slots
        PROVE  /\ handed[j] <= service'[j]
               /\ service'[j] <= poller.state.generation
               /\ observed'[j] <= poller.state.generation
               /\ observed'[j] # 0 => service'[j] <= observed'[j]
    <2>1. CASE j = i
      <3>1. s \in Nat /\ o \in Nat
        BY GenerationsAre
      <3> QED
        BY <1>1, <2>1, <3>1, AgesAreNat DEF NotifyInv, Ages
    <2>2. CASE j # i
      BY <1>1, <2>2 DEF NotifyInv, Ages
    <2> QED
      BY <2>1, <2>2
  <1>3. Ages'
    BY <1>2 DEF NotifyInv, Ages
  <1> QED
    BY <1>1, <1>3

LEMMA MatchInv ==
  ASSUME NotifyInv, Match
  PROVE  NotifyInv' /\ UNCHANGED handed
  <1> DEFINE i == poller.slot
             g == poller.state.generation
             at == IF Wants(i).product = RestoreOS THEN "prior" ELSE "configure"
  <1>1. /\ i \in Slots
        /\ observed' = [observed EXCEPT ![i] = g] /\ service' = [service EXCEPT ![i] = g]
        /\ poller' = [poller EXCEPT !.prior = 1, !.at = at]
        /\ UNCHANGED <<bridge, used, delivered, configured, queue, running, failures,
                       handed, armed, reported, overtaken>>
    BY DEF Match
  <1>2. at \in {"prior", "configure"} /\ 1 \in 1..Len(Registrations) + 1
    BY SlotsAre
  <1> HIDE DEF at
  <1>3. poller' \in Pollers /\ poller'.state = poller.state /\ poller'.at = at
          /\ poller'.slot = i
    BY <1>1, <1>2, Numbers DEF Pollers
  <1>4. g \in Generations /\ g \in Nat /\ service[i] <= g /\ g <= g
    BY <1>1, Numbers, AgesAreNat DEF NotifyInv, Ages
  <1>5. /\ observed' \in [Slots -> Generations] /\ service' \in [Slots -> Generations]
        /\ Ages'
    BY <1>1, <1>3, <1>4, SlotAges
  <1>6. Scanning'
    BY <1>1, <1>2, <1>3 DEF Scanning
  <1>7. NotifyTypeOK'
    BY <1>1, <1>3, <1>5 DEF NotifyInv, NotifyTypeOK, Pollers
  <1> QED
    BY <1>1, <1>5, <1>6, <1>7 DEF NotifyInv

(* The poller goes on to the next slot.                                    *)
LEMMA NextSlotScans ==
  ASSUME NotifyInv, poller' = NextSlot
  PROVE  Scanning'
  <1>1. poller'.at = "slot"
    BY Numbers DEF NextSlot, Pollers
  <1> QED
    BY <1>1 DEF Scanning

LEMMA ArmInv ==
  ASSUME NotifyInv, Arm
  PROVE  NotifyInv' /\ UNCHANGED handed
  <1> DEFINE i == poller.slot
             g == poller.state.generation
  <1>1. /\ i \in Slots /\ observed' = [observed EXCEPT ![i] = g]
        /\ armed' = armed \cup {<<i, g>>} /\ poller' = NextSlot
        /\ UNCHANGED <<bridge, used, service, delivered, configured, queue, running,
                       failures, handed, reported, overtaken>>
    BY DEF Arm
  <1>2. poller' \in Pollers /\ poller'.state = poller.state /\ Scanning'
    BY <1>1, NextSlotMoves, NextSlotScans
  <1>3. g \in Generations /\ g \in Nat /\ service[i] \in Generations /\ service[i] \in Nat
          /\ service[i] <= g /\ g <= g /\ service[i] <= service[i]
          /\ service' = [service EXCEPT ![i] = service[i]]
    BY <1>1, Numbers, AgesAreNat DEF NotifyInv, Ages
  <1>4. observed' \in [Slots -> Generations] /\ Ages'
    BY <1>1, <1>2, <1>3, SlotAges
  <1>5. armed' \subseteq Slots \X Generations
    BY <1>1, <1>3 DEF NotifyInv, NotifyTypeOK
  <1>6. NotifyTypeOK'
    BY <1>1, <1>2, <1>4, <1>5 DEF NotifyInv, NotifyTypeOK, Pollers
  <1> QED
    BY <1>1, <1>2, <1>4, <1>6 DEF NotifyInv

LEMMA AsyncType ==
  ASSUME NotifyInv, NEW q \in Queues, NEW i \in Slots, NEW g \in Generations, Async(q, i, g)
  PROVE  queue' \in [Queues -> Seq(Blocks)]
  <1>1. Block(i, g) \in Blocks
    BY DEF Block, Blocks
  <1>2. queue \in [Queues -> Seq(Blocks)]
    BY DEF NotifyInv, NotifyTypeOK
  <1> QED
    BY <1>1, <1>2 DEF Async

(* A removal, in its turn or before a match: what the record names moves   *)
(* up to the generation that was remembered.                               *)
LEMMA RemovalInv ==
  ASSUME NotifyInv, Removed \/ PriorRemoved
  PROVE  NotifyInv' /\ UNCHANGED handed
  <1>1. PICK i \in Slots :
           /\ observed[i] # 0
           /\ service' = [service EXCEPT ![i] = observed[i]]
           /\ observed' = [observed EXCEPT ![i] = 0]
           /\ Async(Wants(i).queue, i, observed[i])
    BY DEF Removed, PriorRemoved, Owed
  <1>2. UNCHANGED <<bridge, used, delivered, configured, running, failures,
                    handed, armed, reported, overtaken>>
    BY DEF Removed, PriorRemoved
  <1>3. poller' \in Pollers /\ poller'.state = poller.state /\ Scanning'
    <2>1. CASE Removed
      BY <2>1, NextSlotMoves, NextSlotScans DEF Removed
    <2>2. CASE PriorRemoved
      <3>1. poller.prior \in Slots /\ poller.slot \in Slots
              /\ poller' = [poller EXCEPT !.at = "sync"]
        BY <2>2 DEF PriorRemoved, NotifyInv, Scanning
      <3> QED
        BY <3>1, Numbers DEF Pollers, Scanning
    <2> QED
      BY <2>1, <2>2
  <1>4. /\ observed[i] \in Generations /\ 0 \in Generations
        /\ service[i] <= observed[i] /\ observed[i] <= poller.state.generation
        /\ 0 <= poller.state.generation
    BY <1>1, Numbers, AgesAreNat, GenerationsAre DEF NotifyInv, Ages
  <1>5. /\ observed' \in [Slots -> Generations] /\ service' \in [Slots -> Generations]
        /\ Ages'
    BY <1>1, <1>2, <1>3, <1>4, SlotAges
  <1>6. queue' \in [Queues -> Seq(Blocks)]
    BY <1>1, <1>4, QueueOf, AsyncType
  <1>7. NotifyTypeOK'
    BY <1>2, <1>3, <1>5, <1>6 DEF NotifyInv, NotifyTypeOK, Pollers
  <1> QED
    BY <1>2, <1>3, <1>5, <1>7 DEF NotifyInv

LEMMA ConfigureInv ==
  ASSUME NotifyInv, Configured \/ NotConfigured
  PROVE  NotifyInv' /\ UNCHANGED handed
  <1>0. poller.at = "configure" /\ poller.slot \in Slots
    BY DEF Configured, NotConfigured, NotifyInv, Scanning
  <1>1. UNCHANGED <<bridge, used, service, delivered, queue, running, handed, armed,
                    reported, overtaken>>
    BY DEF Configured, NotConfigured
  <1>2. configured' \in Generations
    BY Numbers DEF Configured, NotConfigured, NotifyInv, NotifyTypeOK
  <1>3. failures' \in 0..MaxFailures
    <2>1. failures \in 0..MaxFailures
      BY DEF NotifyInv, NotifyTypeOK
    <2>2. UNCHANGED failures \/ (failures < MaxFailures /\ failures' = failures + 1)
      BY DEF Configured, NotConfigured
    <2> QED
      BY <2>1, <2>2, NotifyAssumption
  <1>4. poller' \in Pollers /\ poller'.state = poller.state /\ Scanning'
    <2>1. CASE Configured
      BY <1>0, <2>1, Numbers DEF Configured, Pollers, Scanning
    <2>2. CASE NotConfigured
      BY <1>0, <2>2, NextSlotMoves, NextSlotScans DEF NotConfigured
    <2> QED
      BY <2>1, <2>2
  <1>5. observed' \in [Slots -> Generations] /\ Ages'
    <2>1. CASE UNCHANGED observed
      BY <1>1, <1>4, <2>1 DEF NotifyInv, NotifyTypeOK, Ages
    <2>2. CASE observed' = [observed EXCEPT ![poller.slot] = 0]
      <3>1. /\ service' = [service EXCEPT ![poller.slot] = service[poller.slot]]
            /\ service[poller.slot] \in Generations /\ 0 \in Generations
            /\ service[poller.slot] <= service[poller.slot]
            /\ service[poller.slot] <= poller.state.generation
            /\ 0 <= poller.state.generation
        BY <1>0, <1>1, Numbers, AgesAreNat, GenerationsAre DEF NotifyInv, Ages
      <3> QED
        BY <1>0, <1>1, <1>4, <2>2, <3>1, SlotAges
    <2> QED
      BY <2>1, <2>2 DEF Configured, NotConfigured
  <1>6. NotifyTypeOK'
    BY <1>1, <1>2, <1>3, <1>4, <1>5 DEF NotifyInv, NotifyTypeOK, Pollers
  <1> QED
    BY <1>1, <1>4, <1>5, <1>6 DEF NotifyInv

LEMMA QueueMatchInv ==
  ASSUME NotifyInv, QueueMatch
  PROVE  NotifyInv' /\ UNCHANGED handed
  <1>1. /\ poller.slot \in Slots /\ poller' = NextSlot
        /\ Async(Wants(poller.slot).queue, poller.slot, poller.state.generation)
        /\ UNCHANGED <<bridge, used, observed, service, delivered, configured,
                       running, failures, handed, armed, reported, overtaken>>
    BY DEF QueueMatch, NotifyInv, Scanning
  <1>2. poller' \in Pollers /\ poller'.state = poller.state /\ Scanning'
    BY <1>1, NextSlotMoves, NextSlotScans
  <1>3. queue' \in [Queues -> Seq(Blocks)]
    BY <1>1, Numbers, QueueOf, AsyncType
  <1>4. NotifyTypeOK'
    BY <1>1, <1>2, <1>3 DEF NotifyInv, NotifyTypeOK, Pollers
  <1>5. Ages'
    BY <1>1, <1>2 DEF NotifyInv, Ages
  <1> QED
    BY <1>1, <1>2, <1>4, <1>5 DEF NotifyInv

-----------------------------------------------------------------------------
(* A block leaves its queue, and runs unless its slot is being served.     *)
LEMMA DeliverInv ==
  ASSUME NotifyInv, NEW q \in Queues, Deliver(q)
  PROVE  NotifyInv' /\ UNCHANGED handed
  <1> DEFINE b == Head(queue[q])
  <1>1. UNCHANGED <<bridge, used, observed, service, configured, poller, failures,
                    handed, armed>>
    BY DEF Deliver
  <1>2. queue[q] \in Seq(Blocks) /\ queue[q] # <<>>
    BY DEF Deliver, NotifyInv, NotifyTypeOK
  <1>3. b \in Blocks /\ Tail(queue[q]) \in Seq(Blocks)
    BY <1>2
  <1>4. queue' \in [Queues -> Seq(Blocks)]
    BY <1>3 DEF Deliver, NotifyInv, NotifyTypeOK
  <1>5. /\ delivered' \in [Slots -> BOOLEAN] /\ running' \in [Queues -> Blocks \cup {Waiting}]
        /\ reported' \subseteq Slots \X Generations /\ overtaken' \in BOOLEAN
    <2>0. /\ delivered \in [Slots -> BOOLEAN] /\ running \in [Queues -> Blocks \cup {Waiting}]
          /\ reported \subseteq Slots \X Generations /\ overtaken \in BOOLEAN
      BY DEF NotifyInv, NotifyTypeOK
    <2>1. CASE delivered[b.slot]
      <3>1. UNCHANGED <<delivered, running, reported, overtaken>>
        BY <2>1 DEF Deliver
      <3> QED
        BY <2>0, <3>1
    <2>2. CASE ~delivered[b.slot]
      <3>1. /\ delivered' = [delivered EXCEPT ![b.slot] = TRUE]
            /\ running' = [running EXCEPT ![q] = b]
            /\ reported' = reported \/ reported' = reported \cup {<<b.slot, b.generation>>}
        BY <2>2 DEF Deliver
      <3>2. overtaken' \in BOOLEAN
        BY <2>2 DEF Deliver
      <3>3. <<b.slot, b.generation>> \in Slots \X Generations
        BY <1>3 DEF Blocks
      <3> HIDE DEF b
      <3> QED
        BY <1>3, <2>0, <3>1, <3>2, <3>3
    <2> QED
      BY <2>1, <2>2
  <1>6. NotifyTypeOK'
    BY <1>1, <1>4, <1>5 DEF NotifyInv, NotifyTypeOK
  <1>7. Ages' /\ Scanning'
    BY <1>1 DEF NotifyInv, Ages, Scanning
  <1> QED
    BY <1>1, <1>6, <1>7 DEF NotifyInv

(* The callback is handed what its record names, which is at least as      *)
(* young as what it was handed last.                                       *)
LEMMA IterateInv ==
  ASSUME NotifyInv, NEW q \in Queues, Iterate(q)
  PROVE  NotifyInv' /\ \A i \in Slots : handed'[i] >= handed[i]
  <1> DEFINE i == running[q].slot
  <1>1. UNCHANGED <<bridge, used, observed, service, configured, poller, queue, failures,
                    armed, reported, overtaken>>
    BY DEF Iterate
  <1>2. /\ handed' = [handed EXCEPT ![i] = service[i]]
        /\ delivered' = [delivered EXCEPT ![i] = FALSE]
        /\ running' = [running EXCEPT ![q] = Waiting]
    BY DEF Iterate
  <1>3. i \in Slots
    <2>1. running[q] \in Blocks
      BY DEF Iterate, NotifyInv, NotifyTypeOK
    <2> QED
      BY <2>1 DEF Blocks
  <1> HIDE DEF i
  <1>4. /\ handed' \in [Slots -> Generations]
        /\ \A j \in Slots : handed'[j] = IF j = i THEN service[j] ELSE handed[j]
    BY <1>2, <1>3, Numbers
  <1>5. \A j \in Slots : handed'[j] <= service[j] /\ handed'[j] >= handed[j]
    BY <1>4, AgesAreNat DEF NotifyInv, Ages
  <1>6. delivered' \in [Slots -> BOOLEAN] /\ running' \in [Queues -> Blocks \cup {Waiting}]
    BY <1>2 DEF NotifyInv, NotifyTypeOK
  <1>7. NotifyTypeOK'
    BY <1>1, <1>4, <1>6 DEF NotifyInv, NotifyTypeOK
  <1>8. Ages' /\ Scanning'
    BY <1>1, <1>5 DEF NotifyInv, Ages, Scanning
  <1> QED
    BY <1>5, <1>7, <1>8 DEF NotifyInv

-----------------------------------------------------------------------------
LEMMA NotifyNextInv ==
  ASSUME NotifyInv, [NotifyNext]_vars
  PROVE  NotifyInv' /\ \A i \in Slots : handed'[i] >= handed[i]
  <1>0. UNCHANGED handed => \A i \in Slots : handed'[i] >= handed[i]
    BY AgesAreNat
  <1>1. CASE Publish \/ Drop \/ Register
    BY <1>0, <1>1, BridgeMoves
  <1>2. CASE PollerStep
    <2>1. CASE Poll
      BY <1>0, <2>1, PollInv
    <2>2. CASE Skip \/ EndPass \/ PriorSkip \/ PriorDone
      BY <1>0, <2>2, MoveInv
    <2>3. CASE Match
      BY <1>0, <2>3, MatchInv
    <2>4. CASE Arm
      BY <1>0, <2>4, ArmInv
    <2>5. CASE Removed \/ PriorRemoved
      BY <1>0, <2>5, RemovalInv
    <2>6. CASE Configured \/ NotConfigured
      BY <1>0, <2>6, ConfigureInv
    <2>7. CASE QueueMatch
      BY <1>0, <2>7, QueueMatchInv
    <2> QED
      BY <1>2, <2>1, <2>2, <2>3, <2>4, <2>5, <2>6, <2>7 DEF PollerStep
  <1>3. ASSUME NEW q \in Queues, Deliver(q)
        PROVE  NotifyInv' /\ \A i \in Slots : handed'[i] >= handed[i]
    BY <1>0, <1>3, DeliverInv
  <1>4. ASSUME NEW q \in Queues, Iterate(q)
        PROVE  NotifyInv' /\ \A i \in Slots : handed'[i] >= handed[i]
    BY <1>4, IterateInv
  <1>5. CASE UNCHANGED vars
    <2>1. UNCHANGED <<bridge, used, observed, service, delivered, configured, poller, queue,
                      running, failures, handed, armed, reported, overtaken>>
      BY <1>5 DEF vars
    <2>2. NotifyTypeOK'
      BY <2>1 DEF NotifyInv, NotifyTypeOK
    <2>3. Ages' /\ Scanning'
      BY <2>1 DEF NotifyInv, Ages, Scanning
    <2> QED
      BY <1>0, <2>1, <2>2, <2>3 DEF NotifyInv
  <1> QED
    BY <1>1, <1>2, <1>3, <1>4, <1>5 DEF NotifyNext

(* Whatever the bridge answers and however the queues run the callbacks,   *)
(* the records of installation_usb_shim.m keep their types: the poller     *)
(* never serves a slot past the registrations, and a queued block always   *)
(* names a slot.                                                           *)
THEOREM NotifyTypeSafe == NotifySpec => []NotifyTypeOK
  <1>1. NotifyInv => NotifyTypeOK
    BY DEF NotifyInv
  <1> QED
    BY <1>1, NotifyInitInv, NotifyNextInv, PTL DEF NotifySpec, NotifySafety

(* shim_IOIteratorNext reads delivered_service while the poller thread     *)
(* rewrites it without a lock; still no client is handed a generation      *)
(* older than one it was handed before, for any number of registrations    *)
(* and queues and with any requests failing.                               *)
THEOREM ServicesSafe == NotifySpec => ServicesNeverGoBack
  <1>1. NotifyInv /\ [NotifyNext]_vars => [\A i \in Slots : handed'[i] >= handed[i]]_vars
    BY NotifyNextInv
  <1> QED
    BY <1>1, NotifyInitInv, NotifyNextInv, PTL
      DEF NotifySpec, NotifySafety, ServicesNeverGoBack

-----------------------------------------------------------------------------
(* Removals come before matches where all callbacks run on one queue, as   *)
(* the restore tools register them.  Only fake_usb_deliver_prior_          *)
(* terminations waits for a removal; one that the scan itself queues would *)
(* be overtaken on another queue.                                          *)

OnlyQueue(c) == \A i \in Slots : Wants(i).queue = c
OneQueue == \E c \in Queues : OnlyQueue(c)

(* Removals that are promised and not yet reported.                        *)
Pending == armed \ reported

(* A pass for a match has dealt with the removal slots before `prior`.     *)
Cleared ==
    /\ poller.at \in {"configure", "prior", "sync"} => ~Wants(poller.slot).termination
    /\ poller.at = "configure" => poller.prior = 1
    /\ \A i \in Slots : i > used => observed[i] = 0
    /\ \A i \in Slots :
          /\ poller.at \in {"prior", "sync"}
          /\ i < poller.prior \/ (poller.at = "sync" /\ i = poller.prior)
          /\ Wants(i).termination
          /\ observed[i] # 0
          => observed[i] >= poller.state.generation

(* Every callback runs on c, one at a time.                                *)
Serial(c) ==
    /\ \A i \in Slots : delivered[i] => running[c] # Waiting /\ running[c].slot = i
    /\ \A q \in Queues : q # c => queue[q] = <<>> /\ running[q] = Waiting

(* A pending removal is remembered by its slot or waits on the queue.      *)
Promised(c) ==
    /\ bridge.generation >= 1 /\ poller.state.generation >= 1
    /\ \A r \in armed : Wants(r[1]).termination /\ r[2] >= 1
    /\ \A r \in Pending :
          \/ observed[r[1]] = r[2]
          \/ \E l \in 1..Len(queue[c]) : queue[c][l] = Block(r[1], r[2])

(* On the queue, pending removals of older generations precede a match.    *)
Ordered(c) ==
    \A k \in 1..Len(queue[c]) : ~Wants(queue[c][k].slot).termination =>
        /\ queue[c][k].generation <= poller.state.generation
        /\ \A r \in Pending : r[2] < queue[c][k].generation =>
              \E l \in 1..k - 1 : queue[c][l] = Block(r[1], r[2])

OrderInv(c) == Cleared /\ Serial(c) /\ Promised(c) /\ Ordered(c) /\ ~overtaken

LEMMA OrderInit ==
  ASSUME NotifyInit, NEW c \in Queues
  PROVE  OrderInv(c)
  <1>1. bridge.generation = 1 /\ poller.state.generation = 1 /\ poller.at = "sleep"
    BY DEF NotifyInit
  <1>2. queue[c] = <<>> /\ Pending = {} /\ armed = {}
    BY DEF NotifyInit, Pending
  <1>3. Cleared /\ Serial(c)
    BY <1>1 DEF NotifyInit, Cleared, Serial
  <1>4. Promised(c) /\ Ordered(c)
    BY <1>1, <1>2 DEF Promised, Ordered
  <1> QED
    BY <1>3, <1>4 DEF OrderInv, NotifyInit

LEMMA QueueNumbers ==
  ASSUME NotifyInv, NEW c \in Queues
  PROVE  /\ queue[c] \in Seq(Blocks) /\ Len(queue[c]) \in Nat
         /\ \A k \in 1..Len(queue[c]) : queue[c][k] \in Blocks /\ queue[c][k].slot \in Slots
                                          /\ queue[c][k].generation \in Nat
         /\ \A r \in armed : r[1] \in Slots /\ r[2] \in Generations /\ r[2] \in Nat
                               /\ r = <<r[1], r[2]>>
  <1>1. queue[c] \in Seq(Blocks) /\ armed \subseteq Slots \X Generations
    BY DEF NotifyInv, NotifyTypeOK
  <1>2. Len(queue[c]) \in Nat /\ \A k \in 1..Len(queue[c]) : queue[c][k] \in Blocks
    BY <1>1
  <1>3. \A b \in Blocks : b.slot \in Slots /\ b.generation \in Nat
    BY GenerationsAre DEF Blocks
  <1>4. \A r \in Slots \X Generations : r[1] \in Slots /\ r[2] \in Generations /\ r[2] \in Nat
                                             /\ r = <<r[1], r[2]>>
    <2> SUFFICES ASSUME NEW i \in Slots, NEW g \in Generations
                 PROVE  <<i, g>>[1] = i /\ <<i, g>>[2] = g /\ g \in Nat
      OBVIOUS
    <2> QED
      BY GenerationsAre
  <1> QED
    BY <1>1, <1>2, <1>3, <1>4

LEMMA Appended ==
  ASSUME NotifyInv, NEW c \in Queues, NEW i \in Slots, NEW g \in Generations, Async(c, i, g)
  PROVE  /\ Len(queue'[c]) = Len(queue[c]) + 1
         /\ queue'[c][Len(queue[c]) + 1] = Block(i, g)
         /\ \A l \in 1..Len(queue[c]) : queue'[c][l] = queue[c][l]
         /\ \A q \in Queues : q # c => queue'[q] = queue[q]
         /\ Block(i, g).slot = i /\ Block(i, g).generation = g
  <1>1. queue \in [Queues -> Seq(Blocks)] /\ Block(i, g) \in Blocks
    BY DEF NotifyInv, NotifyTypeOK, Block, Blocks
  <1>2. queue'[c] = Append(queue[c], Block(i, g)) /\ \A q \in Queues : q # c => queue'[q] = queue[q]
    BY <1>1 DEF Async
  <1>3. Block(i, g).slot = i /\ Block(i, g).generation = g
    BY DEF Block
  <1>4. queue[c] \in Seq(Blocks)
    BY <1>1
  <1>5. /\ Len(queue'[c]) = Len(queue[c]) + 1
        /\ queue'[c][Len(queue[c]) + 1] = Block(i, g)
        /\ \A l \in 1..Len(queue[c]) : queue'[c][l] = queue[c][l]
    BY <1>1, <1>2, <1>4
  <1> QED
    BY <1>2, <1>3, <1>5

(* A step that leaves the queue and the promises alone, and of the         *)
(* remembered generations only those of matches may change.                *)
LEMMA OrderKept ==
  ASSUME NotifyInv, NEW c \in Queues, OrderInv(c),
         UNCHANGED <<queue, armed, reported, overtaken>>,
         \A i \in Slots : Wants(i).termination => observed'[i] = observed[i],
         bridge'.generation >= bridge.generation, bridge'.generation \in Nat,
         poller'.state.generation >= poller.state.generation, poller'.state.generation \in Nat
  PROVE  Promised(c)' /\ Ordered(c)' /\ ~overtaken'
  <1>0. queue'[c] = queue[c] /\ Pending' = Pending /\ armed' = armed
    BY DEF Pending
  <1>1. Promised(c)'
    <2>1. bridge'.generation >= 1 /\ poller'.state.generation >= 1
      BY AgesAreNat DEF OrderInv, Promised
    <2>2. \A r \in armed : Wants(r[1]).termination /\ r[2] >= 1 /\ r[1] \in Slots
      BY QueueNumbers DEF OrderInv, Promised
    <2>3. \A r \in Pending :
            \/ observed'[r[1]] = r[2]
            \/ \E l \in 1..Len(queue[c]) : queue[c][l] = Block(r[1], r[2])
      BY <2>2 DEF OrderInv, Promised, Pending
    <2> QED
      BY <1>0, <2>1, <2>2, <2>3 DEF Promised
  <1>2. ASSUME NEW k \in 1..Len(queue[c]), ~Wants(queue[c][k].slot).termination
        PROVE  /\ queue[c][k].generation <= poller'.state.generation
               /\ \A r \in Pending : r[2] < queue[c][k].generation =>
                     \E l \in 1..k - 1 : queue[c][l] = Block(r[1], r[2])
    <2>1. queue[c][k].generation <= poller.state.generation
      BY <1>2 DEF OrderInv, Ordered
    <2>2. queue[c][k].generation <= poller'.state.generation
      BY <2>1, QueueNumbers, AgesAreNat
    <2> QED
      BY <1>2, <2>2 DEF OrderInv, Ordered
  <1>3. Ordered(c)'
    BY <1>0, <1>2 DEF Ordered
  <1> QED
    BY <1>1, <1>3 DEF OrderInv

LEMMA SerialKept ==
  ASSUME NEW c \in Queues, OrderInv(c), UNCHANGED <<delivered, running>>,
         \A q \in Queues : q # c => queue'[q] = queue[q]
  PROVE  Serial(c)'
  BY DEF OrderInv, Serial

-----------------------------------------------------------------------------
(* Moves of the poller and the bridge, one part of the invariant each.     *)
LEMMA OtherMoves ==
  ASSUME NotifyInv, NEW c \in Queues, OrderInv(c),
         Publish \/ Drop \/ Register \/ Poll \/ Skip \/ EndPass \/ Configured
           \/ PriorSkip \/ PriorDone \/ Match \/ NotConfigured
  PROVE  Serial(c)' /\ Promised(c)' /\ Ordered(c)' /\ ~overtaken'
  <1>1. UNCHANGED <<queue, armed, reported, overtaken, delivered, running>>
    BY DEF Publish, Drop, Register, Poll, Skip, EndPass, Configured, PriorSkip, PriorDone,
       Match, NotConfigured
  <1>2. NotifyInv' /\ bridge'.generation \in Nat /\ poller'.state.generation \in Nat
    <2>1. NotifyInv'
      BY BridgeMoves, PollInv, MoveInv, MatchInv, ConfigureInv
    <2>2. (bridge.generation \in Nat)' /\ (poller.state.generation \in Nat)'
      BY <2>1, AgesAreNat, PTL
    <2> QED
      BY <2>1, <2>2
  <1>3. bridge'.generation >= bridge.generation
    <2>0. bridge \in States /\ bridge.generation \in Nat
      BY Numbers, AgesAreNat
    <2>1. CASE Publish
      <3>1. PICK p \in Products : bridge' = [bridge EXCEPT !.ready = TRUE, !.product = p]
        BY <2>1 DEF Publish
      <3> QED
        BY <2>0, <3>1 DEF States
    <2>2. CASE Drop
      <3>1. bridge'.generation = bridge.generation + 1
        BY <2>0, <2>2 DEF Drop, States
      <3> QED
        BY <2>0, <3>1
    <2>3. CASE UNCHANGED bridge
      BY <2>0, <2>3
    <2> QED
      BY <2>1, <2>2, <2>3
      DEF Register, Poll, Skip, EndPass, Configured, PriorSkip, PriorDone, Match, NotConfigured
  <1>4. poller'.state.generation >= poller.state.generation
    <2>0. poller \in Pollers /\ poller.state.generation \in Nat /\ bridge.generation \in Nat
          /\ poller.state.generation <= bridge.generation
      BY Numbers, AgesAreNat DEF NotifyInv, Ages
    <2>1. CASE Poll
      <3>1. CASE poller' = [at |-> "slot", state |-> bridge, known |-> TRUE, slot |-> 1, prior |-> 1]
        BY <2>0, <3>1
      <3>2. CASE poller' = [poller EXCEPT !.at = "slot", !.known = FALSE, !.slot = 1]
        BY <2>0, <3>2 DEF Pollers
      <3> QED
        BY <2>1, <3>1, <3>2 DEF Poll
    <2>2. CASE ~Poll
      <3>1. CASE UNCHANGED poller
        BY <2>0, <3>1
      <3>2. CASE poller' = NextSlot
        BY <2>0, <3>2 DEF NextSlot, Pollers
      <3>3. CASE \E at \in {"sleep", "prior"} : poller' = [poller EXCEPT !.at = at]
        BY <2>0, <3>3 DEF Pollers
      <3>5. CASE poller' = [poller EXCEPT !.prior = @ + 1]
        BY <2>0, <3>5 DEF Pollers
      <3>6. CASE poller' = [poller EXCEPT !.at = "prior", !.prior = @ + 1]
        BY <2>0, <3>6 DEF Pollers
      <3>4. CASE Match
        <4>1. PICK at \in {"prior", "configure"} : poller' = [poller EXCEPT !.prior = 1, !.at = at]
          BY <3>4 DEF Match
        <4> QED
          BY <2>0, <4>1 DEF Pollers
      <3> QED
        BY <2>2, <3>1, <3>2, <3>3, <3>4, <3>5, <3>6
        DEF Publish, Drop, Register, Skip, EndPass, Configured, PriorSkip, PriorDone, NotConfigured
    <2> QED
      BY <2>1, <2>2
  <1>5. \A i \in Slots : Wants(i).termination => observed'[i] = observed[i]
    <2>1. CASE Match
      BY <2>1 DEF Match, NotifyInv, NotifyTypeOK
    <2>2. CASE NotConfigured
      <3>1. ~Wants(poller.slot).termination
        BY <2>2 DEF NotConfigured, OrderInv, Cleared
      <3> QED
        BY <2>2, <3>1 DEF NotConfigured, NotifyInv, NotifyTypeOK
    <2>3. CASE UNCHANGED observed
      BY <2>3
    <2> QED
      BY <2>1, <2>2, <2>3
      DEF Publish, Drop, Register, Poll, Skip, EndPass, Configured, PriorSkip, PriorDone
  <1>6. Promised(c)' /\ Ordered(c)' /\ ~overtaken'
    BY <1>1, <1>2, <1>3, <1>4, <1>5, OrderKept
  <1>7. Serial(c)'
    BY <1>1, SerialKept
  <1> QED
    BY <1>6, <1>7

(* The removal slots that the scan has passed owe nothing older than the   *)
(* answer the match is about.                                              *)
LEMMA ClearedKept ==
  ASSUME NotifyInv, Cleared, PollerStep
  PROVE  Cleared'
  <1>0. /\ poller \in Pollers /\ used \in Nat /\ poller.state.generation \in Nat
        /\ observed \in [Slots -> Generations]
        /\ \A i \in Slots : i \in Nat /\ observed[i] \in Nat
    BY Numbers, AgesAreNat, SlotsAre DEF NotifyInv, NotifyTypeOK
  <1>1. used' = used
    BY DEF PollerStep, Poll, Skip, Match, Arm, Removed, EndPass, Configured, NotConfigured,
       PriorSkip, PriorRemoved, PriorDone, QueueMatch
  <1>2. ASSUME NEW i \in Slots, i > used PROVE observed'[i] = 0
    <2>1. observed[i] = 0
      BY <1>2 DEF Cleared
    <2>2. CASE Match \/ Arm
      <3>1. poller.slot # i
        BY <1>0, <1>2, <2>2 DEF Match, Arm, SkipSlot
      <3> QED
        BY <1>0, <2>1, <2>2, <3>1 DEF Match, Arm
    <2>3. CASE Removed \/ PriorRemoved \/ NotConfigured
      BY <1>0, <2>1, <2>3 DEF Removed, PriorRemoved, NotConfigured
    <2>4. CASE UNCHANGED observed
      BY <2>1, <2>4
    <2> QED
      BY <2>2, <2>3, <2>4
      DEF PollerStep, Poll, Skip, EndPass, Configured, PriorSkip, PriorDone, QueueMatch
  <1>3. CASE Poll \/ Skip \/ Arm \/ Removed \/ EndPass \/ NotConfigured \/ QueueMatch
    <2>1. poller'.at \in {"slot", "sleep"}
      <3>1. CASE Poll
        <4>1. CASE poller' = [at |-> "slot", state |-> bridge, known |-> TRUE, slot |-> 1, prior |-> 1]
          BY <4>1
        <4>2. CASE poller' = [poller EXCEPT !.at = "slot", !.known = FALSE, !.slot = 1]
          BY <1>0, <4>2 DEF Pollers
        <4> QED
          BY <3>1, <4>1, <4>2 DEF Poll
      <3>2. CASE EndPass
        BY <1>0, <3>2 DEF EndPass, Pollers
      <3>3. CASE poller' = NextSlot
        BY <1>0, <3>3 DEF NextSlot, Pollers
      <3> QED
        BY <1>3, <3>1, <3>2, <3>3 DEF Skip, Arm, Removed, NotConfigured, QueueMatch
    <2> QED
      BY <1>1, <1>2, <2>1 DEF Cleared
  <1>4. CASE Match
    <2>1. poller'.prior = 1 /\ poller'.at \in {"prior", "configure"} /\ poller'.slot = poller.slot
          /\ ~Wants(poller.slot).termination
      <3>1. PICK at \in {"prior", "configure"} : poller' = [poller EXCEPT !.prior = 1, !.at = at]
        BY <1>4 DEF Match
      <3> QED
        BY <1>0, <1>4, <3>1 DEF Match, Pollers
    <2>2. \A i \in Slots : ~(i < 1)
      BY SlotsAre
    <2> QED
      BY <1>1, <1>2, <2>1, <2>2 DEF Cleared
  <1>5. CASE Configured
    <2>1. poller'.at = "prior" /\ poller'.slot = poller.slot /\ poller'.prior = poller.prior
          /\ poller.at = "configure"
      BY <1>0, <1>5 DEF Configured, Pollers
    <2>2. \A i \in Slots : ~(i < 1)
      BY SlotsAre
    <2> QED
      BY <1>1, <1>2, <2>1, <2>2 DEF Cleared
  <1>6. CASE PriorSkip
    <2>1. /\ poller'.at = "prior" /\ poller.at = "prior" /\ poller'.slot = poller.slot
          /\ poller'.prior = poller.prior + 1 /\ poller'.state = poller.state
          /\ observed' = observed /\ poller.prior \in Slots /\ ~Owed(poller.prior)
      BY <1>0, <1>6 DEF PriorSkip, Pollers
    <2>2. Wants(poller.prior).termination /\ observed[poller.prior] # 0
            => observed[poller.prior] = poller.state.generation
      BY <1>0, <2>1 DEF Owed, StillMatches, Cleared
    <2>3. ASSUME NEW i \in Slots, i < poller.prior + 1, Wants(i).termination, observed[i] # 0
          PROVE  observed[i] >= poller.state.generation
      <3>1. CASE i = poller.prior
        BY <1>0, <2>2, <2>3, <3>1
      <3>2. CASE i < poller.prior
        BY <2>1, <2>3, <3>2 DEF Cleared
      <3> QED
        BY <1>0, <2>1, <2>3, <3>1, <3>2
    <2> QED
      BY <1>1, <1>2, <2>1, <2>3 DEF Cleared
  <1>7. CASE PriorRemoved
    <2>1. /\ poller'.at = "sync" /\ poller.at = "prior" /\ poller'.slot = poller.slot
          /\ poller'.prior = poller.prior /\ poller'.state = poller.state
          /\ observed' = [observed EXCEPT ![poller.prior] = 0] /\ poller.prior \in Slots
      BY <1>0, <1>7 DEF PriorRemoved, Pollers
    <2>2. ASSUME NEW i \in Slots, i < poller.prior \/ i = poller.prior, Wants(i).termination,
                 observed'[i] # 0
          PROVE  observed'[i] >= poller.state.generation
      <3>1. i # poller.prior /\ observed'[i] = observed[i]
        BY <1>0, <2>1, <2>2
      <3> QED
        BY <2>1, <2>2, <3>1 DEF Cleared
    <2> QED
      BY <1>1, <1>2, <2>1, <2>2 DEF Cleared
  <1>8. CASE PriorDone
    <2>1. /\ poller'.at = "prior" /\ poller.at = "sync" /\ poller'.slot = poller.slot
          /\ poller'.prior = poller.prior + 1 /\ poller'.state = poller.state
          /\ observed' = observed /\ poller.prior \in Slots
      BY <1>0, <1>8 DEF PriorDone, Pollers, NotifyInv, Scanning
    <2>2. \A i \in Slots : i < poller.prior + 1 => i < poller.prior \/ i = poller.prior
      BY <1>0, <2>1
    <2> QED
      BY <1>1, <1>2, <2>1, <2>2 DEF Cleared
  <1> QED
    BY <1>3, <1>4, <1>5, <1>6, <1>7, <1>8 DEF PollerStep

LEMMA ClearedStays ==
  ASSUME NotifyInv, Cleared, UNCHANGED <<poller, observed>>, used' = used \/ used' = used + 1
  PROVE  Cleared'
  <1>1. used \in Nat /\ \A i \in Slots : i \in Nat
    BY SlotsAre DEF NotifyInv, NotifyTypeOK
  <1>2. \A i \in Slots : i > used' => i > used
    BY <1>1
  <1> QED
    BY <1>2 DEF Cleared

-----------------------------------------------------------------------------
(* A promise is of the answer the poller works on; every match that is     *)
(* queued is at most as young.                                             *)
LEMMA ArmOrdered ==
  ASSUME NotifyInv, NEW c \in Queues, OrderInv(c), Arm
  PROVE  Serial(c)' /\ Promised(c)' /\ Ordered(c)' /\ ~overtaken'
  <1> DEFINE i == poller.slot
             g == poller.state.generation
  <1>1. /\ i \in Slots /\ Wants(i).termination /\ observed[i] = 0
        /\ observed' = [observed EXCEPT ![i] = g]
        /\ armed' = armed \cup {<<i, g>>} /\ poller' = NextSlot
        /\ UNCHANGED <<bridge, delivered, queue, running, reported, overtaken>>
    BY DEF Arm
  <1>2. poller'.state = poller.state /\ g \in Nat /\ g >= 1
    BY <1>1, NextSlotMoves, AgesAreNat DEF OrderInv, Promised
  <1> HIDE DEF i, g
  <1>3. Pending' \subseteq Pending \cup {<<i, g>>}
    BY <1>1 DEF Pending
  <1>4. observed'[i] = g /\ \A j \in Slots : j # i => observed'[j] = observed[j]
    BY <1>1 DEF NotifyInv, NotifyTypeOK
  <1>5. Promised(c)'
    <2>1. ASSUME NEW r \in armed' PROVE Wants(r[1]).termination /\ r[2] >= 1
      BY <1>1, <1>2, <2>1 DEF OrderInv, Promised
    <2>2. ASSUME NEW r \in Pending'
          PROVE  \/ observed'[r[1]] = r[2]
                 \/ \E l \in 1..Len(queue[c]) : queue[c][l] = Block(r[1], r[2])
      <3>1. CASE r = <<i, g>>
        BY <1>4, <3>1
      <3>2. CASE r \in Pending
        <4>1. r[1] \in Slots /\ r[2] >= 1 /\ r[2] \in Nat
          BY <3>2, QueueNumbers DEF OrderInv, Promised, Pending
        <4>2. observed[r[1]] = r[2] => r[1] # i
          BY <1>1, <4>1
        <4> QED
          BY <1>4, <3>2, <4>1, <4>2 DEF OrderInv, Promised
      <3> QED
        BY <1>3, <3>1, <3>2
    <2>3. bridge'.generation >= 1 /\ poller'.state.generation >= 1
      BY <1>1, <1>2 DEF OrderInv, Promised
    <2> QED
      BY <1>1, <2>1, <2>2, <2>3 DEF Promised
  <1>6. ASSUME NEW k \in 1..Len(queue[c]), ~Wants(queue[c][k].slot).termination,
               NEW r \in Pending', r[2] < queue[c][k].generation
        PROVE  \E l \in 1..k - 1 : queue[c][l] = Block(r[1], r[2])
    <2>1. queue[c][k].generation <= poller.state.generation /\ queue[c][k].generation \in Nat
      BY <1>6, QueueNumbers DEF OrderInv, Ordered
    <2>2. r # <<i, g>>
      BY <1>2, <1>6, <2>1 DEF g
    <2> QED
      BY <1>3, <1>6, <2>2 DEF OrderInv, Ordered
  <1>7. Ordered(c)'
    BY <1>1, <1>2, <1>6 DEF Ordered, OrderInv
  <1>8. Serial(c)'
    BY <1>1, SerialKept
  <1> QED
    BY <1>1, <1>5, <1>7, <1>8 DEF OrderInv

(* What is appended disturbs nothing that waits, and is in order if it is  *)
(* a removal, or a match with no older removal still remembered.           *)
LEMMA AppendOrdered ==
  ASSUME NotifyInv, NEW c \in Queues, OrderInv(c),
         NEW i \in Slots, NEW g \in Generations, Async(c, i, g),
         UNCHANGED <<bridge, delivered, running, armed, reported, overtaken>>,
         poller'.state = poller.state,
         \A j \in Slots : observed'[j] = observed[j]
                            \/ (j = i /\ observed[i] = g /\ Wants(i).termination),
         ~Wants(i).termination =>
            /\ g = poller.state.generation
            /\ \A r \in Pending : observed[r[1]] = r[2] => r[2] >= g
  PROVE  Serial(c)' /\ Promised(c)' /\ Ordered(c)' /\ ~overtaken'
  <1> DEFINE n == Len(queue[c])
  <1>1. /\ Len(queue'[c]) = n + 1 /\ queue'[c][n + 1] = Block(i, g)
        /\ \A l \in 1..n : queue'[c][l] = queue[c][l]
        /\ Block(i, g).slot = i /\ Block(i, g).generation = g
        /\ \A q \in Queues : q # c => queue'[q] = queue[q]
    BY Appended
  <1>2. n \in Nat /\ \A r \in armed : r[1] \in Slots /\ r[2] \in Nat
    BY QueueNumbers
  <1>3. Pending' = Pending /\ Pending \subseteq armed /\ armed' = armed
    BY DEF Pending
  <1> HIDE DEF n
  <1>4. ASSUME NEW r \in Pending, NEW l \in 1..n, queue[c][l] = Block(r[1], r[2])
        PROVE  \E m \in 1..n + 1 : queue'[c][m] = Block(r[1], r[2])
    <2>1. l \in 1..n + 1 /\ queue'[c][l] = Block(r[1], r[2])
      BY <1>1, <1>2, <1>4
    <2> QED
      BY <2>1
  <1>5. Promised(c)'
    <2>1. ASSUME NEW r \in Pending
          PROVE  observed'[r[1]] = r[2] \/ \E m \in 1..n + 1 : queue'[c][m] = Block(r[1], r[2])
      <3>1. CASE observed[r[1]] = r[2]
        <4>1. r[1] \in Slots
          BY <1>2, <1>3
        <4>2. CASE observed'[r[1]] = observed[r[1]]
          BY <3>1, <4>2
        <4>3. CASE r[1] = i /\ observed[i] = g
          <5>1. Block(r[1], r[2]) = Block(i, g) /\ n + 1 \in 1..n + 1
            BY <1>2, <3>1, <4>3
          <5> QED
            BY <1>1, <5>1
        <4> QED
          BY <4>1, <4>2, <4>3
      <3>2. CASE \E l \in 1..n : queue[c][l] = Block(r[1], r[2])
        BY <1>4, <3>2
      <3> QED
        BY <3>1, <3>2 DEF OrderInv, Promised, n
    <2>2. bridge'.generation >= 1 /\ poller'.state.generation >= 1
      BY DEF OrderInv, Promised
    <2>3. \A r \in armed : Wants(r[1]).termination /\ r[2] >= 1
      BY DEF OrderInv, Promised
    <2> QED
      BY <1>1, <1>3, <2>1, <2>2, <2>3 DEF Promised
  <1>6. ASSUME NEW k \in 1..n + 1, ~Wants(queue'[c][k].slot).termination
        PROVE  /\ queue'[c][k].generation <= poller.state.generation
               /\ \A r \in Pending : r[2] < queue'[c][k].generation =>
                     \E l \in 1..k - 1 : queue'[c][l] = Block(r[1], r[2])
    <2>1. CASE k \in 1..n
      <3>1. queue'[c][k] = queue[c][k]
        BY <1>1, <2>1
      <3>2. /\ queue[c][k].generation <= poller.state.generation
            /\ \A r \in Pending : r[2] < queue[c][k].generation =>
                  \E l \in 1..k - 1 : queue[c][l] = Block(r[1], r[2])
        BY <1>6, <2>1, <3>1 DEF OrderInv, Ordered, n
      <3>3. \A l \in 1..k - 1 : queue'[c][l] = queue[c][l]
        BY <1>1, <1>2, <2>1
      <3> QED
        BY <3>1, <3>2, <3>3
    <2>2. CASE k = n + 1
      <3>1. queue'[c][k] = Block(i, g) /\ k - 1 = n
        BY <1>1, <1>2, <2>2
      <3>2. ~Wants(i).termination
        BY <1>1, <1>6, <3>1
      <3>3. g = poller.state.generation /\ g \in Nat
        BY <3>2, AgesAreNat
      <3>4. ASSUME NEW r \in Pending, r[2] < g
            PROVE  \E l \in 1..n : queue'[c][l] = Block(r[1], r[2])
        <4>1. observed[r[1]] # r[2]
          BY <1>2, <1>3, <3>2, <3>3, <3>4
        <4>2. PICK l \in 1..n : queue[c][l] = Block(r[1], r[2])
          BY <4>1 DEF OrderInv, Promised, n
        <4> QED
          BY <1>1, <4>2
      <3> QED
        BY <1>1, <3>1, <3>3, <3>4
    <2> QED
      BY <1>2, <2>1, <2>2
  <1>7. Ordered(c)'
    BY <1>1, <1>3, <1>6 DEF Ordered
  <1>8. Serial(c)'
    BY <1>1, SerialKept
  <1> QED
    BY <1>5, <1>7, <1>8 DEF OrderInv

LEMMA RemovalOrdered ==
  ASSUME NotifyInv, NEW c \in Queues, OnlyQueue(c), OrderInv(c), Removed \/ PriorRemoved
  PROVE  Serial(c)' /\ Promised(c)' /\ Ordered(c)' /\ ~overtaken'
  <1>1. PICK i \in Slots :
           /\ Wants(i).termination
           /\ observed' = [observed EXCEPT ![i] = 0]
           /\ Async(Wants(i).queue, i, observed[i])
    BY DEF Removed, PriorRemoved, Owed
  <1>2. UNCHANGED <<bridge, delivered, running, armed, reported, overtaken>>
    BY DEF Removed, PriorRemoved
  <1>3. poller'.state = poller.state
    <2>1. CASE poller' = NextSlot
      BY <2>1, Numbers DEF NextSlot, Pollers
    <2>2. CASE poller' = [poller EXCEPT !.at = "sync"]
      BY <2>2, Numbers DEF Pollers
    <2> QED
      BY <2>1, <2>2 DEF Removed, PriorRemoved
  <1>4. observed[i] \in Generations /\ Async(c, i, observed[i])
    BY <1>1, Numbers DEF OnlyQueue
  <1>5. \A j \in Slots : observed'[j] = observed[j]
                           \/ (j = i /\ observed[i] = observed[i] /\ Wants(i).termination)
    BY <1>1, Numbers
  <1> QED
    BY <1>1, <1>2, <1>3, <1>4, <1>5, AppendOrdered

(* The scan has passed every removal slot before the match is queued.      *)
LEMMA QueueMatchOrdered ==
  ASSUME NotifyInv, NEW c \in Queues, OnlyQueue(c), OrderInv(c), QueueMatch
  PROVE  Serial(c)' /\ Promised(c)' /\ Ordered(c)' /\ ~overtaken'
  <1> DEFINE i == poller.slot
             g == poller.state.generation
  <1>1. /\ i \in Slots /\ poller.at = "prior" /\ poller.prior \notin Slots
        /\ poller' = NextSlot /\ observed' = observed
        /\ Async(Wants(i).queue, i, g)
        /\ UNCHANGED <<bridge, delivered, running, armed, reported, overtaken>>
    BY DEF QueueMatch, NotifyInv, Scanning
  <1>2. poller'.state = poller.state /\ g \in Generations /\ g \in Nat
    BY <1>1, NextSlotMoves, Numbers, AgesAreNat
  <1>3. Async(c, i, g) /\ ~Wants(i).termination
    BY <1>1 DEF OnlyQueue, OrderInv, Cleared
  <1>4. \A j \in Slots : j < poller.prior
    BY <1>1, Numbers, SlotsAre
  <1>5. ASSUME NEW r \in Pending, observed[r[1]] = r[2] PROVE r[2] >= g
    <2>1. r[1] \in Slots /\ r[2] \in Nat /\ r[2] >= 1 /\ Wants(r[1]).termination
      BY <1>5, QueueNumbers DEF OrderInv, Promised, Pending
    <2>2. observed[r[1]] # 0
      BY <1>5, <2>1
    <2> QED
      BY <1>1, <1>4, <1>5, <2>1, <2>2 DEF OrderInv, Cleared
  <1> HIDE DEF i, g
  <1> QED
    BY <1>1, <1>2, <1>3, <1>5, AppendOrdered DEF g

-----------------------------------------------------------------------------
(* The block at the head runs; if it is a removal it is no longer pending, *)
(* and if it is a match nothing older was.                                 *)
LEMMA DeliverOrdered ==
  ASSUME NotifyInv, NEW c \in Queues, OrderInv(c), NEW q \in Queues, Deliver(q)
  PROVE  OrderInv(c)'
  <1>1. q = c /\ running[c] = Waiting /\ queue[c] # <<>>
    BY DEF Deliver, OrderInv, Serial
  <1> DEFINE b == Head(queue[c])
             n == Len(queue[c])
  <1>2. /\ n \in Nat \ {0} /\ b = queue[c][1] /\ b \in Blocks /\ b.slot \in Slots
        /\ Len(Tail(queue[c])) = n - 1
        /\ \A l \in 1..n - 1 : Tail(queue[c])[l] = queue[c][l + 1]
    <2>1. queue[c] \in Seq(Blocks)
      BY QueueNumbers
    <2>2. /\ n \in Nat \ {0} /\ b = queue[c][1] /\ b \in Blocks
          /\ Len(Tail(queue[c])) = n - 1
          /\ \A l \in 1..n - 1 : Tail(queue[c])[l] = queue[c][l + 1]
      BY <1>1, <2>1
    <2> QED
      BY <2>2 DEF Blocks
  <1>3. queue'[c] = Tail(queue[c]) /\ \A p \in Queues : p # c => queue'[p] = queue[p]
    BY <1>1 DEF Deliver, NotifyInv, NotifyTypeOK
  <1>4. ~delivered[b.slot]
    BY <1>1, <1>2 DEF OrderInv, Serial
  <1>5. /\ delivered' = [delivered EXCEPT ![b.slot] = TRUE]
        /\ running' = [running EXCEPT ![c] = b]
        /\ reported' = IF Wants(b.slot).termination
                       THEN reported \cup {<<b.slot, b.generation>>} ELSE reported
        /\ overtaken' <=> \/ overtaken
                          \/ /\ ~Wants(b.slot).termination
                             /\ \E r \in armed \ reported : r[2] < b.generation
        /\ UNCHANGED <<bridge, used, observed, poller, armed>>
    BY <1>1, <1>4 DEF Deliver
  <1> HIDE DEF b, n
  <1>6. Cleared'
    BY <1>5, ClearedStays DEF OrderInv
  <1>7. Serial(c)'
    <2>1. running'[c] = b /\ b # Waiting /\ \A p \in Queues : p # c => running'[p] = running[p]
      BY <1>2, <1>5, NotifyAssumption DEF NotifyInv, NotifyTypeOK, Blocks
    <2>2. \A i \in Slots : delivered'[i] => i = b.slot
      BY <1>1, <1>5 DEF NotifyInv, NotifyTypeOK, OrderInv, Serial
    <2> QED
      BY <1>3, <2>1, <2>2 DEF OrderInv, Serial
  <1>8. ~overtaken'
    <2>1. ASSUME ~Wants(b.slot).termination, NEW r \in Pending, r[2] < b.generation PROVE FALSE
      <3>1. 1 \in 1..n /\ \A l : l \notin 1..1 - 1
        BY <1>2
      <3> QED
        BY <1>2, <2>1, <3>1 DEF OrderInv, Ordered, n
    <2> QED
      BY <1>5, <2>1 DEF OrderInv, Pending
  <1>9. ASSUME NEW r \in Pending', NEW l \in 1..n, queue[c][l] = Block(r[1], r[2])
        PROVE  l # 1
    <2> SUFFICES ASSUME l = 1 PROVE FALSE
      OBVIOUS
    <2>1. b.slot = r[1] /\ b.generation = r[2]
      BY <1>2, <1>9 DEF Block
    <2>2. r \in armed /\ Wants(r[1]).termination /\ r = <<r[1], r[2]>>
      BY <1>5, <1>9, QueueNumbers DEF Pending, OrderInv, Promised
    <2> QED
      BY <1>5, <1>9, <2>1, <2>2 DEF Pending
  <1>10. Pending' \subseteq Pending
    BY <1>5 DEF Pending
  <1>11. Promised(c)'
    <2>1. ASSUME NEW r \in Pending'
          PROVE  observed[r[1]] = r[2] \/ \E m \in 1..n - 1 : queue'[c][m] = Block(r[1], r[2])
      <3>1. CASE \E l \in 1..n : queue[c][l] = Block(r[1], r[2])
        <4>1. PICK l \in 1..n : queue[c][l] = Block(r[1], r[2])
          BY <3>1
        <4>2. l - 1 \in 1..n - 1 /\ (l - 1) + 1 = l
          BY <1>2, <1>9, <4>1
        <4>3. queue'[c][l - 1] = Block(r[1], r[2])
          BY <1>2, <1>3, <4>1, <4>2
        <4> QED
          BY <4>2, <4>3
      <3> QED
        BY <1>10, <3>1 DEF OrderInv, Promised, n
    <2>2. Len(queue'[c]) = n - 1
      BY <1>2, <1>3
    <2> QED
      BY <1>5, <2>1, <2>2 DEF OrderInv, Promised
  <1>12. ASSUME NEW k \in 1..n - 1, ~Wants(queue'[c][k].slot).termination
         PROVE  /\ queue'[c][k].generation <= poller.state.generation
                /\ \A r \in Pending' : r[2] < queue'[c][k].generation =>
                      \E m \in 1..k - 1 : queue'[c][m] = Block(r[1], r[2])
    <2>1. k + 1 \in 1..n /\ queue'[c][k] = queue[c][k + 1] /\ (k + 1) - 1 = k
      BY <1>2, <1>3
    <2>2. /\ queue[c][k + 1].generation <= poller.state.generation
          /\ \A r \in Pending : r[2] < queue[c][k + 1].generation =>
                \E l \in 1..(k + 1) - 1 : queue[c][l] = Block(r[1], r[2])
      BY <1>12, <2>1 DEF OrderInv, Ordered, n
    <2>3. ASSUME NEW r \in Pending', r[2] < queue'[c][k].generation
          PROVE  \E m \in 1..k - 1 : queue'[c][m] = Block(r[1], r[2])
      <3>1. PICK l \in 1..k : queue[c][l] = Block(r[1], r[2])
        BY <1>10, <2>1, <2>2, <2>3
      <3>2. l \in 1..n
        BY <1>2, <2>1
      <3>3. l - 1 \in 1..k - 1 /\ (l - 1) + 1 = l /\ l - 1 \in 1..n - 1
        BY <1>2, <1>9, <3>1, <3>2
      <3>4. queue'[c][l - 1] = Block(r[1], r[2])
        BY <1>2, <1>3, <3>1, <3>3
      <3> QED
        BY <3>3, <3>4
    <2> QED
      BY <2>1, <2>2, <2>3
  <1>13. Ordered(c)'
    <2>1. Len(queue'[c]) = n - 1
      BY <1>2, <1>3
    <2> QED
      BY <1>5, <1>12, <2>1 DEF Ordered
  <1> QED
    BY <1>6, <1>7, <1>8, <1>11, <1>13 DEF OrderInv

LEMMA IterateOrdered ==
  ASSUME NotifyInv, NEW c \in Queues, OrderInv(c), NEW q \in Queues, Iterate(q)
  PROVE  OrderInv(c)'
  <1>1. q = c
    BY DEF Iterate, OrderInv, Serial
  <1>2. /\ delivered' = [delivered EXCEPT ![running[c].slot] = FALSE]
        /\ running' = [running EXCEPT ![c] = Waiting]
        /\ UNCHANGED <<bridge, used, observed, poller, queue, armed, reported, overtaken>>
    BY <1>1 DEF Iterate
  <1>3. \A i \in Slots : ~delivered'[i]
    BY <1>2 DEF NotifyInv, NotifyTypeOK, OrderInv, Serial
  <1>4. \A p \in Queues : p # c => running'[p] = running[p]
    BY <1>2 DEF NotifyInv, NotifyTypeOK
  <1>5. Serial(c)'
    BY <1>2, <1>3, <1>4 DEF OrderInv, Serial
  <1>6. Cleared'
    BY <1>2, ClearedStays DEF OrderInv
  <1>7. bridge'.generation \in Nat /\ bridge'.generation >= bridge.generation
          /\ poller'.state.generation \in Nat
          /\ poller'.state.generation >= poller.state.generation
    BY <1>2, AgesAreNat
  <1>8. Promised(c)' /\ Ordered(c)' /\ ~overtaken'
    BY <1>2, <1>7, OrderKept
  <1> QED
    BY <1>5, <1>6, <1>8 DEF OrderInv

LEMMA OrderNext ==
  ASSUME NEW c \in Queues, OnlyQueue(c), NotifyInv, OrderInv(c), [NotifyNext]_vars
  PROVE  OrderInv(c)'
  <1>1. CASE Publish \/ Drop \/ Register
    <2>1. UNCHANGED <<poller, observed>> /\ (used' = used \/ used' = used + 1)
      BY <1>1 DEF Publish, Drop, Register
    <2>2. Cleared'
      BY <2>1, ClearedStays DEF OrderInv
    <2> QED
      BY <1>1, <2>2, OtherMoves DEF OrderInv
  <1>2. CASE PollerStep
    <2>1. Cleared'
      BY <1>2, ClearedKept DEF OrderInv
    <2>2. CASE Arm
      BY <2>1, <2>2, ArmOrdered DEF OrderInv
    <2>3. CASE Removed \/ PriorRemoved
      BY <2>1, <2>3, RemovalOrdered DEF OrderInv
    <2>4. CASE QueueMatch
      BY <2>1, <2>4, QueueMatchOrdered DEF OrderInv
    <2>5. CASE Poll \/ Skip \/ EndPass \/ Configured \/ PriorSkip \/ PriorDone \/ Match
                 \/ NotConfigured
      BY <2>1, <2>5, OtherMoves DEF OrderInv
    <2> QED
      BY <1>2, <2>2, <2>3, <2>4, <2>5 DEF PollerStep
  <1>3. ASSUME NEW q \in Queues, Deliver(q) \/ Iterate(q) PROVE OrderInv(c)'
    BY <1>3, DeliverOrdered, IterateOrdered
  <1>4. CASE UNCHANGED vars
    BY <1>4 DEF vars, OrderInv, Cleared, Serial, Promised, Ordered, Pending
  <1> QED
    BY <1>1, <1>2, <1>3, <1>4 DEF NotifyNext

(* The promise of installation_usb_shim.m, "removal of the old personality *)
(* before matching the newly enumerated one", for any registrations whose  *)
(* callbacks share a queue, whatever the device does and whichever         *)
(* requests fail: no match callback starts while an older removal that     *)
(* was armed is unreported.                                                *)
THEOREM RemovalSafe ==
  ASSUME OneQueue
  PROVE  NotifySpec => []RemovalBeforeMatch
  <1>1. PICK c \in Queues : OnlyQueue(c)
    BY DEF OneQueue
  <1>2. NotifyInit => NotifyInv /\ OrderInv(c)
    BY NotifyInitInv, OrderInit
  <1>3. NotifyInv /\ OrderInv(c) /\ [NotifyNext]_vars => NotifyInv' /\ OrderInv(c)'
    BY <1>1, NotifyNextInv, OrderNext
  <1>4. OrderInv(c) => RemovalBeforeMatch
    BY DEF OrderInv, RemovalBeforeMatch
  <1> QED
    BY <1>2, <1>3, <1>4, PTL DEF NotifySpec, NotifySafety

=============================================================================
