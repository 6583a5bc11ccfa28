----------------------------- MODULE UsbNotify -----------------------------
(***************************************************************************)
(* The notification half of installation_usb_shim.m.  Inside the restore   *)
(* tools it plays IOKit: clients register for the arrival or the removal   *)
(* of a USB product, one poller thread asks the bridge for its state, and  *)
(* callbacks run on the dispatch queues the clients chose.                 *)
(*                                                                         *)
(* The poller and the callbacks share one record per registration, without *)
(* a lock.  A callback drains its iterator, which hands out whatever       *)
(* service the record names by then.                                       *)
(***************************************************************************)
EXTENDS Naturals, Sequences

CONSTANTS
    Products,        \* USB product ids
    RestoreOS,       \* the product the VMM configures itself
    NoProduct,       \* the bridge has not described a device yet
    Queues,          \* dispatch queues callbacks run on
    Registrations,   \* the calls of AddMatchingNotification, in order
    Waiting,         \* nothing runs on a queue
    MaxGeneration,   \* bound: generations the host goes through
    MaxFailures      \* bound: bridge requests that fail

Slots == DOMAIN Registrations

Generations == 0..MaxGeneration

ASSUME NotifyAssumption ==
    /\ RestoreOS \in Products
    /\ NoProduct \notin Products
    /\ Registrations \in Seq([termination : BOOLEAN, product : Products,
                              queue : Queues])
    /\ Waiting \notin [slot : Slots, generation : Generations]
    /\ MaxGeneration \in Nat \ {0}
    /\ MaxFailures \in Nat

VARIABLES
    bridge,       \* what GET_STATE answers
    used,         \* how many registrations have been made
    observed,     \* observed_generation of every slot, 0 if none
    service,      \* generation that delivered_service names, 0 if none
    delivered,    \* the delivered flag of every slot
    configured,   \* fake_usb_configured_generation
    poller,       \* the poller thread
    queue,        \* blocks waiting on every queue
    running,      \* the callback running on every queue
    failures,     \* failed bridge requests so far (bound)
    handed,       \* ghost: generations each slot's clients were handed
    armed,        \* ghost: removals the shim has promised to report
    reported,     \* ghost: removals whose callback has run
    overtaken     \* ghost: a match was reported before an older removal

vars == <<bridge, used, observed, service, delivered, configured, poller,
          queue, running, failures, handed, armed, reported, overtaken>>

States ==
    [ready : BOOLEAN, product : Products \cup {NoProduct},
     generation : Generations]

(* A block knows which generation it was queued for; the code does not.    *)
Blocks == [slot : Slots, generation : Generations]

Block(i, g) == [slot |-> i, generation |-> g]

NotifyTypeOK ==
    /\ bridge \in States
    /\ used \in 0..Len(Registrations)
    /\ observed \in [Slots -> Generations]
    /\ service \in [Slots -> Generations]
    /\ delivered \in [Slots -> BOOLEAN]
    /\ configured \in Generations
    /\ poller \in [at : {"sleep", "slot", "configure", "prior", "sync",
                         "queue"},
                   state : States, known : BOOLEAN,
                   slot : 1..Len(Registrations) + 1,
                   prior : 1..Len(Registrations) + 1]
    /\ queue \in [Queues -> Seq(Blocks)]
    /\ running \in [Queues -> Blocks \cup {Waiting}]
    /\ failures \in 0..MaxFailures
    /\ handed \in [Slots -> Generations]
    /\ armed \subseteq Slots \X Generations
    /\ reported \subseteq Slots \X Generations
    /\ overtaken \in BOOLEAN

NotifyInit ==
    /\ bridge = [ready |-> FALSE, product |-> NoProduct, generation |-> 1]
    /\ used = 0
    /\ observed = [i \in Slots |-> 0]
    /\ service = [i \in Slots |-> 0]
    /\ delivered = [i \in Slots |-> FALSE]
    /\ configured = 0
    /\ poller = [at |-> "sleep", state |-> bridge, known |-> FALSE,
                 slot |-> 1, prior |-> 1]
    /\ queue = [q \in Queues |-> <<>>]
    /\ running = [q \in Queues |-> Waiting]
    /\ failures = 0
    /\ handed = [i \in Slots |-> 0]
    /\ armed = {}
    /\ reported = {}
    /\ overtaken = FALSE

-----------------------------------------------------------------------------
(* External: the host of module UsbHost, as its clients see it.            *)

Publish ==
    /\ ~bridge.ready
    /\ \E p \in Products :
          bridge' = [bridge EXCEPT !.ready = TRUE, !.product = p]
    /\ UNCHANGED <<used, observed, service, delivered, configured, poller,
                   queue, running, failures, handed, armed, reported,
                   overtaken>>

Drop ==
    /\ bridge.ready
    /\ bridge.generation < MaxGeneration
    /\ bridge' = [bridge EXCEPT !.ready = FALSE, !.generation = @ + 1]
    /\ UNCHANGED <<used, observed, service, delivered, configured, poller,
                   queue, running, failures, handed, armed, reported,
                   overtaken>>

(* shim_IOServiceAddMatchingNotification: the first unused slot.           *)
Register ==
    /\ used < Len(Registrations)
    /\ used' = used + 1
    /\ UNCHANGED <<bridge, observed, service, delivered, configured, poller,
                   queue, running, failures, handed, armed, reported,
                   overtaken>>

-----------------------------------------------------------------------------
(* One pass of the poller works on one answer of the bridge.               *)

Poll ==
    /\ poller.at = "sleep"
    /\ used > 0
    /\ \/ /\ poller' = [at |-> "slot", state |-> bridge, known |-> TRUE,
                        slot |-> 1, prior |-> 1]
          /\ UNCHANGED failures
       \/ /\ failures < MaxFailures
          /\ failures' = failures + 1
          /\ poller' = [poller EXCEPT !.at = "slot", !.known = FALSE,
                                      !.slot = 1]
    /\ UNCHANGED <<bridge, used, observed, service, delivered, configured,
                   queue, running, handed, armed, reported, overtaken>>

Wants(i) == Registrations[i]

Matches(i) ==
    /\ poller.known
    /\ poller.state.ready
    /\ poller.state.product = Wants(i).product

(* Generation g of slot i is still the one the answer describes.           *)
StillMatches(i, g) == Matches(i) /\ poller.state.generation = g

NextSlot == [poller EXCEPT !.at = "slot", !.slot = @ + 1]

(* Mutant: a removal is only noticed once another device is ready.         *)
SkipSlotUnlessReady(i) ==
    \/ i > used
    \/ /\ ~Wants(i).termination
       /\ ~Matches(i) \/ observed[i] = poller.state.generation
    \/ /\ Wants(i).termination
       /\ \/ observed[i] = 0 /\ ~Matches(i)
          \/ observed[i] # 0 /\ (~poller.known \/ ~poller.state.ready)
          \/ observed[i] # 0 /\ StillMatches(i, observed[i])

(* Both kinds of slot have nothing to report.                              *)
SkipSlot(i) ==
    \/ i > used
    \/ /\ ~Wants(i).termination
       /\ ~Matches(i) \/ observed[i] = poller.state.generation
    \/ /\ Wants(i).termination
       /\ \/ observed[i] = 0 /\ ~Matches(i)
          \/ observed[i] # 0 /\ ~poller.known
          \/ observed[i] # 0 /\ StillMatches(i, observed[i])

Skip ==
    /\ poller.at = "slot"
    /\ poller.slot \in Slots
    /\ SkipSlot(poller.slot)
    /\ poller' = NextSlot
    /\ UNCHANGED <<bridge, used, observed, service, delivered, configured,
                   queue, running, failures, handed, armed, reported,
                   overtaken>>

(* Mutant: the service is taken from the record before it is updated.      *)
MatchPrevious ==
    /\ poller.at = "slot"
    /\ poller.slot \in Slots
    /\ LET i == poller.slot
       IN  /\ ~SkipSlot(i)
           /\ ~Wants(i).termination
           /\ observed' = [observed EXCEPT ![i] = poller.state.generation]
           /\ service' = [service EXCEPT ![i] = observed[i]]
           /\ poller' = [poller EXCEPT
                           !.prior = 1,
                           !.at = IF Wants(i).product = RestoreOS
                                  THEN "prior" ELSE "configure"]
    /\ UNCHANGED <<bridge, used, delivered, configured, queue, running,
                   failures, handed, armed, reported, overtaken>>

(* A new generation of a product that a client waits for.                  *)
Match ==
    /\ poller.at = "slot"
    /\ poller.slot \in Slots
    /\ LET i == poller.slot
           g == poller.state.generation
       IN  /\ ~SkipSlot(i)
           /\ ~Wants(i).termination
           /\ observed' = [observed EXCEPT ![i] = g]
           /\ service' = [service EXCEPT ![i] = g]
           /\ poller' = [poller EXCEPT
                           !.prior = 1,
                           !.at = IF Wants(i).product = RestoreOS
                                  THEN "prior" ELSE "configure"]
    /\ UNCHANGED <<bridge, used, delivered, configured, queue, running,
                   failures, handed, armed, reported, overtaken>>

(* A removal slot remembers the generation whose end it will report.       *)
Arm ==
    /\ poller.at = "slot"
    /\ poller.slot \in Slots
    /\ LET i == poller.slot
           g == poller.state.generation
       IN  /\ ~SkipSlot(i)
           /\ Wants(i).termination
           /\ observed[i] = 0
           /\ observed' = [observed EXCEPT ![i] = g]
           /\ armed' = armed \cup {<<i, g>>}
    /\ poller' = NextSlot
    /\ UNCHANGED <<bridge, used, service, delivered, configured, queue,
                   running, failures, handed, reported, overtaken>>

Async(q, i, g) == queue' = [queue EXCEPT ![q] = Append(@, Block(i, g))]

Removed ==
    /\ poller.at = "slot"
    /\ poller.slot \in Slots
    /\ LET i == poller.slot
       IN  /\ ~SkipSlot(i)
           /\ Wants(i).termination
           /\ observed[i] # 0
           /\ service' = [service EXCEPT ![i] = observed[i]]
           /\ observed' = [observed EXCEPT ![i] = 0]
           /\ Async(Wants(i).queue, i, observed[i])
    /\ poller' = NextSlot
    /\ UNCHANGED <<bridge, used, delivered, configured, running, failures,
                   handed, armed, reported, overtaken>>

EndPass ==
    /\ poller.at = "slot"
    /\ poller.slot \notin Slots
    /\ poller' = [poller EXCEPT !.at = "sleep"]
    /\ UNCHANGED <<bridge, used, observed, service, delivered, configured,
                   queue, running, failures, handed, armed, reported,
                   overtaken>>

(* usb_bridge_configure_generation: done before, or a few requests that    *)
(* fail when the device is gone by now or the bridge does not answer.      *)
Configured ==
    /\ poller.at = "configure"
    /\ \/ configured = poller.state.generation
       \/ bridge.ready
    /\ configured' = poller.state.generation
    /\ poller' = [poller EXCEPT !.at = "prior"]
    /\ UNCHANGED <<bridge, used, observed, service, delivered, queue,
                   running, failures, handed, armed, reported, overtaken>>

(* Mutant: a failed configuration is not tried again.                      *)
NotConfiguredAgain ==
    /\ poller.at = "configure"
    /\ configured # poller.state.generation
    /\ \/ /\ ~bridge.ready
          /\ UNCHANGED failures
       \/ /\ failures < MaxFailures
          /\ failures' = failures + 1
    /\ poller' = NextSlot
    /\ UNCHANGED <<bridge, used, observed, service, delivered, configured,
                   queue, running, handed, armed, reported, overtaken>>

NotConfigured ==
    /\ poller.at = "configure"
    /\ configured # poller.state.generation
    /\ \/ /\ ~bridge.ready
          /\ UNCHANGED failures
       \/ /\ failures < MaxFailures
          /\ failures' = failures + 1
    /\ observed' = [observed EXCEPT ![poller.slot] = 0]
    /\ poller' = NextSlot
    /\ UNCHANGED <<bridge, used, service, delivered, configured, queue,
                   running, handed, armed, reported, overtaken>>

(* Mutant: removals wait for their own turn in the scan.                   *)
NothingOwed(i) == FALSE

(* fake_usb_deliver_prior_terminations: every removal that is still owed   *)
(* is delivered, and waited for, before the match is queued.               *)
Owed(i) ==
    /\ i <= used
    /\ Wants(i).termination
    /\ observed[i] # 0
    /\ ~StillMatches(i, observed[i])

PriorSkip ==
    /\ poller.at = "prior"
    /\ poller.prior \in Slots
    /\ ~Owed(poller.prior)
    /\ poller' = [poller EXCEPT !.prior = @ + 1]
    /\ UNCHANGED <<bridge, used, observed, service, delivered, configured,
                   queue, running, failures, handed, armed, reported,
                   overtaken>>

PriorRemoved ==
    /\ poller.at = "prior"
    /\ poller.prior \in Slots
    /\ LET i == poller.prior
       IN  /\ Owed(i)
           /\ service' = [service EXCEPT ![i] = observed[i]]
           /\ observed' = [observed EXCEPT ![i] = 0]
           /\ Async(Wants(i).queue, i, observed[i])
    /\ poller' = [poller EXCEPT !.at = "sync"]
    /\ UNCHANGED <<bridge, used, delivered, configured, running, failures,
                   handed, armed, reported, overtaken>>

(* dispatch_sync returns when the queue has run the block.                 *)
PriorDone ==
    /\ poller.at = "sync"
    /\ LET q == Wants(poller.prior).queue
       IN  queue[q] = <<>> /\ running[q] = Waiting
    /\ poller' = [poller EXCEPT !.at = "prior", !.prior = @ + 1]
    /\ UNCHANGED <<bridge, used, observed, service, delivered, configured,
                   queue, running, failures, handed, armed, reported,
                   overtaken>>

QueueMatch ==
    /\ poller.at = "prior"
    /\ poller.prior \notin Slots
    /\ Async(Wants(poller.slot).queue, poller.slot,
               poller.state.generation)
    /\ poller' = NextSlot
    /\ UNCHANGED <<bridge, used, observed, service, delivered, configured,
                   running, failures, handed, armed, reported, overtaken>>

-----------------------------------------------------------------------------
(* fake_usb_deliver_notification, on the client's queue.                   *)
Deliver(q) ==
    /\ running[q] = Waiting
    /\ queue[q] # <<>>
    /\ queue' = [queue EXCEPT ![q] = Tail(@)]
    /\ LET b == Head(queue[q])
       IN  IF delivered[b.slot]
           THEN UNCHANGED <<delivered, running, reported, overtaken>>
           ELSE /\ delivered' = [delivered EXCEPT ![b.slot] = TRUE]
                /\ running' = [running EXCEPT ![q] = b]
                /\ reported' = IF Wants(b.slot).termination
                               THEN reported \cup {<<b.slot, b.generation>>}
                               ELSE reported
                /\ overtaken' =
                     \/ overtaken
                     \/ /\ ~Wants(b.slot).termination
                        /\ \E r \in armed \ reported :
                              r[2] < b.generation
    /\ UNCHANGED <<bridge, used, observed, service, configured, poller,
                   failures, handed, armed>>

(* The callback drains its iterator (shim_IOIteratorNext).                 *)
Iterate(q) ==
    /\ running[q] # Waiting
    /\ LET i == running[q].slot
       IN  /\ handed' = [handed EXCEPT ![i] = service[i]]
           /\ delivered' = [delivered EXCEPT ![i] = FALSE]
    /\ running' = [running EXCEPT ![q] = Waiting]
    /\ UNCHANGED <<bridge, used, observed, service, configured, poller,
                   queue, failures, armed, reported, overtaken>>

-----------------------------------------------------------------------------
PollerStep ==
    \/ Poll \/ Skip \/ Match \/ Arm \/ Removed \/ EndPass \/ Configured
    \/ NotConfigured \/ PriorSkip \/ PriorRemoved \/ PriorDone \/ QueueMatch

NotifyNext ==
    \/ Publish \/ Drop \/ Register
    \/ PollerStep
    \/ \E q \in Queues : Deliver(q) \/ Iterate(q)

NotifySafety == NotifyInit /\ [][NotifyNext]_vars

(* The poller thread and the dispatch queues keep running, and the restore *)
(* tools do register; the device is free to stay or go.                    *)
NotifySpec ==
    /\ NotifySafety
    /\ WF_vars(PollerStep)
    /\ WF_vars(Register)
    /\ \A q \in Queues : WF_vars(Deliver(q) \/ Iterate(q))

-----------------------------------------------------------------------------
(* "IOKit publishes removal of the old personality before matching the     *)
(* newly enumerated one": no match callback starts while a removal of an   *)
(* older generation that the shim has armed is still unreported.           *)
RemovalBeforeMatch == ~overtaken

(* What a client's callback is handed never goes back to a generation that *)
(* was superseded before, although the record it reads is shared with the  *)
(* poller.                                                                 *)
ServicesNeverGoBack ==
    [][\A i \in Slots : handed'[i] >= handed[i]]_vars

(* A restore personality that stays is announced to every client that      *)
(* registered for it, failed requests and failed configurations included.  *)
EventuallyMatched ==
    \A i \in {j \in Slots : ~Wants(j).termination} :
        <>[](bridge.ready /\ bridge.product = Wants(i).product)
            => <>[](handed[i] = bridge.generation)

(* A removal the shim has armed is reported once the device has gone.      *)
EventuallyRemoved ==
    \A i \in Slots, g \in Generations :
        (<<i, g>> \in armed /\ bridge.generation > g) ~>
            <<i, g>> \in reported

=============================================================================
