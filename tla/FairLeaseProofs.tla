-------------------------- MODULE FairLeaseProofs --------------------------
(***************************************************************************)
(* The converter queue of FairLease, proved for every set of requests,     *)
(* every leftover of an earlier boot, every limit and every number of      *)
(* crashes: one helper at a time, live tickets stay, the bound on job      *)
(* directories, admission in the order of the tickets, and refusals only   *)
(* for a cause.                                                            *)
(***************************************************************************)
EXTENDS FairLease, FiniteSetTheorems, TLAPS

LEMMA LeaseInitial == Init => LeaseInv
  <1> SUFFICES ASSUME Init PROVE LeaseInv
    OBVIOUS
  <1> USE LeaseAssumption DEF Init
  <1>1. LeaseTypeOK
    BY DEF LeaseTypeOK, Phases
  <1>2. GateInv /\ WorkerInv /\ LiveTicketKept
    BY DEF GateInv, WorkerInv, LiveTicketKept, Admitted
  <1>3. JobsInv
    BY FS_EmptySet DEF JobsInv, JobsBounded
  <1>4. TicketInv /\ StampInv /\ ScanInv /\ HeadInv
    BY DEF TicketInv, StampInv, ScanInv, HeadInv, Waiting
  <1> QED
    BY <1>1, <1>2, <1>3, <1>4 DEF LeaseInv


(* Boolean entries are beyond the SMT solver when other types are around.  *)
LEMMA FlagUpdate ==
  ASSUME NEW f \in [Requests -> BOOLEAN], NEW r, NEW b \in BOOLEAN
  PROVE  [f EXCEPT ![r] = b] \in [Requests -> BOOLEAN]
  OBVIOUS

LEMMA LeaseTypeStep == LeaseInv /\ [Next]_vars => LeaseTypeOK'
  <1> SUFFICES ASSUME LeaseInv, [Next]_vars PROVE LeaseTypeOK'
    OBVIOUS
  <1> USE LeaseAssumption DEF LeaseInv, LeaseTypeOK, Go, Phases
  <1>1. CASE UNCHANGED vars
    BY <1>1 DEF vars
  <1>2. ASSUME NEW r \in Requests, Start(r) \/ Expire(r) PROVE LeaseTypeOK'
    BY <1>2, FlagUpdate DEF Start, Expire, queueVars, scanVars, workVars
  <1>3. ASSUME NEW r \in Requests, Queue(r) PROVE LeaseTypeOK'
    <2>1. CASE CreatePending(r)
      BY <2>1, FlagUpdate DEF CreatePending, scanVars, workVars
    <2>2. CASE Publish(r)
      BY <2>2 DEF Publish, scanVars, workVars
    <2>3. CASE PublishExpired(r) \/ GiveUp(r)
      BY <2>3 DEF PublishExpired, GiveUp, queueVars, scanVars, workVars
    <2> QED
      BY <1>3, <2>1, <2>2, <2>3 DEF Queue
  <1>4. ASSUME NEW r \in Requests, Scan(r) PROVE LeaseTypeOK'
    <2>1. CASE StartScan(r)
      BY <2>1 DEF StartScan, queueVars, workVars
    <2>2. ASSUME NEW q \in Requests, ScanOpen(r, q) PROVE LeaseTypeOK'
      BY <2>2 DEF ScanOpen, queueVars, workVars
    <2>3. ASSUME NEW q \in Requests, ScanLive(r, q) PROVE LeaseTypeOK'
      BY <2>3 DEF ScanLive, queueVars, workVars
    <2>4. ASSUME NEW q \in Requests, ScanAbandoned(r, q) \/ ScanDeparted(r, q)
          PROVE  LeaseTypeOK'
      BY <2>4 DEF ScanAbandoned, ScanDeparted, queueVars, workVars
    <2>5. CASE ScanDone(r) \/ ScanRefused(r)
      BY <2>5 DEF ScanDone, ScanRefused, queueVars, scanVars, workVars
    <2> QED
      BY <1>4, <2>1, <2>2, <2>3, <2>4, <2>5 DEF Scan
  <1>5. ASSUME NEW r \in Requests, Work(r) PROVE LeaseTypeOK'
    BY <1>5 DEF Work, TakeWorker, WorkerBusy, RoomForJob, MakeJob, Spawn,
                Abandon, Finish, queueVars, scanVars, workVars
  <1>6. ASSUME NEW r \in Requests, Release(r) PROVE LeaseTypeOK'
    <2>1. CASE ReleaseUnlink(r)
      BY <2>1 DEF ReleaseUnlink, scanVars, workVars
    <2>2. CASE ReleaseClose(r)
      BY <2>2, FlagUpdate DEF ReleaseClose, scanVars, workVars
    <2> QED
      BY <1>6, <2>1, <2>2 DEF Release
  <1>7. ASSUME NEW r \in Requests, HelperExit(r) \/ Crash(r) PROVE LeaseTypeOK'
    BY <1>7, FlagUpdate DEF HelperExit, Crash, queueVars, scanVars
  <1> QED
    BY <1>1, <1>2, <1>3, <1>4, <1>5, <1>6, <1>7 DEF Next, Step

(* Only CreatePending and StartScan take the gate.                         *)
LEMMA GateStep == LeaseInv /\ [Next]_vars => GateInv'
  <1> SUFFICES ASSUME LeaseInv, [Next]_vars PROVE GateInv'
    OBVIOUS
  <1> USE LeaseAssumption DEF LeaseInv, LeaseTypeOK, GateInv, Go
  <1>1. CASE UNCHANGED vars
    BY <1>1 DEF vars
  <1>2. ASSUME NEW r \in Requests, Start(r) \/ Expire(r) PROVE GateInv'
    BY <1>2 DEF Start, Expire
  <1>3. ASSUME NEW r \in Requests, Queue(r) PROVE GateInv'
    BY <1>3 DEF Queue, CreatePending, Publish, PublishExpired, GiveUp
  <1>4. ASSUME NEW r \in Requests, Scan(r) PROVE GateInv'
    BY <1>4 DEF Scan, StartScan, ScanOpen, ScanLive, ScanAbandoned,
                ScanDeparted, ScanDone, ScanRefused
  <1>5. ASSUME NEW r \in Requests, Work(r) PROVE GateInv'
    BY <1>5 DEF Work, TakeWorker, WorkerBusy, RoomForJob, MakeJob, Spawn,
                Abandon, Finish
  <1>6. ASSUME NEW r \in Requests, Release(r) PROVE GateInv'
    BY <1>6 DEF Release, ReleaseUnlink, ReleaseClose
  <1>7. ASSUME NEW r \in Requests, HelperExit(r) \/ Crash(r) PROVE GateInv'
    BY <1>7 DEF HelperExit, Crash, Alive
  <1> QED
    BY <1>1, <1>2, <1>3, <1>4, <1>5, <1>6, <1>7 DEF Next, Step

(* worker.lock is freed only when neither its holder nor a helper has it.  *)
LEMMA WorkerStep == LeaseInv /\ [Next]_vars => WorkerInv'
  <1> SUFFICES ASSUME LeaseInv, [Next]_vars PROVE WorkerInv'
    OBVIOUS
  <1> USE LeaseAssumption DEF LeaseInv, LeaseTypeOK, WorkerInv, Admitted, Go,
                              workVars
  <1>1. CASE UNCHANGED vars
    BY <1>1 DEF vars
  <1>2. ASSUME NEW r \in Requests, Start(r) \/ Expire(r) PROVE WorkerInv'
    BY <1>2 DEF Start, Expire
  <1>3. ASSUME NEW r \in Requests, Queue(r) PROVE WorkerInv'
    BY <1>3 DEF Queue, CreatePending, Publish, PublishExpired, GiveUp
  <1>4. ASSUME NEW r \in Requests, Scan(r) PROVE WorkerInv'
    BY <1>4 DEF Scan, StartScan, ScanOpen, ScanLive, ScanAbandoned,
                ScanDeparted, ScanDone, ScanRefused
  <1>5. ASSUME NEW r \in Requests, Work(r) PROVE WorkerInv'
    <2>1. CASE TakeWorker(r) \/ WorkerBusy(r) \/ RoomForJob(r)
      BY <2>1 DEF TakeWorker, WorkerBusy, RoomForJob
    <2>2. CASE MakeJob(r) \/ Spawn(r)
      BY <2>2 DEF MakeJob, Spawn
    <2>3. CASE Abandon(r) \/ Finish(r)
      BY <2>3 DEF Abandon, Finish
    <2> QED
      BY <1>5, <2>1, <2>2, <2>3 DEF Work
  <1>6. ASSUME NEW r \in Requests, Release(r) PROVE WorkerInv'
    BY <1>6 DEF Release, ReleaseUnlink, ReleaseClose
  <1>7. ASSUME NEW r \in Requests, HelperExit(r) PROVE WorkerInv'
    BY <1>7 DEF HelperExit
  <1>8. ASSUME NEW r \in Requests, Crash(r) PROVE WorkerInv'
    BY <1>8 DEF Crash, Alive
  <1> QED
    BY <1>1, <1>2, <1>3, <1>4, <1>5, <1>6, <1>7, <1>8 DEF Next, Step

(* Whoever removes an entry owns it or found its lock free.                *)
LEMMA TicketStep == LeaseInv /\ [Next]_vars => LiveTicketKept' /\ TicketInv'
  <1> DEFINE G == LiveTicketKept /\ TicketInv
  <1> SUFFICES ASSUME LeaseInv, [Next]_vars PROVE G'
    OBVIOUS
  <1> USE DEF LeaseInv, LeaseTypeOK, LiveTicketKept, TicketInv, Waiting, Go,
              queueVars
  <1>1. CASE UNCHANGED vars
    BY <1>1 DEF vars
  <1>2. ASSUME NEW r \in Requests, Start(r) \/ Expire(r) PROVE G'
    BY <1>2 DEF Start, Expire
  <1>3. ASSUME NEW r \in Requests, Queue(r) PROVE G'
    <2>1. CASE CreatePending(r)
      BY <2>1 DEF CreatePending
    <2>2. CASE Publish(r)
      BY <2>2 DEF Publish
    <2>3. CASE PublishExpired(r) \/ GiveUp(r)
      BY <2>3 DEF PublishExpired, GiveUp
    <2> QED
      BY <1>3, <2>1, <2>2, <2>3 DEF Queue
  <1>4. ASSUME NEW r \in Requests, Scan(r) PROVE G'
    <2>1. CASE StartScan(r) \/ ScanDone(r) \/ ScanRefused(r)
      BY <2>1 DEF StartScan, ScanDone, ScanRefused
    <2>2. ASSUME NEW q \in Requests, ScanOpen(r, q) \/ ScanDeparted(r, q)
          PROVE  G'
      BY <2>2 DEF ScanOpen, ScanDeparted
    <2>3. ASSUME NEW q \in Requests, ScanLive(r, q) PROVE G'
      BY <2>3 DEF ScanLive
    <2>4. ASSUME NEW q \in Requests, ScanAbandoned(r, q) PROVE G'
      BY <2>4 DEF ScanAbandoned
    <2> QED
      BY <1>4, <2>1, <2>2, <2>3, <2>4 DEF Scan
  <1>5. ASSUME NEW r \in Requests, Work(r) PROVE G'
    BY <1>5 DEF Work, TakeWorker, WorkerBusy, RoomForJob, MakeJob, Spawn,
                Abandon, Finish
  <1>6. ASSUME NEW r \in Requests, Release(r) PROVE G'
    BY <1>6 DEF Release, ReleaseUnlink, ReleaseClose
  <1>7. ASSUME NEW r \in Requests, HelperExit(r) \/ Crash(r) PROVE G'
    BY <1>7 DEF HelperExit, Crash
  <1> QED
    BY <1>1, <1>2, <1>3, <1>4, <1>5, <1>6, <1>7 DEF Next, Step

(* Adding or removing one job directory.                                   *)
LEMMA JobCount ==
  ASSUME jobs \subseteq Requests, NEW r \in Requests
  PROVE  /\ Cardinality(jobs) \in Nat
         /\ Cardinality(jobs \cup {r}) <= Cardinality(jobs) + 1
         /\ Cardinality(jobs \cup {r}) \in Nat
         /\ Cardinality(jobs \ {r}) <= Cardinality(jobs)
         /\ Cardinality(jobs \ {r}) \in Nat
  <1>1. IsFiniteSet(jobs)
    BY LeaseAssumption, FS_Subset
  <1>2. /\ Cardinality(jobs) \in Nat
        /\ IsFiniteSet(jobs \cup {r})
        /\ Cardinality(jobs \cup {r}) =
               IF r \in jobs THEN Cardinality(jobs) ELSE Cardinality(jobs) + 1
    BY <1>1, FS_AddElement, FS_CardinalityType
  <1>3. /\ IsFiniteSet(jobs \ {r})
        /\ Cardinality(jobs \ {r}) =
               IF r \in jobs THEN Cardinality(jobs) - 1 ELSE Cardinality(jobs)
    BY <1>1, FS_RemoveElement
  <1>4. Cardinality(jobs \ {r}) \in Nat
    BY <1>3, FS_CardinalityType
  <1> QED
    BY <1>2, <1>3, <1>4

(* The room that was found is still there: only the holder of worker.lock  *)
(* creates a directory.                                                    *)
LEMMA JobsStep == LeaseInv /\ [Next]_vars => JobsInv'
  <1> SUFFICES ASSUME LeaseInv, [Next]_vars PROVE JobsInv'
    OBVIOUS
  <1> USE LeaseAssumption DEF LeaseInv, LeaseTypeOK, JobsInv, JobsBounded, Go,
                              workVars
  <1>1. CASE UNCHANGED vars
    BY <1>1 DEF vars
  <1>2. ASSUME NEW r \in Requests, Start(r) \/ Expire(r) PROVE JobsInv'
    BY <1>2 DEF Start, Expire
  <1>3. ASSUME NEW r \in Requests, Queue(r) PROVE JobsInv'
    BY <1>3 DEF Queue, CreatePending, Publish, PublishExpired, GiveUp
  <1>4. ASSUME NEW r \in Requests, Scan(r) PROVE JobsInv'
    BY <1>4 DEF Scan, StartScan, ScanOpen, ScanLive, ScanAbandoned,
                ScanDeparted, ScanDone, ScanRefused
  <1>5. ASSUME NEW r \in Requests, Work(r) PROVE JobsInv'
    <2>1. CASE TakeWorker(r) \/ WorkerBusy(r) \/ RoomForJob(r) \/ Spawn(r)
      BY <2>1 DEF TakeWorker, WorkerBusy, RoomForJob, Spawn
    <2>2. CASE MakeJob(r)
      <3>1. \A q \in Requests : at'[q] # "room"
        BY <2>2 DEF MakeJob, WorkerInv, Admitted
      <3>2. Cardinality(jobs) < JobLimit
        BY <2>2 DEF MakeJob
      <3>3. /\ Cardinality(jobs) \in Nat
            /\ Cardinality(jobs \cup {r}) \in Nat
            /\ Cardinality(jobs \cup {r}) <= Cardinality(jobs) + 1
        BY JobCount
      <3>4. jobs' = jobs \cup {r}
        BY <2>2 DEF MakeJob
      <3>5. Cardinality(jobs') <= JobLimit
        BY <3>2, <3>3, <3>4
      <3> QED
        BY <3>1, <3>5
    <2>3. CASE Abandon(r) \/ Finish(r)
      BY <2>3, JobCount DEF Abandon, Finish
    <2> QED
      BY <1>5, <2>1, <2>2, <2>3 DEF Work
  <1>6. ASSUME NEW r \in Requests, Release(r) PROVE JobsInv'
    BY <1>6 DEF Release, ReleaseUnlink, ReleaseClose
  <1>7. ASSUME NEW r \in Requests, HelperExit(r) \/ Crash(r) PROVE JobsInv'
    BY <1>7 DEF HelperExit, Crash
  <1> QED
    BY <1>1, <1>2, <1>3, <1>4, <1>5, <1>6, <1>7 DEF Next, Step

(* A new stamp is later than every stamp in the queue, and nobody          *)
(* publishes while a scan runs.                                            *)
LEMMA OrderStep ==
  LeaseInv /\ [Next]_vars => StampInv' /\ ScanInv' /\ HeadInv'
  <1> DEFINE G == StampInv /\ ScanInv /\ HeadInv
  <1> SUFFICES ASSUME LeaseInv, [Next]_vars PROVE G'
    OBVIOUS
  <1> USE LeaseAssumption DEF LeaseInv, LeaseTypeOK, StampInv, ScanInv,
              HeadInv, Waiting, Older, Go, queueVars, scanVars
  <1>1. CASE UNCHANGED vars
    BY <1>1 DEF vars
  <1>2. ASSUME NEW r \in Requests, Start(r) \/ Expire(r) PROVE G'
    BY <1>2 DEF Start, Expire
  <1>3. ASSUME NEW r \in Requests, Queue(r) PROVE G'
    <2>1. CASE Publish(r)
      <3>1. \A q \in Requests : at[q] # "scanning"
        BY <2>1 DEF Publish, GateInv
      <3>2. \A q \in Requests \ {r} : Waiting(q) => stamp'[q] < stamp'[r]
        BY <2>1 DEF Publish, TicketInv
      <3>3. StampInv'
        BY <2>1, <3>2 DEF Publish
      <3>4. ScanInv'
        BY <2>1, <3>1 DEF Publish
      <3>5. HeadInv'
        BY <2>1, <3>2 DEF Publish
      <3> QED
        BY <3>3, <3>4, <3>5
    <2>2. CASE CreatePending(r) \/ PublishExpired(r) \/ GiveUp(r)
      BY <2>2 DEF CreatePending, PublishExpired, GiveUp
    <2> QED
      BY <1>3, <2>1, <2>2 DEF Queue
  <1>4. ASSUME NEW r \in Requests, Scan(r) PROVE G'
    <2>1. CASE StartScan(r)
      BY <2>1 DEF StartScan, GateInv, TicketInv
    <2>2. ASSUME NEW q \in Requests, ScanOpen(r, q) PROVE G'
      BY <2>2 DEF ScanOpen, TicketInv
    <2>3. ASSUME NEW q \in Requests, ScanLive(r, q) PROVE G'
      <3>1. StampInv' /\ HeadInv'
        BY <2>3 DEF ScanLive
      <3>2. ScanInv'
        BY <2>3 DEF ScanLive, TicketInv, GateInv
      <3> QED
        BY <3>1, <3>2
    <2>4. ASSUME NEW q \in Requests, ScanAbandoned(r, q) \/ ScanDeparted(r, q)
          PROVE  G'
      BY <2>4 DEF ScanAbandoned, ScanDeparted, Departed, TicketInv,
                  LiveTicketKept
    <2>5. CASE ScanDone(r)
      <3>1. \A q \in Requests \ {r} : Waiting(q) => Older(r, q)
        BY <2>5 DEF ScanDone
      <3> QED
        BY <2>5, <3>1 DEF ScanDone
    <2>6. CASE ScanRefused(r)
      BY <2>6 DEF ScanRefused
    <2> QED
      BY <1>4, <2>1, <2>2, <2>3, <2>4, <2>5, <2>6 DEF Scan
  <1>5. ASSUME NEW r \in Requests, Work(r) PROVE G'
    BY <1>5 DEF Work, TakeWorker, WorkerBusy, RoomForJob, MakeJob, Spawn,
                Abandon, Finish
  <1>6. ASSUME NEW r \in Requests, Release(r) PROVE G'
    BY <1>6 DEF Release, ReleaseUnlink, ReleaseClose
  <1>7. ASSUME NEW r \in Requests, HelperExit(r) \/ Crash(r) PROVE G'
    BY <1>7 DEF HelperExit, Crash
  <1> QED
    BY <1>1, <1>2, <1>3, <1>4, <1>5, <1>6, <1>7 DEF Next, Step

-----------------------------------------------------------------------------
(* The invariant of the queue, of publishing, scanning, leaving and dying  *)
(* in any order (fair_lease.inc, Coordinate and ConvertWith).              *)
THEOREM LeaseInvariant == Spec => []LeaseInv
  <1>1. LeaseInv /\ [Next]_vars => LeaseInv'
    BY LeaseTypeStep, GateStep, WorkerStep, TicketStep, JobsStep, OrderStep
       DEF LeaseInv
  <1> QED
    BY <1>1, LeaseInitial, PTL DEF Spec

(* Never two converter helpers (Spawn and finish), also after crashes.     *)
THEOREM OneHelperSafe == Spec => []OneHelper
  <1>1. LeaseInv => OneHelper
    BY DEF LeaseInv, WorkerInv, OneHelper
  <1> QED
    BY <1>1, LeaseInvariant, PTL

(* A scanner never removes the ticket of a live request (FairScanTurn).    *)
THEOREM LiveTicketSafe == Spec => []LiveTicketKept
  <1>1. LeaseInv => LiveTicketKept
    BY DEF LeaseInv
  <1> QED
    BY <1>1, LeaseInvariant, PTL

(* No more job directories than RoomForJob allows.                         *)
THEOREM JobsSafe == Spec => []JobsBounded
  <1>1. LeaseInv => JobsBounded
    BY DEF LeaseInv, JobsInv
  <1> QED
    BY <1>1, LeaseInvariant, PTL

(* Coordinate admits requests in the order of their tickets.               *)
THEOREM AdmissionSafe == Spec => AdmissionInOrder
  <1>1. LeaseInv /\ [Next]_vars =>
          [\A r \in Requests :
              at[r] = "head" /\ at'[r] = "admitted" =>
                  \A q \in Requests \ {r} : Waiting(q) => Older(r, q)]_vars
    BY DEF LeaseInv, HeadInv
  <1> QED
    BY <1>1, LeaseInvariant, PTL DEF Spec, AdmissionInOrder

(* A request whose scan does not reach its end was late or met a full queue *)
(* directory (FairScanTurn): an entry that another request removes under    *)
(* the scan never ends it, whatever number of requests leave meanwhile.     *)
THEOREM RefusedSafe == Spec => RefusedForCause
  <1>1. ASSUME LeaseInv, Next, NEW q \in Requests,
               at[q] = "scanning", at'[q] = "leaving"
        PROVE  expired[q] \/ visited = ScanLimit
    <2> USE DEF Go, LeaseInv, LeaseTypeOK
    <2>1. PICK r \in Requests : Start(r) \/ Expire(r) \/ Step(r) \/ HelperExit(r) \/ Crash(r)
      BY <1>1 DEF Next
    <2>2. CASE Start(r) \/ Expire(r) \/ HelperExit(r) \/ Crash(r)
      BY <1>1, <2>2 DEF Start, Expire, HelperExit, Crash
    <2>3. CASE Queue(r)
      BY <1>1, <2>3 DEF Queue, CreatePending, Publish, PublishExpired, GiveUp
    <2>4. CASE Scan(r)
      <3>1. CASE ScanRefused(r)
        BY <1>1, <3>1 DEF ScanRefused
      <3>2. CASE StartScan(r) \/ ScanDone(r)
        BY <1>1, <3>2 DEF StartScan, ScanDone
      <3>3. ASSUME NEW p \in Requests, ScanOpen(r, p) \/ ScanLive(r, p)
                                         \/ ScanAbandoned(r, p) \/ ScanDeparted(r, p)
            PROVE  FALSE
        BY <1>1, <3>3 DEF ScanOpen, ScanLive, ScanAbandoned, ScanDeparted
      <3> QED
        BY <2>4, <3>1, <3>2, <3>3 DEF Scan
    <2>5. CASE Work(r)
      BY <1>1, <2>5 DEF Work, TakeWorker, WorkerBusy, RoomForJob, MakeJob, Spawn, Abandon, Finish
    <2>6. CASE Release(r)
      BY <1>1, <2>6 DEF Release, ReleaseUnlink, ReleaseClose
    <2> QED
      BY <2>1, <2>2, <2>3, <2>4, <2>5, <2>6 DEF Step
  <1>2. LeaseInv /\ [Next]_vars =>
          [\A r \in Requests :
              at[r] = "scanning" /\ at'[r] = "leaving" =>
                  expired[r] \/ visited = ScanLimit]_vars
    BY <1>1
  <1> QED
    BY <1>2, LeaseInvariant, PTL DEF Spec, RefusedForCause
=============================================================================
