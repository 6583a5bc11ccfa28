------------------------------ MODULE FairLease ------------------------------
(***************************************************************************)
(* Admission of shader conversions to the one converter helper             *)
(* (vz/host/fair_lease.inc, and Coordinate, RoomForJob, Spawn and the end  *)
(* of ConvertWith in vz/host/modern_pvg_shader_worker.m).                  *)
(*                                                                         *)
(* Every GPU task process converts shaders through the same work           *)
(* directory.  A request publishes a ticket file whose name carries its    *)
(* time stamp and keeps the file's lock while it lives; it may run the     *)
(* helper when no older live ticket exists and worker.lock is free.        *)
(* queue.lock (the gate) protects publishing and scanning, and nothing     *)
(* else: a request leaves the queue without it.  A process may die at any  *)
(* step, and its helper then keeps worker.lock through descriptor 3.       *)
(***************************************************************************)
EXTENDS Integers, FiniteSets

CONSTANTS Requests,      \* conversions, each with a lease of its own
          Leftovers,     \* those that died before the last boot
          LeftoverStamp, \* the stamp such a ticket carries, maybe in the future
          NoOne,         \* nobody holds a lock
          ScanLimit,     \* queue entries a scan visits (256 with ".", ".." etc.)
          JobLimit,      \* job directories that may exist (4)
          MaxCrashes     \* bound: processes that die

ASSUME LeaseAssumption ==
    /\ IsFiniteSet(Requests)
    /\ Leftovers \subseteq Requests
    /\ LeftoverStamp \in Nat
    /\ NoOne \notin Requests
    /\ ScanLimit \in Nat
    /\ JobLimit \in Nat \ {0}
    /\ MaxCrashes \in Nat

VARIABLES at,       \* where each request is
          file,     \* its queue entry: none, .pending-*, or .ticket-*
          stamp,    \* the stamp in the name of its ticket
          locked,   \* its descriptor holds the lock of that entry
          expired,  \* its deadline has passed
          clock,    \* the largest stamp given out since the boot
          gate,     \* who holds queue.lock
          todo,     \* directory entries the scan has still to read
          open,     \* the entry the scan has open, and whether it was stat'ed
          visited,  \* entries the scan has read
          worker,   \* whose open file holds worker.lock
          helpers,  \* requests whose helper process runs
          jobs,     \* requests whose job directory exists
          crashes   \* processes that died

vars == <<at, file, stamp, locked, expired, clock, gate, todo, open, visited,
          worker, helpers, jobs, crashes>>

queueVars == <<file, stamp, locked, clock>>
scanVars == <<todo, open, visited>>
workVars == <<worker, helpers, jobs>>

Phases == {"idle", "creating", "pending", "queued", "scanning", "head",
           "admitted", "room", "made", "running", "leaving", "unlinked",
           "done", "dead"}

\* The job's thread still exists.
Alive(r) == at[r] \notin {"idle", "done", "dead"}
\* Coordinate holds a published ticket and has not got worker.lock.
Waiting(r) == at[r] \in {"queued", "scanning", "head"}
\* The request's own descriptor of worker.lock holds the lock.
Admitted(r) == at[r] \in {"admitted", "room", "made", "running"}
Older(q, r) == stamp[q] < stamp[r]

Init ==
    /\ at = [r \in Requests |-> IF r \in Leftovers THEN "dead" ELSE "idle"]
    /\ file \in [Requests -> {"none", "pending", "ticket"}]
    /\ \A r \in Requests : (file[r] # "none") <=> (r \in Leftovers)
    /\ stamp = [r \in Requests |-> LeftoverStamp]
    /\ locked = [r \in Requests |-> FALSE]
    /\ expired = [r \in Requests |-> FALSE]
    /\ clock = 0
    /\ gate = NoOne
    /\ todo = {} /\ open = NoOne /\ visited = 0
    /\ worker = NoOne
    /\ helpers = {}
    /\ jobs = {}
    /\ crashes = 0

Go(r, phase) == at' = [at EXCEPT ![r] = phase]

\* ConvertWith opens the work directory and Coordinate the lock files.
Start(r) ==
    /\ at[r] = "idle"
    /\ Go(r, "creating")
    /\ UNCHANGED <<queueVars, expired, gate, scanVars, workVars, crashes>>

\* The deadline of a request passes.
Expire(r) ==
    /\ Alive(r) /\ ~expired[r]
    /\ expired' = [expired EXCEPT ![r] = TRUE]
    /\ UNCHANGED <<at, queueVars, gate, scanVars, workVars, crashes>>

(***************************************************************************)
(* FairCreate and FairPublish.  The entry is created with its lock held,   *)
(* stamped and renamed, all under the gate; two requests that publish one  *)
(* after the other read different times.                                   *)
(***************************************************************************)
CreatePending(r) ==
    /\ at[r] = "creating" /\ ~expired[r]
    /\ gate = NoOne
    /\ gate' = r
    /\ file' = [file EXCEPT ![r] = "pending"]
    /\ locked' = [locked EXCEPT ![r] = TRUE]
    /\ Go(r, "pending")
    /\ UNCHANGED <<stamp, clock, expired, scanVars, workVars, crashes>>

Publish(r) ==
    /\ at[r] = "pending" /\ ~expired[r]
    /\ clock' = clock + 1
    /\ stamp' = [stamp EXCEPT ![r] = clock + 1]
    /\ file' = [file EXCEPT ![r] = "ticket"]
    /\ gate' = NoOne
    /\ Go(r, "queued")
    /\ UNCHANGED <<locked, expired, scanVars, workVars, crashes>>

PublishExpired(r) ==
    /\ at[r] = "pending" /\ expired[r]
    /\ gate' = NoOne
    /\ Go(r, "leaving")
    /\ UNCHANGED <<queueVars, expired, scanVars, workVars, crashes>>

(***************************************************************************)
(* FairHasTurn and FairScanTurn: one directory pass under the gate.        *)
(***************************************************************************)
StartScan(r) ==
    /\ at[r] = "queued" /\ ~expired[r]
    /\ gate = NoOne
    /\ gate' = r
    /\ todo' = {q \in Requests \ {r} : file[q] # "none"}
    /\ open' = NoOne /\ visited' = 0
    /\ Go(r, "scanning")
    /\ UNCHANGED <<queueVars, expired, workVars, crashes>>

\* Mutant: an entry that vanished ends the scan.
ScanOpenBreaks(r, q) ==
    /\ at[r] = "scanning" /\ ~expired[r]
    /\ open = NoOne /\ q \in todo
    /\ visited < ScanLimit
    /\ todo' = IF file[q] = "none" THEN {} ELSE todo \ {q}
    /\ visited' = visited + 1
    /\ open' = IF file[q] = "none" THEN NoOne ELSE q
    /\ UNCHANGED <<at, queueVars, expired, gate, workVars, crashes>>

\* The scan reads the next entry; it may have been unlinked since readdir.
ScanOpen(r, q) ==
    /\ at[r] = "scanning" /\ ~expired[r]
    /\ open = NoOne /\ q \in todo
    /\ visited < ScanLimit
    /\ todo' = todo \ {q}
    /\ visited' = visited + 1
    /\ open' = IF file[q] = "none" THEN NoOne ELSE q
    /\ UNCHANGED <<at, queueVars, expired, gate, workVars, crashes>>

\* fstat: an entry unlinked after the open has no link left and is passed
\* over; otherwise its lock is tried.
Departed(q) == file[q] = "none"

\* flock finds the owner alive: an older ticket ends the scan.
ScanLive(r, q) ==
    /\ at[r] = "scanning" /\ open = q
    /\ ~Departed(q) /\ locked[q]
    /\ open' = NoOne
    /\ IF file[q] = "ticket" /\ Older(q, r)
       THEN Go(r, "queued") /\ gate' = NoOne
       ELSE UNCHANGED <<at, gate>>
    /\ UNCHANGED <<queueVars, expired, todo, visited, workVars, crashes>>

\* Mutant: a scanner trusts something other than the lock.
ScanAbandonedUnlocked(r, q) ==
    /\ at[r] = "scanning" /\ open = q
    /\ ~Departed(q)
    /\ file' = [file EXCEPT ![q] = "none"]
    /\ open' = NoOne
    /\ UNCHANGED <<at, stamp, locked, clock, expired, gate, todo, visited,
                   workVars, crashes>>

\* flock succeeds: the entry is abandoned, and FairUnlink removes it.
ScanAbandoned(r, q) ==
    /\ at[r] = "scanning" /\ open = q
    /\ ~Departed(q) /\ ~locked[q]
    /\ file' = [file EXCEPT ![q] = "none"]
    /\ open' = NoOne
    /\ UNCHANGED <<at, stamp, locked, clock, expired, gate, todo, visited,
                   workVars, crashes>>

\* Mutant: an unlinked entry is a policy failure like any other.
ScanDepartedFails(r, q) ==
    /\ at[r] = "scanning" /\ open = q
    /\ Departed(q)
    /\ open' = NoOne
    /\ gate' = NoOne
    /\ Go(r, "leaving")
    /\ UNCHANGED <<queueVars, expired, todo, visited, workVars, crashes>>

ScanDeparted(r, q) ==
    /\ at[r] = "scanning" /\ open = q
    /\ Departed(q)
    /\ open' = NoOne
    /\ UNCHANGED <<at, queueVars, expired, gate, todo, visited, workVars,
                   crashes>>

ScanDone(r) ==
    /\ at[r] = "scanning" /\ open = NoOne
    /\ todo = {}
    /\ gate' = NoOne
    /\ Go(r, "head")
    /\ UNCHANGED <<queueVars, expired, scanVars, workVars, crashes>>

\* Too many entries, or the deadline, at the next entry: Coordinate gives up.
ScanRefused(r) ==
    /\ at[r] = "scanning" /\ open = NoOne
    /\ todo # {}
    /\ expired[r] \/ visited = ScanLimit
    /\ gate' = NoOne
    /\ Go(r, "leaving")
    /\ UNCHANGED <<queueVars, expired, scanVars, workVars, crashes>>

(***************************************************************************)
(* Coordinate's loop, and what ConvertWith does with worker.lock.          *)
(***************************************************************************)
TakeWorker(r) ==
    /\ at[r] = "head" /\ worker = NoOne
    /\ worker' = r
    /\ Go(r, "admitted")
    /\ UNCHANGED <<queueVars, expired, gate, scanVars, helpers, jobs, crashes>>

WorkerBusy(r) ==
    /\ at[r] = "head" /\ worker # NoOne
    /\ Go(r, "queued")
    /\ UNCHANGED <<queueVars, expired, gate, scanVars, workVars, crashes>>

\* Mutant: only FairCreate's loop looks at the deadline.
GiveUpCreating(r) ==
    /\ at[r] = "creating" /\ expired[r]
    /\ Go(r, "leaving")
    /\ UNCHANGED <<queueVars, expired, gate, scanVars, workVars, crashes>>

\* while (Before(deadline)) ends in FairCreate or in Coordinate.
GiveUp(r) ==
    /\ at[r] \in {"creating", "queued"} /\ expired[r]
    /\ Go(r, "leaving")
    /\ UNCHANGED <<queueVars, expired, gate, scanVars, workVars, crashes>>

\* Mutant: the bound is off by one.
RoomForOneMore(r) ==
    /\ at[r] = "admitted"
    /\ Cardinality(jobs) <= JobLimit
    /\ Go(r, "room")
    /\ UNCHANGED <<queueVars, expired, gate, scanVars, workVars, crashes>>

RoomForJob(r) ==
    /\ at[r] = "admitted"
    /\ Cardinality(jobs) < JobLimit
    /\ Go(r, "room")
    /\ UNCHANGED <<queueVars, expired, gate, scanVars, workVars, crashes>>

MakeJob(r) ==
    /\ at[r] = "room" /\ ~expired[r]
    /\ jobs' = jobs \cup {r}
    /\ Go(r, "made")
    /\ UNCHANGED <<queueVars, expired, gate, scanVars, worker, helpers, crashes>>

Spawn(r) ==
    /\ at[r] = "made" /\ ~expired[r]
    /\ helpers' = helpers \cup {r}
    /\ Go(r, "running")
    /\ UNCHANGED <<queueVars, expired, gate, scanVars, worker, jobs, crashes>>

\* No room, a late hit in the persistent cache, an unwritable input or a
\* failed spawn: finish runs without a helper.  An empty directory goes.
Abandon(r) ==
    /\ at[r] \in {"admitted", "room", "made"}
    /\ at[r] = "admitted" => expired[r] \/ Cardinality(jobs) >= JobLimit
    /\ jobs' = jobs \ {r}
    /\ worker' = NoOne
    /\ Go(r, "leaving")
    /\ UNCHANGED <<queueVars, expired, gate, scanVars, helpers, crashes>>

\* The helper ends by itself or is killed when the deadline has passed.  If
\* its parent is dead this closes the last descriptor of worker.lock.
HelperExit(r) ==
    /\ r \in helpers
    /\ helpers' = helpers \ {r}
    /\ worker' = IF at[r] = "dead" THEN NoOne ELSE worker
    /\ UNCHANGED <<at, queueVars, expired, gate, scanVars, jobs, crashes>>

\* finish, once the exit was observed: RemoveJob leaves a directory in which
\* the helper made subdirectories, and worker.lock is closed.
Finish(r) ==
    /\ at[r] = "running" /\ r \notin helpers
    /\ jobs' \in {jobs, jobs \ {r}}
    /\ worker' = NoOne
    /\ Go(r, "leaving")
    /\ UNCHANGED <<queueVars, expired, gate, scanVars, helpers, crashes>>

\* FairRelease: unlink, then close, without the gate.
ReleaseUnlink(r) ==
    /\ at[r] = "leaving"
    /\ file' = [file EXCEPT ![r] = "none"]
    /\ Go(r, "unlinked")
    /\ UNCHANGED <<stamp, locked, clock, expired, gate, scanVars, workVars,
                   crashes>>

ReleaseClose(r) ==
    /\ at[r] = "unlinked"
    /\ locked' = [locked EXCEPT ![r] = FALSE]
    /\ Go(r, "done")
    /\ UNCHANGED <<file, stamp, clock, expired, gate, scanVars, workVars,
                   crashes>>

\* Mutant: the helper does not inherit the descriptor of worker.lock.
CrashFreesWorker(r) ==
    /\ Alive(r) /\ crashes < MaxCrashes
    /\ crashes' = crashes + 1
    /\ Go(r, "dead")
    /\ locked' = [locked EXCEPT ![r] = FALSE]
    /\ gate' = IF gate = r THEN NoOne ELSE gate
    /\ worker' = IF worker = r THEN NoOne ELSE worker
    /\ UNCHANGED <<file, stamp, clock, expired, scanVars, helpers, jobs>>

\* The process dies.  The kernel closes its descriptors; its files stay.
Crash(r) ==
    /\ Alive(r) /\ crashes < MaxCrashes
    /\ crashes' = crashes + 1
    /\ Go(r, "dead")
    /\ locked' = [locked EXCEPT ![r] = FALSE]
    /\ gate' = IF gate = r THEN NoOne ELSE gate
    /\ worker' = IF worker = r /\ r \notin helpers THEN NoOne ELSE worker
    /\ UNCHANGED <<file, stamp, clock, expired, scanVars, helpers, jobs>>

Scan(r) == \/ StartScan(r)
           \/ \E q \in Requests : \/ ScanOpen(r, q)
                                  \/ ScanLive(r, q)
                                  \/ ScanAbandoned(r, q)
                                  \/ ScanDeparted(r, q)
           \/ ScanDone(r)
           \/ ScanRefused(r)

Queue(r) == CreatePending(r) \/ Publish(r) \/ PublishExpired(r) \/ GiveUp(r)

Work(r) == \/ TakeWorker(r) \/ WorkerBusy(r) \/ RoomForJob(r) \/ MakeJob(r)
           \/ Spawn(r) \/ Abandon(r) \/ Finish(r)

Release(r) == ReleaseUnlink(r) \/ ReleaseClose(r)

Step(r) == Queue(r) \/ Scan(r) \/ Work(r) \/ Release(r)

Next == \E r \in Requests : Start(r) \/ Expire(r) \/ Step(r)
                            \/ HelperExit(r) \/ Crash(r)

(***************************************************************************)
(* A live request keeps executing, its deadline passes at some time, and a *)
(* helper whose parent lives past the deadline is killed by it.  The       *)
(* helper of a dead parent is killed by nobody.                            *)
(***************************************************************************)
Killed(r) == at[r] = "running" /\ expired[r] /\ HelperExit(r)

Spec == Init /\ [][Next]_vars

FairSpec == Spec /\ \A r \in Requests : /\ WF_vars(Step(r))
                                        /\ WF_vars(Expire(r))
                                        /\ WF_vars(Killed(r))
-----------------------------------------------------------------------------
\* Types of the variables.
LeaseTypeOK ==
    /\ at \in [Requests -> Phases]
    /\ file \in [Requests -> {"none", "pending", "ticket"}]
    /\ stamp \in [Requests -> Nat]
    /\ locked \in [Requests -> BOOLEAN]
    /\ expired \in [Requests -> BOOLEAN]
    /\ clock \in Nat /\ visited \in Nat /\ crashes \in Nat
    /\ gate \in Requests \cup {NoOne}
    /\ todo \subseteq Requests
    /\ open \in Requests \cup {NoOne}
    /\ worker \in Requests \cup {NoOne}
    /\ helpers \subseteq Requests
    /\ jobs \subseteq Requests

\* At most one converter helper exists, whichever processes died: a request
\* spawns only with worker.lock, and the lock outlives a dead parent as long
\* as its helper runs.
OneHelper == \A q, r \in helpers : q = r

\* Only its owner removes a live request's queue entry, although scanners
\* remove abandoned entries and owners leave without the gate.
LiveTicketKept ==
    \A r \in Requests :
        at[r] \in {"pending", "queued", "scanning", "head", "admitted", "room",
                   "made", "running"} => file[r] # "none" /\ locked[r]

\* RoomForJob and mkdtemp are two steps, and directories of dead processes
\* stay for ever: still no more than JobLimit job directories ever exist.
JobsBounded == Cardinality(jobs) <= JobLimit

-----------------------------------------------------------------------------
(***************************************************************************)
(* The inductive invariant.                                                *)
(***************************************************************************)
GateInv == \A r \in Requests : gate = r <=> at[r] \in {"pending", "scanning"}

WorkerInv ==
    /\ \A r \in Requests : Admitted(r) => worker = r
    /\ \A r \in helpers : worker = r /\ at[r] \in {"running", "dead"}

JobsInv ==
    /\ JobsBounded
    /\ \A r \in Requests : at[r] = "room" => Cardinality(jobs) < JobLimit

TicketInv ==
    \A r \in Requests :
        Waiting(r) => file[r] = "ticket" /\ stamp[r] <= clock

StampInv ==
    \A q, r \in Requests :
        Waiting(q) /\ Waiting(r) /\ stamp[q] = stamp[r] => q = r

ScanInv ==
    \A r \in Requests : at[r] = "scanning" =>
        \A q \in Requests \ {r} :
            Waiting(q) /\ Older(q, r) => q \in todo \/ q = open

HeadInv ==
    \A r \in Requests : at[r] = "head" =>
        \A q \in Requests \ {r} : Waiting(q) => Older(r, q)

\* All of it, checked by TLC and proved inductive in FairLeaseProofs: who
\* holds the gate and worker.lock, that a scan has still to meet every older
\* live ticket, and that a request that saw none stays the oldest.
LeaseInv ==
    /\ LeaseTypeOK /\ GateInv /\ WorkerInv /\ LiveTicketKept /\ JobsInv
    /\ TicketInv /\ StampInv /\ ScanInv /\ HeadInv
-----------------------------------------------------------------------------
\* Admission is first come, first served: no request gets worker.lock while a
\* live request with an older ticket waits.
AdmissionInOrder ==
    [][\A r \in Requests :
          at[r] = "head" /\ at'[r] = "admitted" =>
              \A q \in Requests \ {r} : Waiting(q) => Older(r, q)]_vars

\* A scan ends in a refusal only for the deadline or a full queue directory,
\* never because other requests leave the queue under it.
RefusedForCause ==
    [][\A r \in Requests :
          at[r] = "scanning" /\ at'[r] = "leaving" =>
              expired[r] \/ visited = ScanLimit]_vars

\* No request waits for ever: its lease ends, also when others die holding
\* the gate or leave a helper behind that holds worker.lock.
EveryRequestEnds ==
    \A r \in Requests :
        (at[r] = "creating") ~> (at[r] \in {"done", "dead"})
=============================================================================
