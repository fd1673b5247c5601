------------------------------ MODULE JobQueue ------------------------------
(***************************************************************************)
(* The background-job queue of app/jobs/worker.py: the agent_runs table,   *)
(* the requests that enqueue into it, and the worker slots that claim,     *)
(* run, finish, lose and reclaim its rows.                                 *)
(*                                                                         *)
(* PostgreSQL gives each statement the rows committed before it started    *)
(* (READ COMMITTED), so an action is one statement, or a run of statements *)
(* that no other session can tell apart; every `await` between two reads   *)
(* or between a read and its write is a step boundary.                     *)
(*                                                                         *)
(* Time is relative.  Tick is one unit; a lease is the time it still has,  *)
(* and a slot counts how long it has been busy with its run.               *)
(***************************************************************************)
EXTENDS Integers, FiniteSets

CONSTANTS
    Callers,       \* request sessions that enqueue (routers, the Sentry webhook)
    Slots,         \* worker slots of every replica
    Reclaimers,    \* the slot 0 of each replica: the one that reclaims leases
    Projects,      \* values of agent_runs.project_id ("global" is one of them)
    Refs,          \* (kind, ref_type, ref_id) with a ref_id: deduplicated
    NoRef,         \* the work of a run whose ref_id is NULL: never deduplicated
    NoOne,         \* nobody: a free advisory lock, a slot without a run
    MaxTxns,       \* bound: enqueue transactions in a behaviour
    MaxBatch,      \* bound: references in one enqueue_jobs call
    MaxActive,     \* settings.job_queue_max_active
    Lease,         \* settings.job_lease_seconds, in ticks
    MaxRun,        \* longest time a slot is busy with a run, in ticks
    ReclaimEvery,  \* reclaim_interval of _worker_slot, in ticks
    MaxFaults,     \* bound: crashes, shutdowns and failed commits
    Poison         \* refs whose handler swallows a database error (handlers.py:56)

ASSUME JobQueueAssumption ==
    /\ MaxTxns \in Nat /\ MaxBatch \in Nat /\ MaxActive \in Nat
    /\ Lease \in Nat /\ MaxRun \in Nat /\ ReclaimEvery \in Nat /\ MaxFaults \in Nat
    /\ Reclaimers \subseteq Slots
    /\ IsFiniteSet(Refs) /\ Poison \subseteq Refs /\ NoRef \notin Refs
    /\ NoOne \notin Callers

(***************************************************************************)
(* A row is named by what it is for and by the transaction that inserted   *)
(* it; transactions are numbered as they begin, which is the order of      *)
(* created_at (a server default of now(), the start of the transaction).   *)
(***************************************************************************)
Run == [txn : 1..MaxTxns, project : Projects, ref : Refs \cup {NoRef}]

ASSUME NoOneIsNoRun == NoOne \notin Run

VARIABLES
    status,        \* agent_runs.status; "absent" before the insert commits
    lease,         \* time left before leased_until < now; 0 is expired or NULL
    queueLock,     \* holder of pg_advisory_xact_lock of each project
    txns,          \* enqueue transactions begun so far
    caller,        \* the enqueue transaction of each caller
    slot,          \* the place of each slot in process_one, and its run
    untilReclaim,  \* time before slot 0 of a replica reclaims again
    faults,        \* faults so far
    applied        \* observation: handler transactions committed for each run

vars == <<status, lease, queueLock, txns, caller, slot, untilReclaim, faults, applied>>

tableVars == <<status, lease, applied>>
enqueueVars == <<queueLock, txns, caller>>
workerVars == <<slot, untilReclaim, faults>>

Statuses == {"absent", "pending", "running", "ok", "error"}
ActiveStatuses == {"pending", "running"}

IdleCaller == [at |-> "idle", txn |-> 0, project |-> NoOne, want |-> {}]
IdleSlot == [at |-> "top", run |-> NoOne, busy |-> 0]

CallerState ==
    [at : {"idle", "waiting", "dedup", "count", "insert"},
     txn : 0..MaxTxns,
     project : Projects \cup {NoOne},
     want : SUBSET (Refs \cup {NoRef})]

SlotState ==
    [at : {"top", "selected", "handling", "requeue", "down"},
     run : Run \cup {NoOne},
     busy : 0..MaxRun]

TypeOK ==
    /\ status \in [Run -> Statuses]
    /\ lease \in [Run -> 0..Lease + 1]
    /\ queueLock \in [Projects -> Callers \cup {NoOne}]
    /\ txns \in 0..MaxTxns
    /\ caller \in [Callers -> CallerState]
    /\ slot \in [Slots -> SlotState]
    /\ untilReclaim \in [Reclaimers -> 0..ReclaimEvery]
    /\ faults \in 0..MaxFaults
    /\ applied \in [Run -> Nat]

Init ==
    /\ status = [r \in Run |-> "absent"]
    /\ lease = [r \in Run |-> 0]
    /\ queueLock = [p \in Projects |-> NoOne]
    /\ txns = 0
    /\ caller = [c \in Callers |-> IdleCaller]
    /\ slot = [s \in Slots |-> IdleSlot]
    /\ untilReclaim = [s \in Reclaimers |-> 0]
    /\ faults = 0
    /\ applied = [r \in Run |-> 0]

Active(p) == {r \in Run : r.project = p /\ status[r] \in ActiveStatuses}

(***************************************************************************)
(* Enqueuing.  enqueue_job is the batch of one reference; with             *)
(* commit=False its caller (ingest_sentry) commits or rolls back, later.   *)
(***************************************************************************)
InTxn(c) == caller[c].at \in {"dedup", "count", "insert"}

Begin(c) ==
    /\ caller[c].at = "idle"
    /\ txns < MaxTxns
    /\ \E p \in Projects, want \in (SUBSET Refs) \cup {{NoRef}} :
        /\ want # {}
        /\ Cardinality(want) <= MaxBatch
        /\ caller' = [caller EXCEPT ![c] =
                [at |-> "waiting", txn |-> txns + 1, project |-> p, want |-> want]]
    /\ txns' = txns + 1
    /\ UNCHANGED <<tableVars, workerVars, queueLock>>

(* Mutant of LockQueue: no advisory lock. *)
UnserializedQueue(c) ==
    /\ caller[c].at = "waiting"
    /\ caller' = [caller EXCEPT ![c].at = "dedup"]
    /\ UNCHANGED <<tableVars, workerVars, queueLock, txns>>

LockQueue(c) ==
    LET p == caller[c].project IN
    /\ caller[c].at = "waiting"
    /\ queueLock[p] = NoOne
    /\ queueLock' = [queueLock EXCEPT ![p] = c]
    /\ caller' = [caller EXCEPT ![c].at = "dedup"]
    /\ UNCHANGED <<tableVars, workerVars, txns>>

(* A reference that has an active run is not enqueued again. *)
Dedup(c) ==
    LET existing == {r.ref : r \in Active(caller[c].project)} \cap Refs IN
    /\ caller[c].at = "dedup"
    /\ caller' = [caller EXCEPT ![c].at = "count", ![c].want = @ \ existing]
    /\ UNCHANGED <<tableVars, workerVars, queueLock, txns>>

(* Mutant of Count: the check tests for a free place, not for enough of them. *)
CountOnePlace(c) ==
    /\ caller[c].at = "count"
    /\ caller' = [caller EXCEPT ![c].at = "insert",
            ![c].want = IF Cardinality(Active(caller[c].project)) >= MaxActive THEN {} ELSE @]
    /\ UNCHANGED <<tableVars, workerVars, queueLock, txns>>

(* As many of the rest as there is room for; none is JobQueueFull. *)
Count(c) ==
    LET available == MaxActive - Cardinality(Active(caller[c].project)) IN
    /\ caller[c].at = "count"
    /\ \E accepted \in SUBSET caller[c].want :
        /\ IF Cardinality(caller[c].want) <= available
              THEN accepted = caller[c].want
              ELSE Cardinality(accepted) = IF available > 0 THEN available ELSE 0
        /\ caller' = [caller EXCEPT ![c].at = "insert", ![c].want = accepted]
    /\ UNCHANGED <<tableVars, workerVars, queueLock, txns>>

NewRuns(c) ==
    {r \in Run : /\ r.txn = caller[c].txn
                 /\ r.project = caller[c].project
                 /\ r.ref \in caller[c].want}

EndTxn(c) ==
    /\ caller' = [caller EXCEPT ![c] = IdleCaller]
    /\ queueLock' = [p \in Projects |-> IF queueLock[p] = c THEN NoOne ELSE queueLock[p]]

CommitEnqueue(c) ==
    /\ caller[c].at = "insert"
    /\ status' = [r \in Run |-> IF r \in NewRuns(c) THEN "pending" ELSE status[r]]
    /\ EndTxn(c)
    /\ UNCHANGED <<lease, applied, txns, workerVars>>

(* The request fails before it commits: get_db rolls its transaction back. *)
RollbackEnqueue(c) ==
    /\ caller[c].at # "idle"
    /\ EndTxn(c)
    /\ UNCHANGED <<tableVars, txns, workerVars>>

(***************************************************************************)
(* Workers.                                                                *)
(***************************************************************************)
ReclaimDue(s) == s \in Reclaimers /\ untilReclaim[s] = 0

(* Mutants of Expired: the lease is not compared; an expired lease is taken *)
(* for a NULL one.                                                         *)
AnyRunning(r) == status[r] = "running"
NeverExpired(r) == status[r] = "running" /\ lease[r] < 0

Expired(r) == status[r] = "running" /\ lease[r] = 0

ReclaimExpiredLeases(s) ==
    /\ slot[s].at = "top"
    /\ ReclaimDue(s)
    /\ status' = [r \in Run |-> IF Expired(r) THEN "pending" ELSE status[r]]
    /\ untilReclaim' = [untilReclaim EXCEPT ![s] = ReclaimEvery]
    /\ UNCHANGED <<lease, applied, enqueueVars, slot, faults>>

(* Mutant of RowLocked: the SELECT takes no row lock. *)
NoRowLock(r) == FALSE

RowLocked(r) == \E t \in Slots : slot[t].at = "selected" /\ slot[t].run = r

Claimable == {r \in Run : status[r] = "pending" /\ ~RowLocked(r)}

(* SELECT ... ORDER BY created_at LIMIT 1 FOR UPDATE SKIP LOCKED; rows one  *)
(* transaction inserted tie, and their random ids order them.              *)
Select(s) ==
    /\ slot[s].at = "top"
    /\ ~ReclaimDue(s)
    /\ \E r \in Claimable :
        /\ \A q \in Claimable : r.txn <= q.txn
        /\ slot' = [slot EXCEPT ![s] = [at |-> "selected", run |-> r, busy |-> 0]]
    /\ UNCHANGED <<tableVars, enqueueVars, untilReclaim, faults>>

(* The lease was computed before the SELECT, so the wait counts against it. *)
LeaseLeft(s) == IF slot[s].busy <= Lease THEN Lease + 1 - slot[s].busy ELSE 0

Claim(s) ==
    LET r == slot[s].run IN
    /\ slot[s].at = "selected"
    /\ status' = [status EXCEPT ![r] = "running"]
    /\ lease' = [lease EXCEPT ![r] = LeaseLeft(s)]
    /\ slot' = [slot EXCEPT ![s].at = "handling"]
    /\ UNCHANGED <<applied, enqueueVars, untilReclaim, faults>>

(* The handler returns: its writes and status 'ok' commit together. *)
Finish(s) ==
    LET r == slot[s].run IN
    /\ slot[s].at = "handling"
    /\ r.ref \notin Poison
    /\ status' = [status EXCEPT ![r] = "ok"]
    /\ lease' = [lease EXCEPT ![r] = 0]
    /\ applied' = [applied EXCEPT ![r] = @ + 1]
    /\ slot' = [slot EXCEPT ![s] = IdleSlot]
    /\ UNCHANGED <<enqueueVars, untilReclaim, faults>>

(* The handler raises: its writes are rolled back and the run is an error,  *)
(* whatever the row says by now.                                           *)
Fail(s) ==
    LET r == slot[s].run IN
    /\ slot[s].at = "handling"
    /\ status' = [status EXCEPT ![r] = "error"]
    /\ lease' = [lease EXCEPT ![r] = 0]
    /\ slot' = [slot EXCEPT ![s] = IdleSlot]
    /\ UNCHANGED <<applied, enqueueVars, untilReclaim, faults>>

(* The last commit of process_one raises, outside its try: the slot goes   *)
(* on and the row stays 'running'.  A handler that swallowed a database    *)
(* error leaves its transaction aborted and always ends so.                *)
CommitFails(s) ==
    /\ slot[s].at = "handling"
    /\ \/ slot[s].run.ref \in Poison /\ UNCHANGED faults
       \/ faults < MaxFaults /\ faults' = faults + 1
    /\ slot' = [slot EXCEPT ![s] = IdleSlot]
    /\ UNCHANGED <<tableVars, enqueueVars, untilReclaim>>

(* Shutdown cancels the handler: roll back, reload the row, and requeue it  *)
(* if it still says 'running'.                                             *)
Cancel(s) ==
    LET requeues == slot[s].at = "handling" /\ status[slot[s].run] = "running" IN
    /\ slot[s].at \in {"top", "selected", "handling"}
    /\ faults < MaxFaults
    /\ faults' = faults + 1
    /\ slot' = [slot EXCEPT ![s] = IF requeues THEN [@ EXCEPT !.at = "requeue"]
                                               ELSE [IdleSlot EXCEPT !.at = "down"]]
    /\ UNCHANGED <<tableVars, enqueueVars, untilReclaim>>

Requeue(s) ==
    LET r == slot[s].run IN
    /\ slot[s].at = "requeue"
    /\ status' = [status EXCEPT ![r] = "pending"]
    /\ lease' = [lease EXCEPT ![r] = 0]
    /\ slot' = [slot EXCEPT ![s] = [IdleSlot EXCEPT !.at = "down"]]
    /\ UNCHANGED <<applied, enqueueVars, untilReclaim, faults>>

(* The process dies: row locks go, the row keeps its status and its lease.  *)
Crash(s) ==
    /\ slot[s].at # "down"
    /\ faults < MaxFaults
    /\ faults' = faults + 1
    /\ slot' = [slot EXCEPT ![s] = [IdleSlot EXCEPT !.at = "down"]]
    /\ UNCHANGED <<tableVars, enqueueVars, untilReclaim>>

Restart(s) ==
    /\ slot[s].at = "down"
    /\ slot' = [slot EXCEPT ![s] = IdleSlot]
    /\ untilReclaim' = [t \in Reclaimers |-> IF t = s THEN 0 ELSE untilReclaim[t]]
    /\ UNCHANGED <<tableVars, enqueueVars, faults>>

(***************************************************************************)
(* A busy slot ends its run within MaxRun: every remote call a handler     *)
(* makes has a timeout.                                                    *)
(***************************************************************************)
Busy(s) == slot[s].at \in {"selected", "handling", "requeue"}

OneLess(n) == IF n > 0 THEN n - 1 ELSE 0

Tick ==
    /\ \A s \in Slots : Busy(s) => slot[s].busy < MaxRun
    /\ lease' = [r \in Run |-> OneLess(lease[r])]
    /\ slot' = [s \in Slots |->
            IF Busy(s) THEN [slot[s] EXCEPT !.busy = @ + 1] ELSE slot[s]]
    /\ untilReclaim' = [s \in Reclaimers |-> OneLess(untilReclaim[s])]
    /\ UNCHANGED <<status, applied, enqueueVars, faults>>

EnqueueStep(c) ==
    \/ Begin(c) \/ LockQueue(c) \/ Dedup(c) \/ Count(c)
    \/ CommitEnqueue(c) \/ RollbackEnqueue(c)

EndHandler(s) == Finish(s) \/ Fail(s) \/ CommitFails(s)

WorkerStep(s) ==
    \/ ReclaimExpiredLeases(s) \/ Select(s) \/ Claim(s) \/ EndHandler(s)
    \/ Cancel(s) \/ Requeue(s) \/ Crash(s) \/ Restart(s)

Next ==
    \/ \E c \in Callers : EnqueueStep(c)
    \/ \E s \in Slots : WorkerStep(s)
    \/ Tick

Spec == Init /\ [][Next]_vars

(***************************************************************************)
(* Fairness: a slot's loop never stops, the supervisor restarts a dead     *)
(* process, and time passes.  Nothing makes a request enqueue or commit.   *)
(***************************************************************************)
SlotFairness(s) ==
    /\ WF_vars(ReclaimExpiredLeases(s)) /\ WF_vars(Select(s)) /\ WF_vars(Claim(s))
    /\ WF_vars(EndHandler(s)) /\ WF_vars(Requeue(s)) /\ WF_vars(Restart(s))

FairSpec == Spec /\ WF_vars(Tick) /\ \A s \in Slots : SlotFairness(s)
-----------------------------------------------------------------------------
(* The capacity check and the insert are two statements, and other sessions *)
(* enqueue and finish in between; still a project never has more active    *)
(* runs than job_queue_max_active (worker.py:71-72).                       *)
CapacityRespected == \A p \in Projects : Cardinality(Active(p)) <= MaxActive

(* A reference has at most one active run in its project, across requests, *)
(* batches and requeued runs (worker.py:56-69).                            *)
NoDuplicateActive ==
    \A p \in Projects : \A q, r \in Active(p) :
        q.ref = r.ref /\ r.ref # NoRef => q = r

(* The table is sound whatever is in flight: its rows and locks are typed,  *)
(* no project is over its capacity, and no reference has two active runs.   *)
QueueIsSound == TypeOK /\ CapacityRespected /\ NoDuplicateActive

Handling(s) == slot[s].at \in {"handling", "requeue"}

(* Two slots never run the handler of the same row at a time, and while a  *)
(* slot runs it the row says so (tests/test_jobs.py:60).                   *)
ExclusiveExecution ==
    /\ \A s, t \in Slots : Handling(s) /\ Handling(t) /\ slot[s].run = slot[t].run => s = t
    /\ \A s \in Slots : Handling(s) => status[slot[s].run] = "running"

(* A run's writes are committed at most once, exactly when it ends 'ok':   *)
(* neither a lost process nor a requeue makes them commit twice.           *)
AppliedOnce == \A r \in Run : applied[r] = IF status[r] = "ok" THEN 1 ELSE 0

(* An ended run stays as it ended: no late slot overwrites its outcome and *)
(* nothing reopens it.                                                     *)
OutcomeIsFinal ==
    [][\A r \in Run : status[r] \in {"ok", "error"} => status'[r] = status[r]]_vars

Poisoned == \E r \in Run : r.ref \in Poison /\ status[r] \in ActiveStatuses

(* Every accepted run ends, in spite of lost processes, shutdowns and      *)
(* failed commits, unless the queue has a run that can never commit: it    *)
(* comes back for ever, before the younger ones (handlers.py:56).          *)
AcceptedRunsEnd ==
    \A r \in Run : status[r] = "pending" ~> status[r] \in {"ok", "error"} \/ Poisoned

(* Pending and running are one phase to those who enqueue. *)
PhaseOf(r) == IF status[r] \in ActiveStatuses THEN "open" ELSE status[r]

Ledger == INSTANCE JobLedger WITH
    phase <- [r \in Run |-> PhaseOf(r)],
    effects <- applied

(* The queue implements the ledger: an accepted batch enters whole, within *)
(* capacity and without duplicates, and each run ends once; claims, lost   *)
(* processes, requeues and reclaimed leases change nothing of that.        *)
ImplementsLedger == Ledger!LedgerSpec
=============================================================================
