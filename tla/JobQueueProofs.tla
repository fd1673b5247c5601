--------------------------- MODULE JobQueueProofs ---------------------------
(***************************************************************************)
(* The safety of JobQueue for every number of requests, slots, projects    *)
(* and references, and for every capacity and lease, as long as no slot is *)
(* busy with a run for longer than the lease it took.                      *)
(***************************************************************************)
EXTENDS JobQueue, FiniteSetTheorems, TLAPS

LeaseOutlivesRun == MaxRun <= Lease

(* A transaction past its lock holds its project's lock, and stamps of      *)
(* open transactions are distinct and name no row yet.                     *)
LockInv ==
    /\ \A c \in Callers : InTxn(c) => queueLock[caller[c].project] = c
    /\ \A c \in Callers : caller[c].at # "idle" =>
            caller[c].project \in Projects /\ caller[c].txn \in 1..txns
    /\ \A c, d \in Callers :
            caller[c].at # "idle" /\ caller[d].at # "idle" /\ caller[c].txn = caller[d].txn
                => c = d

FreshInv ==
    /\ \A r \in Run : status[r] # "absent" => r.txn <= txns
    /\ \A c \in Callers, r \in Run :
            caller[c].at # "idle" /\ r.txn = caller[c].txn => status[r] = "absent"

(* What a transaction decided to insert is not a duplicate, and fits. *)
WantInv ==
    /\ \A c \in Callers : caller[c].at \in {"count", "insert"} =>
            \A r \in Active(caller[c].project) :
                r.ref \in caller[c].want => r.ref = NoRef
    /\ \A c \in Callers : caller[c].at = "insert" =>
            Cardinality(Active(caller[c].project)) + Cardinality(caller[c].want) <= MaxActive

ActiveInv ==
    /\ \A p \in Projects : IsFiniteSet(Active(p))
    /\ CapacityRespected
    /\ NoDuplicateActive

(* A busy slot owns its run, whose lease cannot expire before the slot is   *)
(* forced to end it.                                                       *)
SlotInv ==
    /\ \A s \in Slots : Busy(s) => slot[s].run \in Run
    /\ \A s \in Slots : slot[s].at = "selected" => status[slot[s].run] = "pending"
    /\ \A s \in Slots : Handling(s) =>
            /\ status[slot[s].run] = "running"
            /\ lease[slot[s].run] + slot[s].busy >= Lease + 1
    /\ \A s, t \in Slots : Busy(s) /\ Busy(t) /\ slot[s].run = slot[t].run => s = t

IInv ==
    /\ TypeOK /\ LockInv /\ FreshInv /\ WantInv /\ ActiveInv /\ SlotInv /\ AppliedOnce
-----------------------------------------------------------------------------
LEMMA InitTypeOK == Init => TypeOK
BY JobQueueAssumption
DEF Init, TypeOK, Statuses, IdleCaller, IdleSlot, CallerState, SlotState

LEMMA EnqueueTypeOK ==
  ASSUME TypeOK, NEW c \in Callers, EnqueueStep(c)
  PROVE  TypeOK'
<1> USE JobQueueAssumption DEF TypeOK, tableVars, workerVars
<1>0. IdleCaller \in CallerState
  BY DEF IdleCaller, CallerState
<1>1. CASE Begin(c)
  <2>1. PICK p \in Projects, want \in (SUBSET Refs) \cup {{NoRef}} :
          caller' = [caller EXCEPT ![c] =
                [at |-> "waiting", txn |-> txns + 1, project |-> p, want |-> want]]
    BY <1>1 DEF Begin
  <2>2. txns + 1 \in 0..MaxTxns /\ txns' = txns + 1
    BY <1>1 DEF Begin
  <2>3. [at |-> "waiting", txn |-> txns + 1, project |-> p, want |-> want] \in CallerState
    BY <2>2 DEF CallerState
  <2> QED
    BY <1>1, <2>1, <2>2, <2>3 DEF Begin
<1>2. CASE LockQueue(c)
  <2>1. [caller[c] EXCEPT !.at = "dedup"] \in CallerState
    BY DEF CallerState
  <2>2. caller' \in [Callers -> CallerState]
    BY <1>2, <2>1 DEF LockQueue
  <2> QED
    BY <1>2, <2>2 DEF LockQueue
<1>3. CASE Dedup(c)
  <2> DEFINE p == caller[c].project
             existing == {r.ref : r \in Active(caller[c].project)} \cap Refs
  <2>1. [caller[c] EXCEPT !.at = "count", !.want = @ \ existing] \in CallerState
    BY DEF CallerState
  <2>2. caller' \in [Callers -> CallerState]
    BY <1>3, <2>1 DEF Dedup
  <2> QED
    BY <1>3, <2>2 DEF Dedup
<1>4. CASE Count(c)
  <2>1. PICK accepted \in SUBSET caller[c].want :
          caller' = [caller EXCEPT ![c].at = "insert", ![c].want = accepted]
    BY <1>4 DEF Count
  <2>2. [caller[c] EXCEPT !.at = "insert", !.want = accepted] \in CallerState
    BY DEF CallerState
  <2>3. caller' \in [Callers -> CallerState]
    BY <2>1, <2>2
  <2> QED
    BY <1>4, <2>3 DEF Count
<1>5. CASE CommitEnqueue(c)
  BY <1>0, <1>5 DEF CommitEnqueue, EndTxn, Statuses
<1>6. CASE RollbackEnqueue(c)
  BY <1>0, <1>6 DEF RollbackEnqueue, EndTxn
<1> QED
  BY <1>1, <1>2, <1>3, <1>4, <1>5, <1>6 DEF EnqueueStep

LEMMA WorkerTypeOK ==
  ASSUME TypeOK, SlotInv, NEW s \in Slots, WorkerStep(s)
  PROVE  TypeOK'
<1> USE JobQueueAssumption DEF TypeOK, tableVars, enqueueVars, Statuses
<1>a. IdleSlot \in SlotState /\ [IdleSlot EXCEPT !.at = "down"] \in SlotState
  BY DEF IdleSlot, SlotState
<1>b. /\ slot[s].run \in Run \cup {NoOne}
      /\ slot[s].busy \in 0..MaxRun
  BY DEF SlotState
<1>1. CASE ReclaimExpiredLeases(s)
  <2>1. status' \in [Run -> Statuses]
    BY <1>1 DEF ReclaimExpiredLeases
  <2>2. untilReclaim' \in [Reclaimers -> 0..ReclaimEvery]
    <3>1. ReclaimEvery \in 0..ReclaimEvery
      OBVIOUS
    <3> QED
      BY <1>1, <3>1 DEF ReclaimExpiredLeases
  <2> QED
    BY <1>1, <2>1, <2>2 DEF ReclaimExpiredLeases
<1>2. CASE Select(s)
  <2>1. PICK r \in Run :
          slot' = [slot EXCEPT ![s] = [at |-> "selected", run |-> r, busy |-> 0]]
    BY <1>2 DEF Select, Claimable
  <2>2. [at |-> "selected", run |-> r, busy |-> 0] \in SlotState
    BY DEF SlotState
  <2> QED
    BY <1>2, <2>1, <2>2 DEF Select
<1>3. CASE Claim(s)
  <2>1. LeaseLeft(s) \in 0..Lease + 1
    BY <1>b DEF LeaseLeft
  <2>2. [slot[s] EXCEPT !.at = "handling"] \in SlotState
    BY DEF SlotState
  <2>3. slot' \in [Slots -> SlotState]
    BY <1>3, <2>2 DEF Claim
  <2> QED
    BY <1>3, <2>1, <2>3 DEF Claim
<1>4. CASE Finish(s)
  <2>1. slot[s].run \in Run
    BY <1>4 DEF Finish, SlotInv, Busy
  <2> QED
    BY <1>4, <1>a, <2>1 DEF Finish
<1>5. CASE Fail(s)
  <2>1. slot[s].run \in Run
    BY <1>5 DEF Fail, SlotInv, Busy
  <2>2. status' \in [Run -> Statuses] /\ lease' \in [Run -> 0..Lease + 1]
    BY <1>5, <2>1 DEF Fail
  <2> QED
    BY <1>5, <1>a, <2>2 DEF Fail
<1>6. CASE CommitFails(s)
  BY <1>6, <1>a DEF CommitFails
<1>7. CASE Cancel(s)
  <2>1. [slot[s] EXCEPT !.at = "requeue"] \in SlotState
    BY DEF SlotState
  <2> QED
    BY <1>7, <1>a, <2>1 DEF Cancel
<1>8. CASE Requeue(s)
  <2>1. slot[s].run \in Run
    BY <1>8 DEF Requeue, SlotInv, Busy
  <2>2. status' \in [Run -> Statuses] /\ lease' \in [Run -> 0..Lease + 1]
    BY <1>8, <2>1 DEF Requeue
  <2> QED
    BY <1>8, <1>a, <2>2 DEF Requeue
<1>9. CASE Crash(s)
  BY <1>9, <1>a DEF Crash
<1>10. CASE Restart(s)
  BY <1>10, <1>a DEF Restart
<1> QED
  BY <1>1, <1>2, <1>3, <1>4, <1>5, <1>6, <1>7, <1>8, <1>9, <1>10 DEF WorkerStep, EndHandler

LEMMA TickTypeOK ==
  ASSUME TypeOK, Tick
  PROVE  TypeOK'
<1> USE JobQueueAssumption DEF TypeOK, Tick, enqueueVars
<1>1. lease' \in [Run -> 0..Lease + 1]
  BY DEF OneLess
<1>2. untilReclaim' \in [Reclaimers -> 0..ReclaimEvery]
  BY DEF OneLess
<1>3. ASSUME NEW s \in Slots
      PROVE  (IF Busy(s) THEN [slot[s] EXCEPT !.busy = @ + 1] ELSE slot[s]) \in SlotState
  <2>1. CASE Busy(s)
    <3>1. slot[s].busy + 1 \in 0..MaxRun
      BY <2>1 DEF SlotState
    <3> QED
      BY <2>1, <3>1 DEF SlotState
  <2> QED
    BY <2>1
<1>4. slot' \in [Slots -> SlotState]
  BY <1>3
<1> QED
  BY <1>1, <1>2, <1>4
-----------------------------------------------------------------------------
(* Enqueue transactions: the lock, the stamps, and rows not yet inserted.  *)
LEMMA EnqueueLockInv ==
  ASSUME TypeOK, LockInv, FreshInv, NEW c \in Callers, EnqueueStep(c)
  PROVE  LockInv' /\ FreshInv'
<1> USE JobQueueAssumption DEF TypeOK, LockInv, FreshInv, InTxn, tableVars, CallerState
<1>0. \A r \in Run : r.txn \in 1..MaxTxns
  BY DEF Run
<1>1. CASE Begin(c)
  <2>1. PICK p \in Projects, want \in (SUBSET Refs) \cup {{NoRef}} :
          caller' = [caller EXCEPT ![c] =
                [at |-> "waiting", txn |-> txns + 1, project |-> p, want |-> want]]
    BY <1>1 DEF Begin
  <2>2. txns' = txns + 1 /\ UNCHANGED <<status, queueLock>>
    BY <1>1 DEF Begin
  <2>3. \A r \in Run : r.txn = txns + 1 => status[r] = "absent"
    BY <1>0
  <2>4. LockInv'
    BY <2>1, <2>2
  <2> QED
    BY <2>1, <2>2, <2>3, <2>4, <1>0
<1>2. CASE LockQueue(c)
  BY <1>2 DEF LockQueue
<1>3. CASE Dedup(c)
  BY <1>3 DEF Dedup
<1>4. CASE Count(c)
  BY <1>4 DEF Count
<1>5. CASE CommitEnqueue(c)
  <2>1. LockInv'
    BY <1>5 DEF CommitEnqueue, EndTxn, IdleCaller
  <2>2. \A r \in NewRuns(c) : r.txn = caller[c].txn
    BY DEF NewRuns
  <2>3. txns' = txns /\ caller' = [caller EXCEPT ![c] = IdleCaller]
    BY <1>5 DEF CommitEnqueue, EndTxn
  <2>4. \A r \in Run : status'[r] = IF r \in NewRuns(c) THEN "pending" ELSE status[r]
    BY <1>5 DEF CommitEnqueue
  <2>5. caller[c].at = "insert"
    BY <1>5 DEF CommitEnqueue
  <2>6. FreshInv'
    BY <2>2, <2>3, <2>4, <2>5, <1>0 DEF IdleCaller
  <2> QED
    BY <2>1, <2>6
<1>6. CASE RollbackEnqueue(c)
  BY <1>6 DEF RollbackEnqueue, EndTxn, IdleCaller
<1> QED
  BY <1>1, <1>2, <1>3, <1>4, <1>5, <1>6 DEF EnqueueStep

LEMMA WorkerFreshInv ==
  ASSUME TypeOK, LockInv, FreshInv, SlotInv, NEW s \in Slots, WorkerStep(s)
  PROVE  LockInv' /\ FreshInv'
<1>1. UNCHANGED enqueueVars
  BY DEF WorkerStep, EndHandler, ReclaimExpiredLeases, Select, Claim, Finish, Fail,
         CommitFails, Cancel, Requeue, Crash, Restart
<1>2. \A r \in Run : status'[r] # "absent" => status[r] # "absent"
  BY DEF WorkerStep, EndHandler, ReclaimExpiredLeases, Select, Claim, Finish, Fail,
         CommitFails, Cancel, Requeue, Crash, Restart, tableVars, SlotInv, Busy, Handling,
         Expired, TypeOK
<1> QED
  BY <1>1, <1>2 DEF enqueueVars, LockInv, FreshInv, InTxn
-----------------------------------------------------------------------------
(* Active runs: what an enqueue adds, and what nothing else adds to.       *)
LEMMA ActiveOnlyShrinks ==
  ASSUME TypeOK, SlotInv, NEW s \in Slots, WorkerStep(s), NEW p \in Projects
  PROVE  Active(p)' \subseteq Active(p)
BY DEF WorkerStep, EndHandler, ReclaimExpiredLeases, Select, Claim, Finish, Fail,
       CommitFails, Cancel, Requeue, Crash, Restart, tableVars, SlotInv, Busy, Handling,
       Expired, Active, ActiveStatuses, TypeOK

(* A set of active runs that only shrank keeps the decisions taken on it.  *)
LEMMA ShrinkKeepsInv ==
  ASSUME TypeOK, TypeOK', WantInv, ActiveInv, LockInv, UNCHANGED caller,
         \A p \in Projects : Active(p)' \subseteq Active(p)
  PROVE  WantInv' /\ ActiveInv'
<1>1. \A p \in Projects :
        /\ IsFiniteSet(Active(p)')
        /\ Cardinality(Active(p)') \in Nat
        /\ Cardinality(Active(p)) \in Nat
        /\ Cardinality(Active(p)') <= Cardinality(Active(p))
  BY FS_Subset, FS_CardinalityType DEF ActiveInv
<1>2. \A c \in Callers : caller[c].at # "idle" =>
        /\ caller[c].project \in Projects
        /\ Cardinality(caller[c].want) \in Nat
  <2>1. IsFiniteSet(Refs \cup {NoRef})
    BY FS_AddElement, JobQueueAssumption
  <2>2. \A c \in Callers : caller[c].want \in SUBSET (Refs \cup {NoRef})
    BY DEF TypeOK, CallerState
  <2> QED
    BY <2>1, <2>2, FS_Subset, FS_CardinalityType DEF LockInv
<1>3. WantInv'
  BY <1>1, <1>2, JobQueueAssumption DEF WantInv
<1>4. ActiveInv'
  BY <1>1, JobQueueAssumption DEF ActiveInv, CapacityRespected, NoDuplicateActive
<1> QED
  BY <1>3, <1>4

LEMMA NewRunsFit ==
  ASSUME TypeOK, LockInv, NEW c \in Callers, caller[c].at # "idle"
  PROVE  /\ IsFiniteSet(NewRuns(c))
         /\ Cardinality(NewRuns(c)) <= Cardinality(caller[c].want)
         /\ Cardinality(NewRuns(c)) \in Nat /\ Cardinality(caller[c].want) \in Nat
<1> DEFINE want == caller[c].want
           row(x) == [txn |-> caller[c].txn, project |-> caller[c].project, ref |-> x]
           f == [x \in want |-> row(x)]
<1>1. want \in SUBSET (Refs \cup {NoRef})
  BY DEF TypeOK, CallerState
<1>2. IsFiniteSet(want)
  <2>1. IsFiniteSet(Refs \cup {NoRef})
    BY FS_AddElement, JobQueueAssumption
  <2> QED
    BY <1>1, <2>1, FS_Subset
<1>3. caller[c].txn \in 1..MaxTxns /\ caller[c].project \in Projects
  BY JobQueueAssumption DEF LockInv, TypeOK
<1>4. NewRuns(c) = {row(x) : x \in want}
  BY <1>1, <1>3 DEF NewRuns, Run
<1>5. f \in Surjection(want, NewRuns(c))
  BY <1>4 DEF Surjection
<1> QED
  BY <1>2, <1>5, FS_Surjection, FS_CardinalityType

LEMMA EnqueueActiveInv ==
  ASSUME TypeOK, TypeOK', LockInv, FreshInv, WantInv, ActiveInv,
         NEW c \in Callers, EnqueueStep(c)
  PROVE  WantInv' /\ ActiveInv'
<1>a. \A q \in Projects : Cardinality(Active(q)) \in Nat
  BY FS_CardinalityType DEF ActiveInv
<1>b. ASSUME UNCHANGED status
      PROVE  ActiveInv' /\ \A q : Active(q)' = Active(q)
  BY <1>b DEF ActiveInv, CapacityRespected, NoDuplicateActive, Active
<1>1. CASE Begin(c)
  <2>1. UNCHANGED status
    BY <1>1 DEF Begin, tableVars
  <2>2. \A d \in Callers : d # c => caller'[d] = caller[d]
    BY <1>1 DEF Begin, TypeOK
  <2>3. caller'[c].at = "waiting"
    BY <1>1 DEF Begin, TypeOK
  <2> QED
    BY <2>1, <2>2, <2>3, <1>b DEF WantInv
<1>2. CASE LockQueue(c)
  <2>1. UNCHANGED status
    BY <1>2 DEF LockQueue, tableVars
  <2>2. \A d \in Callers : d # c => caller'[d] = caller[d]
    BY <1>2 DEF LockQueue, TypeOK
  <2>3. caller'[c].at = "dedup"
    BY <1>2 DEF LockQueue, TypeOK, CallerState
  <2> QED
    BY <2>1, <2>2, <2>3, <1>b DEF WantInv
<1>3. CASE Dedup(c)
  <2> DEFINE p == caller[c].project
             existing == {r.ref : r \in Active(p)} \cap Refs
  <2>1. UNCHANGED status
    BY <1>3 DEF Dedup, tableVars
  <2>2. \A d \in Callers : d # c => caller'[d] = caller[d]
    BY <1>3 DEF Dedup, TypeOK
  <2>3. /\ caller'[c].at = "count"
        /\ caller'[c].project = p
        /\ caller'[c].want = caller[c].want \ existing
    <3>1. caller' = [caller EXCEPT ![c].at = "count", ![c].want = @ \ existing]
      BY <1>3 DEF Dedup
    <3>2. caller \in [Callers -> CallerState] /\ caller[c] \in CallerState
      BY DEF TypeOK
    <3> HIDE DEF existing
    <3> QED BY <3>1, <3>2 DEF CallerState
  <2>4. \A r \in Active(p) : r.ref \in caller'[c].want => r.ref = NoRef
    <3>1. \A r \in Active(p) : r.ref \in Refs \cup {NoRef}
      BY DEF Active, Run
    <3> QED
      BY <2>3, <3>1
  <2> QED
    BY <2>1, <2>2, <2>3, <2>4, <1>b DEF WantInv
<1>4. CASE Count(c)
  <2>1. UNCHANGED status
    BY <1>4 DEF Count, tableVars
  <2>2. \A d \in Callers : d # c => caller'[d] = caller[d]
    BY <1>4 DEF Count, TypeOK
  <2> DEFINE p == caller[c].project
             available == MaxActive - Cardinality(Active(p))
  <2>3. PICK accepted \in SUBSET caller[c].want :
          /\ IF Cardinality(caller[c].want) <= available
                THEN accepted = caller[c].want
                ELSE Cardinality(accepted) = IF available > 0 THEN available ELSE 0
          /\ caller' = [caller EXCEPT ![c].at = "insert", ![c].want = accepted]
    BY <1>4 DEF Count
  <2>4. /\ caller[c].at = "count"
        /\ caller'[c].at = "insert"
        /\ caller'[c].project = p
        /\ caller'[c].want = accepted
    BY <1>4, <2>3 DEF Count, TypeOK, CallerState
  <2>5. \A r \in Active(p) : r.ref \in accepted => r.ref = NoRef
    BY <2>4 DEF WantInv
  <2>6. p \in Projects
    BY <2>4 DEF LockInv
  <2>7. Cardinality(Active(p)) + Cardinality(accepted) <= MaxActive
    <3>1. Cardinality(Active(p)) \in Nat /\ Cardinality(Active(p)) <= MaxActive
      BY <2>6, <1>a DEF ActiveInv, CapacityRespected
    <3>2. CASE Cardinality(caller[c].want) <= available
      <4>1. accepted = caller[c].want
        BY <2>3, <3>2
      <4>2. Cardinality(accepted) \in Nat
        BY <4>1, <2>4, NewRunsFit
      <4> QED
        BY <3>1, <3>2, <4>1, <4>2, JobQueueAssumption
    <3>3. CASE ~(Cardinality(caller[c].want) <= available)
      <4>1. Cardinality(accepted) = IF available > 0 THEN available ELSE 0
        BY <2>3, <3>3
      <4> QED
        BY <3>1, <4>1, JobQueueAssumption
    <3> QED
      BY <3>2, <3>3
  <2> QED
    BY <2>1, <2>2, <2>4, <2>5, <2>7, <1>b DEF WantInv
<1>5. CASE CommitEnqueue(c)
  <2>1. PICK p \in Projects :
          caller[c].at = "insert" /\ p = caller[c].project /\ queueLock[p] = c
    BY <1>5 DEF CommitEnqueue, LockInv, InTxn
  <2>2. caller' = [caller EXCEPT ![c] = IdleCaller]
    BY <1>5 DEF CommitEnqueue, EndTxn
  <2>3. \A r \in Run : status'[r] = IF r \in NewRuns(c) THEN "pending" ELSE status[r]
    BY <1>5 DEF CommitEnqueue
  <2>4. \A r \in NewRuns(c) : r \in Run /\ r.project = p /\ status[r] = "absent"
    BY <2>1 DEF NewRuns, FreshInv
  <2>5. Active(p)' = Active(p) \cup NewRuns(c)
    BY <2>3, <2>4 DEF Active, ActiveStatuses
  <2>6. \A q \in Projects : q # p => Active(q)' = Active(q)
    BY <2>3, <2>4 DEF Active, ActiveStatuses
  <2>7. IsFiniteSet(Active(p)') /\ Cardinality(Active(p)') <= MaxActive
    <3>1. /\ IsFiniteSet(NewRuns(c)) /\ Cardinality(NewRuns(c)) <= Cardinality(caller[c].want)
          /\ Cardinality(NewRuns(c)) \in Nat /\ Cardinality(caller[c].want) \in Nat
      BY <2>1, NewRunsFit
    <3>2. IsFiniteSet(Active(p)) /\ Cardinality(Active(p)) \in Nat
      BY <2>1, <1>a DEF ActiveInv
    <3>3. Cardinality(Active(p)) + Cardinality(caller[c].want) <= MaxActive
      BY <2>1 DEF WantInv
    <3>4. /\ IsFiniteSet(Active(p) \cup NewRuns(c))
          /\ Cardinality(Active(p) \cup NewRuns(c))
               = Cardinality(Active(p)) + Cardinality(NewRuns(c))
                 - Cardinality(Active(p) \cap NewRuns(c))
      BY <3>1, <3>2, FS_Union
    <3>5. Cardinality(Active(p) \cap NewRuns(c)) \in Nat
      BY <3>2, FS_Subset, FS_CardinalityType
    <3> QED
      BY <2>5, <3>1, <3>2, <3>3, <3>4, <3>5, JobQueueAssumption
  <2>8. \A q, r \in Active(p)' : q.ref = r.ref /\ r.ref # NoRef => q = r
    <3>1. \A q \in Active(p), r \in NewRuns(c) : q.ref = r.ref => r.ref = NoRef
      BY <2>1 DEF WantInv, NewRuns
    <3>2. \A q, r \in NewRuns(c) : q.ref = r.ref => q = r
      BY DEF NewRuns, Run
    <3>3. \A q, r \in Active(p) : q.ref = r.ref /\ r.ref # NoRef => q = r
      BY <2>1 DEF ActiveInv, NoDuplicateActive
    <3> QED
      BY <2>5, <3>1, <3>2, <3>3
  <2>9. ActiveInv'
    BY <2>6, <2>7, <2>8 DEF ActiveInv, CapacityRespected, NoDuplicateActive
  <2>10. \A d \in Callers : caller'[d].at # "idle" =>
           d # c /\ caller'[d] = caller[d]
    BY <2>2 DEF TypeOK, IdleCaller
  <2>11. \A d \in Callers : d # c /\ InTxn(d) =>
           caller[d].project \in Projects /\ caller[d].project # p
    BY <2>1 DEF LockInv, InTxn
  <2>12. WantInv'
    BY <2>6, <2>10, <2>11 DEF WantInv, InTxn
  <2> QED
    BY <2>9, <2>12
<1>6. CASE RollbackEnqueue(c)
  <2>1. UNCHANGED status
    BY <1>6 DEF RollbackEnqueue, tableVars
  <2>2. \A d \in Callers : caller'[d].at # "idle" => caller'[d] = caller[d]
    BY <1>6 DEF RollbackEnqueue, EndTxn, TypeOK, IdleCaller
  <2> QED
    BY <2>1, <2>2, <1>b DEF WantInv
<1> QED
  BY <1>1, <1>2, <1>3, <1>4, <1>5, <1>6 DEF EnqueueStep
-----------------------------------------------------------------------------
(* Slots: an enqueue inserts rows no slot has, and each slot step keeps    *)
(* the one owner of every busy run.                                        *)
LEMMA EnqueueKeepsRows ==
  ASSUME TypeOK, LockInv, FreshInv, NEW c \in Callers, EnqueueStep(c)
  PROVE  /\ UNCHANGED <<lease, applied, slot>>
         /\ \A r \in Run : status[r] # "absent" => status'[r] = status[r]
         /\ \A r \in Run : status'[r] # status[r] => status'[r] = "pending"
<1>1. \A r \in NewRuns(c) : caller[c].at # "idle" => status[r] = "absent"
  BY DEF NewRuns, FreshInv
<1>2. CASE CommitEnqueue(c)
  <2>1. caller[c].at # "idle"
    BY <1>2 DEF CommitEnqueue
  <2> QED
    BY <1>1, <1>2, <2>1 DEF CommitEnqueue, workerVars, TypeOK
<1>3. CASE ~CommitEnqueue(c)
  BY <1>3 DEF EnqueueStep, Begin, LockQueue, Dedup, Count, RollbackEnqueue, tableVars, workerVars
<1> QED
  BY <1>2, <1>3

LEMMA EnqueueSlotInv ==
  ASSUME TypeOK, LockInv, FreshInv, SlotInv, AppliedOnce, NEW c \in Callers, EnqueueStep(c)
  PROVE  SlotInv' /\ AppliedOnce'
<1>1. SlotInv'
  BY EnqueueKeepsRows DEF SlotInv, Busy, Handling
<1>2. AppliedOnce'
  BY EnqueueKeepsRows DEF AppliedOnce
<1> QED
  BY <1>1, <1>2

(* No lease of a busy slot expires, so a reclaim takes only lost runs.     *)
LEMMA BusyRunsKeepTheirLease ==
  ASSUME LeaseOutlivesRun, TypeOK, SlotInv, NEW s \in Slots, Busy(s)
  PROVE  ~Expired(slot[s].run)
<1>1. slot[s].busy \in 0..MaxRun /\ slot[s].run \in Run
  BY DEF TypeOK, SlotState, SlotInv
<1>2. lease[slot[s].run] \in 0..Lease + 1
  BY <1>1 DEF TypeOK
<1> QED
  BY <1>1, <1>2, JobQueueAssumption DEF SlotInv, Busy, Handling, Expired, LeaseOutlivesRun

LEMMA WorkerSlotInv ==
  ASSUME LeaseOutlivesRun, TypeOK, SlotInv, AppliedOnce, NEW s \in Slots, WorkerStep(s)
  PROVE  SlotInv' /\ AppliedOnce'
<1> USE JobQueueAssumption DEF TypeOK, Busy, Handling
<1>a. \A t \in Slots : Busy(t) => slot[t].run \in Run
  BY DEF SlotInv
<1>1. CASE ReclaimExpiredLeases(s)
  <2>1. \A t \in Slots : Busy(t) => status'[slot[t].run] = status[slot[t].run]
    BY <1>1, <1>a, BusyRunsKeepTheirLease DEF ReclaimExpiredLeases
  <2>2. UNCHANGED <<slot, lease, applied>>
    BY <1>1 DEF ReclaimExpiredLeases
  <2>3. SlotInv'
    BY <2>1, <2>2 DEF SlotInv
  <2>4. AppliedOnce'
    BY <1>1, <2>2 DEF AppliedOnce, ReclaimExpiredLeases, Expired
  <2> QED
    BY <2>3, <2>4
<1>2. CASE Select(s)
  <2>1. PICK r \in Claimable :
          slot' = [slot EXCEPT ![s] = [at |-> "selected", run |-> r, busy |-> 0]]
    BY <1>2 DEF Select
  <2>2. r \in Run /\ status[r] = "pending" /\ ~RowLocked(r)
    BY DEF Claimable
  <2>3. \A t \in Slots : Busy(t) => slot[t].run # r
    BY <2>2 DEF RowLocked, SlotInv
  <2>4. UNCHANGED <<status, lease, applied>>
    BY <1>2 DEF Select, tableVars
  <2>5. \A t \in Slots : slot'[t] = IF t = s THEN [at |-> "selected", run |-> r, busy |-> 0]
                                             ELSE slot[t]
    BY <2>1
  <2>6. SlotInv'
    BY <2>2, <2>3, <2>4, <2>5 DEF SlotInv
  <2> QED
    BY <2>4, <2>6 DEF AppliedOnce
<1>3. CASE Claim(s)
  <2>1. PICK r \in Run : r = slot[s].run /\ slot[s].at = "selected" /\ status[r] = "pending"
    BY <1>3, <1>a DEF Claim, SlotInv
  <2>2. \A t \in Slots : slot'[t] = IF t = s THEN [slot[s] EXCEPT !.at = "handling"] ELSE slot[t]
    BY <1>3 DEF Claim
  <2>3. /\ slot'[s].at = "handling"
        /\ slot'[s].run = r
        /\ slot'[s].busy = slot[s].busy
        /\ slot[s].busy \in 0..MaxRun
    BY <2>1, <2>2 DEF SlotState
  <2>4. /\ \A q \in Run : status'[q] = IF q = r THEN "running" ELSE status[q]
        /\ \A q \in Run : lease'[q] = IF q = r THEN LeaseLeft(s) ELSE lease[q]
        /\ UNCHANGED applied
    BY <1>3, <2>1 DEF Claim
  <2>5. LeaseLeft(s) + slot[s].busy >= Lease + 1
    BY <2>3 DEF LeaseLeft, LeaseOutlivesRun
  <2>6. \A t \in Slots : Busy(t) /\ t # s => slot[t].run # r
    BY <2>1 DEF SlotInv
  <2>7. SlotInv'
    BY <2>2, <2>3, <2>4, <2>5, <2>6 DEF SlotInv
  <2>8. AppliedOnce'
    BY <2>1, <2>4 DEF AppliedOnce
  <2> QED
    BY <2>7, <2>8
<1>4. ASSUME NEW down \in {IdleSlot, [IdleSlot EXCEPT !.at = "down"]},
             slot' = [slot EXCEPT ![s] = down],
             \A t \in Slots : Busy(t) /\ t # s =>
                /\ status'[slot[t].run] = status[slot[t].run]
                /\ lease'[slot[t].run] = lease[slot[t].run]
      PROVE  SlotInv'
  <2>1. \A t \in Slots : slot'[t] = IF t = s THEN down ELSE slot[t]
    BY <1>4
  <2>2. down.at \in {"top", "down"}
    BY DEF IdleSlot
  <2> QED
    BY <1>4, <2>1, <2>2 DEF SlotInv
<1>5. CASE EndHandler(s) \/ Requeue(s)
  <2>1. PICK r \in Run : r = slot[s].run /\ status[r] = "running"
    BY <1>5, <1>a DEF EndHandler, Finish, Fail, CommitFails, Requeue, SlotInv
  <2>2. \A t \in Slots : Busy(t) /\ t # s => slot[t].run # r
    BY <1>5, <2>1 DEF EndHandler, Finish, Fail, CommitFails, Requeue, SlotInv
  <2>3. \A q \in Run : q # r =>
          status'[q] = status[q] /\ lease'[q] = lease[q] /\ applied'[q] = applied[q]
    BY <1>5, <2>1 DEF EndHandler, Finish, Fail, CommitFails, Requeue, tableVars
  <2>4. \E down \in {IdleSlot, [IdleSlot EXCEPT !.at = "down"]} :
          slot' = [slot EXCEPT ![s] = down]
    BY <1>5 DEF EndHandler, Finish, Fail, CommitFails, Requeue
  <2>5. SlotInv'
    BY <1>4, <1>a, <2>2, <2>3, <2>4
  <2>6. applied'[r] = IF status'[r] = "ok" THEN 1 ELSE 0
    BY <1>5, <2>1 DEF EndHandler, Finish, Fail, CommitFails, Requeue, tableVars, AppliedOnce
  <2> QED
    BY <2>3, <2>5, <2>6 DEF AppliedOnce
<1>6. CASE Cancel(s)
  <2>1. UNCHANGED <<status, lease, applied>>
    BY <1>6 DEF Cancel, tableVars
  <2>2. CASE slot[s].at = "handling" /\ status[slot[s].run] = "running"
    <3>1. \A t \in Slots : slot'[t] = IF t = s THEN [slot[s] EXCEPT !.at = "requeue"] ELSE slot[t]
      BY <1>6, <2>2 DEF Cancel
    <3>2. slot'[s].at = "requeue" /\ slot'[s].run = slot[s].run /\ slot'[s].busy = slot[s].busy
      BY <3>1 DEF SlotState
    <3> QED
      BY <2>1, <2>2, <3>1, <3>2 DEF SlotInv, AppliedOnce
  <2>3. CASE ~(slot[s].at = "handling" /\ status[slot[s].run] = "running")
    <3>1. slot' = [slot EXCEPT ![s] = [IdleSlot EXCEPT !.at = "down"]]
      BY <1>6, <2>3 DEF Cancel
    <3> QED
      BY <1>4, <2>1, <3>1 DEF AppliedOnce
  <2> QED
    BY <2>2, <2>3
<1>7. CASE Crash(s)
  BY <1>4, <1>7 DEF Crash, tableVars, AppliedOnce
<1>8. CASE Restart(s)
  BY <1>4, <1>8 DEF Restart, tableVars, AppliedOnce
<1> QED
  BY <1>1, <1>2, <1>3, <1>5, <1>6, <1>7, <1>8 DEF WorkerStep

LEMMA TickSlotInv ==
  ASSUME LeaseOutlivesRun, TypeOK, SlotInv, AppliedOnce, Tick
  PROVE  SlotInv' /\ AppliedOnce'
<1> USE JobQueueAssumption DEF TypeOK, Busy, Handling
<1>1. \A s \in Slots :
        /\ slot[s].busy \in 0..MaxRun
        /\ slot'[s].at = slot[s].at
        /\ slot'[s].run = slot[s].run
        /\ Busy(s) => slot'[s].busy = slot[s].busy + 1 /\ slot[s].busy < MaxRun
  BY DEF Tick, SlotState
<1>2. \A r \in Run : lease[r] \in 0..Lease + 1 /\ lease'[r] = IF lease[r] > 0 THEN lease[r] - 1 ELSE 0
  BY DEF Tick, OneLess
<1>3. UNCHANGED <<status, applied>>
  BY DEF Tick
<1>4. ASSUME NEW s \in Slots, Handling(s)
      PROVE  lease'[slot'[s].run] + slot'[s].busy >= Lease + 1
  <2>1. PICK r \in Run : r = slot[s].run
    BY <1>4 DEF SlotInv
  <2>2. lease[r] + slot[s].busy >= Lease + 1
    BY <1>4, <2>1 DEF SlotInv
  <2>3. slot'[s].busy = slot[s].busy + 1 /\ slot[s].busy < MaxRun /\ slot[s].busy \in 0..MaxRun
    BY <1>1, <1>4
  <2>4. lease[r] > 0
    BY <1>2, <2>2, <2>3 DEF LeaseOutlivesRun
  <2>5. lease'[r] = lease[r] - 1 /\ lease[r] \in 0..Lease + 1
    BY <1>2, <2>4
  <2> QED
    BY <1>1, <2>1, <2>2, <2>3, <2>5
<1>5. SlotInv'
  BY <1>1, <1>3, <1>4 DEF SlotInv
<1> QED
  BY <1>3, <1>5 DEF AppliedOnce
-----------------------------------------------------------------------------
LEMMA InitIInv == Init => IInv
<1> SUFFICES ASSUME Init PROVE IInv
  OBVIOUS
<1> USE JobQueueAssumption DEF Init, IdleCaller, IdleSlot
<1>1. \A p \in Projects : Active(p) = {}
  BY DEF Active, ActiveStatuses
<1>2. ActiveInv
  <2>1. \A p \in Projects : IsFiniteSet(Active(p)) /\ Cardinality(Active(p)) = 0
    BY <1>1, FS_EmptySet
  <2>2. NoDuplicateActive
    BY <1>1 DEF NoDuplicateActive
  <2> QED
    BY <2>1, <2>2, JobQueueAssumption DEF ActiveInv, CapacityRespected
<1> QED
  BY <1>2, InitTypeOK
  DEF IInv, LockInv, FreshInv, WantInv, SlotInv, AppliedOnce, InTxn, Busy, Handling

LEMMA NextIInv ==
  ASSUME LeaseOutlivesRun, IInv, [Next]_vars
  PROVE  IInv'
<1>1. ASSUME NEW c \in Callers, EnqueueStep(c) PROVE IInv'
  BY <1>1, EnqueueTypeOK, EnqueueLockInv, EnqueueActiveInv, EnqueueSlotInv DEF IInv
<1>2. ASSUME NEW s \in Slots, WorkerStep(s) PROVE IInv'
  <2>1. UNCHANGED caller
    BY <1>2 DEF WorkerStep, EndHandler, ReclaimExpiredLeases, Select, Claim, Finish, Fail,
                CommitFails, Cancel, Requeue, Crash, Restart, enqueueVars
  <2>2. TypeOK' /\ WantInv' /\ ActiveInv'
    BY <1>2, <2>1, WorkerTypeOK, ActiveOnlyShrinks, ShrinkKeepsInv DEF IInv
  <2> QED
    BY <1>2, <2>2, WorkerFreshInv, WorkerSlotInv DEF IInv
<1>3. CASE Tick
  <2>1. UNCHANGED <<status, caller, txns, queueLock>>
    BY <1>3 DEF Tick, enqueueVars
  <2>2. \A p \in Projects : Active(p)' \subseteq Active(p)
    BY <2>1 DEF Active
  <2>3. TypeOK' /\ WantInv' /\ ActiveInv'
    BY <1>3, <2>1, <2>2, TickTypeOK, ShrinkKeepsInv DEF IInv
  <2>4. LockInv' /\ FreshInv'
    BY <2>1 DEF IInv, LockInv, FreshInv, InTxn
  <2> QED
    BY <1>3, <2>3, <2>4, TickSlotInv DEF IInv
<1>4. CASE UNCHANGED vars
  BY <1>4 DEF vars, IInv, TypeOK, LockInv, FreshInv, WantInv, ActiveInv, SlotInv, AppliedOnce,
     CapacityRespected, NoDuplicateActive, Active, InTxn, Busy, Handling
<1> QED
  BY <1>1, <1>2, <1>3, <1>4 DEF Next

(* The inductive invariant holds throughout, for leases that outlive the   *)
(* longest run (worker.py:146-147; the timeouts of the remote calls).       *)
THEOREM QueueInductive == ASSUME LeaseOutlivesRun PROVE Spec => []IInv
<1>1. Init => IInv
  BY InitIInv
<1>2. IInv /\ [Next]_vars => IInv'
  BY NextIInv
<1> QED
  BY <1>1, <1>2, PTL DEF Spec

(* The tables and the sessions keep their types. *)
THEOREM QueueTypeCorrect == ASSUME LeaseOutlivesRun PROVE Spec => []TypeOK
<1>1. IInv => TypeOK
  BY DEF IInv
<1> QED
  BY <1>1, QueueInductive, PTL

(* The capacity of every project's queue is never exceeded, whatever       *)
(* requests, workers, shutdowns and crashes interleave (worker.py:71).     *)
THEOREM QueueCapacity == ASSUME LeaseOutlivesRun PROVE Spec => []CapacityRespected
<1>1. IInv => CapacityRespected
  BY DEF IInv, ActiveInv
<1> QED
  BY <1>1, QueueInductive, PTL

(* No reference ever has two active runs in a project (worker.py:56-69).   *)
THEOREM QueueDedup == ASSUME LeaseOutlivesRun PROVE Spec => []NoDuplicateActive
<1>1. IInv => NoDuplicateActive
  BY DEF IInv, ActiveInv
<1> QED
  BY <1>1, QueueInductive, PTL

(* Typed tables, capacity and no duplicates, together: what the run checks *)
(* on two requests and two slots, for any number of each.                  *)
THEOREM QueueSound == ASSUME LeaseOutlivesRun PROVE Spec => []QueueIsSound
<1>1. IInv => QueueIsSound
  BY DEF IInv, ActiveInv, QueueIsSound
<1> QED
  BY <1>1, QueueInductive, PTL

(* Neither a lost process nor a requeue commits a run's writes twice.      *)
THEOREM QueueAppliedOnce == ASSUME LeaseOutlivesRun PROVE Spec => []AppliedOnce
<1>1. IInv => AppliedOnce
  BY DEF IInv, SlotInv
<1> QED
  BY <1>1, QueueInductive, PTL

(* Two slots never run the same row, and a run's writes commit once.       *)
THEOREM QueueExclusive ==
  ASSUME LeaseOutlivesRun
  PROVE  Spec => [](ExclusiveExecution /\ AppliedOnce)
<1>1. IInv => ExclusiveExecution /\ AppliedOnce
  BY DEF IInv, SlotInv, ExclusiveExecution, Busy, Handling
<1> QED
  BY <1>1, QueueInductive, PTL

(* An ended run is never reopened and its outcome never overwritten.       *)
THEOREM QueueOutcomeIsFinal == ASSUME LeaseOutlivesRun PROVE Spec => OutcomeIsFinal
<1> DEFINE Final == \A r \in Run : status[r] \in {"ok", "error"} => status'[r] = status[r]
<1>1. IInv /\ [Next]_vars => [Final]_vars
  <2> SUFFICES ASSUME IInv, Next PROVE Final
    BY DEF vars
  <2>1. ASSUME NEW c \in Callers, EnqueueStep(c) PROVE Final
    BY <2>1, EnqueueKeepsRows DEF IInv
  <2>2. ASSUME NEW s \in Slots, WorkerStep(s) PROVE Final
    <3>1. \A t \in Slots : Busy(t) => status[slot[t].run] \in ActiveStatuses
      BY DEF IInv, SlotInv, Busy, Handling, ActiveStatuses
    <3> QED
      BY <2>2, <3>1 DEF WorkerStep, EndHandler, ReclaimExpiredLeases, Select, Claim, Finish, Fail,
         CommitFails, Cancel, Requeue, Crash, Restart, tableVars, Busy, Expired, ActiveStatuses,
         IInv, TypeOK
  <2>3. CASE Tick
    BY <2>3 DEF Tick
  <2> QED
    BY <2>1, <2>2, <2>3 DEF Next
<1>2. Spec => [][Final]_vars
  BY <1>1, QueueInductive, PTL DEF Spec
<1> QED
  BY <1>2 DEF OutcomeIsFinal
-----------------------------------------------------------------------------
(* What a committing enqueue adds is acceptable to the ledger. *)
LEMMA CommitIsAccept ==
  ASSUME IInv, IInv', NEW c \in Callers, CommitEnqueue(c), NewRuns(c) # {}
  PROVE  \E p \in Projects : \E new \in SUBSET {r \in Run : PhaseOf(r) = "absent"} :
            Ledger!Accept(p, new)
<1>1. PICK p \in Projects : p = caller[c].project /\ caller[c].at = "insert"
  BY DEF CommitEnqueue, IInv, LockInv
<1> DEFINE new == {r \in Run : r.txn = caller[c].txn /\ r.project = p /\ r.ref \in caller[c].want}
<1>2. new = NewRuns(c) /\ new # {}
  BY <1>1 DEF NewRuns
<1>3. \A r \in new : r \in Run /\ r.project = p /\ status[r] = "absent"
  BY <1>1 DEF IInv, FreshInv
<1>4. status' = [r \in Run |-> IF r \in new THEN "pending" ELSE status[r]]
  BY <1>2 DEF CommitEnqueue
<1>5. Ledger!Open(p) = Active(p)
  BY DEF Ledger!Open, Active, PhaseOf, ActiveStatuses, IInv, TypeOK, Statuses
<1>6. \A r \in new, q \in new \cup Active(p) : r.ref = q.ref /\ r.ref # NoRef => r = q
  <2>1. \A r \in new, q \in new : r.ref = q.ref => r = q
    BY DEF Run
  <2>2. \A r \in new, q \in Active(p) : r.ref = q.ref => r.ref = NoRef
    BY <1>1 DEF IInv, WantInv
  <2> QED
    BY <2>1, <2>2
<1>7. Cardinality(Active(p) \cup new) <= MaxActive
  <2>1. Active(p)' = Active(p) \cup new
    BY <1>3, <1>4 DEF Active, ActiveStatuses
  <2>2. Cardinality(Active(p)') <= MaxActive
    BY DEF IInv, ActiveInv, CapacityRespected
  <2> QED
    BY <2>1, <2>2
<1>8. [r \in Run |-> PhaseOf(r)]'
        = [r \in Run |-> IF r \in new THEN "open" ELSE [q \in Run |-> PhaseOf(q)][r]]
  BY <1>4 DEF PhaseOf, ActiveStatuses
<1>9. UNCHANGED applied
  BY DEF CommitEnqueue
<1>10. \A r \in new : r.project = p /\ [q \in Run |-> PhaseOf(q)][r] = "absent"
  BY <1>3 DEF PhaseOf, ActiveStatuses
<1>11. Ledger!Accept(p, new)
  <2> HIDE DEF new
  <2>1. /\ \A r \in new, q \in new \cup Ledger!Open(p) : r.ref = q.ref /\ r.ref # NoRef => r = q
        /\ Cardinality(Ledger!Open(p) \cup new) <= MaxActive
    BY <1>5, <1>6, <1>7
  <2>a. Ledger!Cardinality(Ledger!Open(p) \cup new) = Cardinality(Ledger!Open(p) \cup new)
    BY DEF Cardinality, Ledger!Cardinality
  <2> DEFINE phase == [q \in Run |-> PhaseOf(q)]
  <2>2. \A r \in new : r.project = p /\ phase[r] = "absent"
    BY <1>10
  <2>3. phase' = [r \in Run |-> IF r \in new THEN "open" ELSE phase[r]]
    BY <1>8
  <2>4. new # {} /\ UNCHANGED applied
    BY <1>2, <1>9
  <2> HIDE DEF phase
  <2> QED
    BY <2>a, <2>1, <2>2, <2>3, <2>4 DEF Ledger!Accept, phase
<1>12. new \in SUBSET {r \in Run : PhaseOf(r) = "absent"}
  BY <1>3 DEF PhaseOf, ActiveStatuses
<1> QED
  BY <1>11, <1>12

LEMMA QuietStep ==
  ASSUME IInv, \A r \in Run : PhaseOf(r)' = PhaseOf(r), UNCHANGED applied
  PROVE  UNCHANGED Ledger!ledgerVars
BY DEF Ledger!ledgerVars

LEMMA EndingStep ==
  ASSUME IInv, NEW s \in Slots, Finish(s) \/ Fail(s)
  PROVE  \E r \in Run, outcome \in {"ok", "error"} : Ledger!End(r, outcome)
<1>1. PICK r \in Run : r = slot[s].run /\ status[r] = "running"
  BY DEF IInv, SlotInv, Busy, Handling, Finish, Fail
<1>2. [q \in Run |-> PhaseOf(q)][r] = "open"
  BY <1>1 DEF PhaseOf, ActiveStatuses
<1>3. CASE Finish(s)
  <2>1. /\ \A q \in Run : status'[q] = IF q = r THEN "ok" ELSE status[q]
        /\ applied' = [applied EXCEPT ![r] = @ + 1]
    BY <1>1, <1>3 DEF Finish, IInv, TypeOK
  <2>2. [q \in Run |-> PhaseOf(q)]' = [[q \in Run |-> PhaseOf(q)] EXCEPT ![r] = "ok"]
    BY <2>1 DEF PhaseOf, ActiveStatuses
  <2>3. Ledger!End(r, "ok")
    BY <1>2, <2>1, <2>2 DEF Ledger!End
  <2> QED
    BY <2>3
<1>4. CASE Fail(s)
  <2>1. /\ \A q \in Run : status'[q] = IF q = r THEN "error" ELSE status[q]
        /\ applied' = [applied EXCEPT ![r] = @]
    BY <1>1, <1>4 DEF Fail, IInv, TypeOK
  <2>2. [q \in Run |-> PhaseOf(q)]' = [[q \in Run |-> PhaseOf(q)] EXCEPT ![r] = "error"]
    BY <2>1 DEF PhaseOf, ActiveStatuses
  <2>3. Ledger!End(r, "error")
    BY <1>2, <2>1, <2>2 DEF Ledger!End
  <2> QED
    BY <2>3
<1> QED
  BY <1>3, <1>4

(* Crashes, shutdowns, requeues and reclaimed leases are invisible to the  *)
(* queue's callers: every behaviour of the queue is one of the ledger, so  *)
(* an accepted run is done at most once and its batch was accepted whole.  *)
THEOREM QueueImplementsLedger ==
  ASSUME LeaseOutlivesRun
  PROVE  Spec => ImplementsLedger
<1>1. Init => Ledger!LedgerInit
  BY DEF Init, Ledger!LedgerInit, PhaseOf, ActiveStatuses
<1>2. IInv /\ IInv' /\ [Next]_vars => [Ledger!LedgerNext]_(Ledger!ledgerVars)
  <2> SUFFICES ASSUME IInv, IInv', [Next]_vars
               PROVE  [Ledger!LedgerNext]_(Ledger!ledgerVars)
    OBVIOUS
  <2> USE DEF IInv, TypeOK
  <2>1. ASSUME NEW c \in Callers, CommitEnqueue(c) PROVE [Ledger!LedgerNext]_(Ledger!ledgerVars)
    <3>1. CASE NewRuns(c) # {}
      BY <2>1, <3>1, CommitIsAccept DEF Ledger!LedgerNext
    <3>2. CASE NewRuns(c) = {}
      <4>1. \A r \in Run : PhaseOf(r)' = PhaseOf(r)
        BY <2>1, <3>2 DEF CommitEnqueue, PhaseOf
      <4> QED
        BY <2>1, <4>1, QuietStep DEF CommitEnqueue
    <3> QED
      BY <3>1, <3>2
  <2>2. ASSUME NEW c \in Callers, EnqueueStep(c), ~CommitEnqueue(c)
        PROVE  UNCHANGED Ledger!ledgerVars
    <3>1. UNCHANGED <<status, applied>>
      BY <2>2 DEF EnqueueStep, Begin, LockQueue, Dedup, Count, RollbackEnqueue, tableVars
    <3> QED
      BY <3>1, QuietStep DEF PhaseOf
  <2>3. ASSUME NEW s \in Slots, Finish(s) \/ Fail(s)
        PROVE  [Ledger!LedgerNext]_(Ledger!ledgerVars)
    BY <2>3, EndingStep DEF Ledger!LedgerNext
  <2>4. ASSUME NEW s \in Slots, WorkerStep(s), ~Finish(s), ~Fail(s)
        PROVE  UNCHANGED Ledger!ledgerVars
    <3>1. \A t \in Slots : Busy(t) => slot[t].run \in Run /\ status[slot[t].run] \in ActiveStatuses
      BY DEF SlotInv, Busy, Handling, ActiveStatuses
    <3>2. /\ UNCHANGED applied
          /\ \A r \in Run : \/ status'[r] = status[r]
                            \/ {status[r], status'[r]} \subseteq ActiveStatuses
      <4>1. CASE ReclaimExpiredLeases(s)
        BY <4>1 DEF ReclaimExpiredLeases, Expired, ActiveStatuses
      <4>2. CASE Claim(s) \/ Requeue(s)
        BY <3>1, <4>2 DEF Claim, Requeue, Busy, ActiveStatuses
      <4>3. CASE Select(s) \/ CommitFails(s) \/ Cancel(s) \/ Crash(s) \/ Restart(s)
        BY <4>3 DEF Select, CommitFails, Cancel, Crash, Restart, tableVars
      <4> QED
        BY <2>4, <4>1, <4>2, <4>3 DEF WorkerStep, EndHandler
    <3> QED
      BY <3>2, QuietStep DEF PhaseOf
  <2>5. CASE Tick
    BY <2>5, QuietStep DEF Tick, PhaseOf
  <2>6. CASE UNCHANGED vars
    BY <2>6, QuietStep DEF vars, PhaseOf
  <2> QED
    BY <2>1, <2>2, <2>3, <2>4, <2>5, <2>6 DEF Next
<1> QED
  BY <1>1, <1>2, QueueInductive, PTL DEF Spec, ImplementsLedger, Ledger!LedgerSpec
=============================================================================
