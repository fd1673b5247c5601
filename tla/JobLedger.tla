------------------------------ MODULE JobLedger ------------------------------
(***************************************************************************)
(* What the job queue promises its callers: an accepted run ends once, as  *)
(* 'ok' with its effects applied or as 'error' without them, and at every  *)
(* moment a project's open runs are distinct and within the capacity.      *)
(* Claims, leases, requeues and crashes are invisible here.                *)
(***************************************************************************)
EXTENDS Integers, FiniteSets

CONSTANTS Run, Projects, NoRef, MaxActive

VARIABLES phase,    \* "absent", "open", "ok" or "error", for each run
          effects   \* times the writes of the run's handler were applied

ledgerVars == <<phase, effects>>

Open(p) == {r \in Run : r.project = p /\ phase[r] = "open"}

LedgerInit ==
    /\ phase = [r \in Run |-> "absent"]
    /\ effects = [r \in Run |-> 0]

Accept(p, new) ==
    /\ new # {}
    /\ \A r \in new : r.project = p /\ phase[r] = "absent"
    /\ \A r \in new, q \in new \cup Open(p) : r.ref = q.ref /\ r.ref # NoRef => r = q
    /\ Cardinality(Open(p) \cup new) <= MaxActive
    /\ phase' = [r \in Run |-> IF r \in new THEN "open" ELSE phase[r]]
    /\ UNCHANGED effects

End(r, outcome) ==
    /\ phase[r] = "open"
    /\ phase' = [phase EXCEPT ![r] = outcome]
    /\ effects' = [effects EXCEPT ![r] = IF outcome = "ok" THEN @ + 1 ELSE @]

LedgerNext ==
    \/ \E p \in Projects, new \in SUBSET {r \in Run : phase[r] = "absent"} : Accept(p, new)
    \/ \E r \in Run, outcome \in {"ok", "error"} : End(r, outcome)

LedgerSpec == LedgerInit /\ [][LedgerNext]_ledgerVars
=============================================================================
