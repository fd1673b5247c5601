----------------------------- MODULE MCPlanTree -----------------------------
(* A small instance of PlanTree: three tasks in at most two levels, dates  *)
(* at the start, in the gap of days 84 to 89, and in the first month       *)
(* after it.                                                               *)
EXTENDS PlanTree

Symmetric == Permutations(Sessions)

Dated(start, end, milestone) == [start |-> start, end |-> end, milestone |-> milestone]

NoDates == Dated(None, None, None)

MCEdits == {NoDates, Dated(3, 92, FALSE), Dated(86, None, TRUE)}

MCTaskOrder == <<1, 2, 3>>

MCMonthStart == <<0, 31, 59, 90, 120, 151>>

(* Bounds: three rows in all; tasks have dates only while there is no      *)
(* pending and no two sessions work on the plan.                           *)
Small ==
    /\ Cardinality(DOMAIN tasks) + Cardinality(DOMAIN pendings) <= 3
    /\ OnTask = {} \/ OnPending = {}
    /\ pendings # <<>> \/ Cardinality(OnTask) = 2 =>
          /\ \A s \in OnTask : sess[s].edit = NoDates
          /\ \A t \in DOMAIN tasks : tasks[t].start = None
    /\ pendings = <<>> \/ Cardinality(OnTask) < 2

BoundedSpec == PlanInit /\ [][PlanNext /\ Small']_planVars
=============================================================================
