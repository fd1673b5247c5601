----------------------------- MODULE WorkOrder -----------------------------
(***************************************************************************)
(* The order in which a list of items is to be worked on (items/graph.py,  *)
(* topological_order, and the ordering of items/service.py): Kahn's        *)
(* algorithm over what `blocks` and `requires` say of the listed items.    *)
(***************************************************************************)
EXTENDS Ranking, SequencesExt

Arc(a, b, relation) == [source |-> a, target |-> b, relation |-> relation]

(* Mutant of Before: `requires` is read like `blocks`. *)
BeforeAsWritten(arcs, nodes) ==
    {<<r.source, r.target>> : r \in {x \in arcs : x.relation \in {"blocks", "requires"}}}
        \cap (nodes \X nodes)

(* What must come before what, among the nodes. *)
Before(arcs, nodes) ==
    ({<<r.source, r.target>> : r \in {x \in arcs : x.relation = "blocks"}}
     \cup {<<r.target, r.source>> : r \in {x \in arcs : x.relation = "requires"}})
        \cap (nodes \X nodes)

(* Descending impact, then id. *)
Sooner(a, b, impact) == impact[a] > impact[b] \/ (impact[a] = impact[b] /\ a < b)

Sorted(nodes, impact) ==
    ByRank([n \in nodes |-> {m \in nodes : Sooner(m, n, impact)}])

(* One node after another whose predecessors are all in the order already; *)
(* what a cycle holds back comes last.                                     *)
TopologicalOrder(nodes, arcs, impact) ==
    LET before == Before(arcs, nodes)
        Ready(order) == {n \in nodes \ Range(order) :
            \A p \in before : p[2] = n => p[1] \in Range(order)}
        kahn[k \in 0..Cardinality(nodes)] ==
            IF k = 0 THEN <<>>
            ELSE LET order == kahn[k - 1] IN
                 IF Ready(order) = {} THEN order
                 ELSE Append(order, Sorted(Ready(order), impact)[1])
        done == kahn[Cardinality(nodes)]
        leftover == nodes \ Range(done)
    IN [order |-> done \o Sorted(leftover, impact), cycle |-> leftover]

(* What comes, directly or not, after one of the nodes. *)
After(starts, before, nodes) ==
    LET reach[k \in 0..Cardinality(nodes)] ==
            IF k = 0 THEN {p[2] : p \in {x \in before : x[1] \in starts}}
            ELSE reach[k - 1] \cup {p[2] : p \in {x \in before : x[1] \in reach[k - 1]}}
    IN reach[Cardinality(nodes)]
=============================================================================
