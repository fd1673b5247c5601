----------------------------- MODULE MCBacklog -----------------------------
(* A small instance of Backlog.  Threads, edits and relations meet only in *)
(* the items, so that each is explored with the items and without the      *)
(* other two.                                                              *)
EXTENDS Backlog

Permuted == Permutations(Sessions)

MCFunnel == <<"idea", "spec", "review", "done">>

MCChanges == {[priority |-> "p0"], [priority |-> None], [title |-> "b", impact |-> 1]}

Plain(i) == items[i] = [title |-> "a", priority |-> None, impact |-> None,
                        open |-> items[i].open, thread |-> items[i].thread]

Used == DOMAIN items \cup {sess[s].item : s \in At("create")}

Threading == threads # <<>>
Editing == At("edit") \cup At("create") # {} \/ \E i \in DOMAIN items : ~Plain(i)
Relating == rels # {} \/ At("relate") # {} \/ Cardinality(DOMAIN items) = 3

(* Bounds: one item with threads, two with edits, three with relations.  *)
Small ==
    /\ ~(Threading /\ Relating) /\ ~(Editing /\ Relating)
    /\ Threading /\ Editing => Cardinality(At("create")) = 1 /\ At("edit") = {}
          /\ \A i \in DOMAIN items : Plain(i)
    /\ Threading => Used \subseteq {1}
    /\ \A t \in excused.funnel : artifacts[t] = <<>>
    /\ At("edit") # {} \/ excused.receipt # {} => Used = {1}
    /\ Editing => Used \subseteq {1, 2}
    /\ Relating => Cardinality(rels) + Cardinality(At("relate")) <= 3
                   /\ \A i \in DOMAIN items : items[i].open
=============================================================================
