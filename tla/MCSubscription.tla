--------------------------- MODULE MCSubscription ---------------------------
(* A small instance of Subscription: a plan with a limit and one without.  *)
EXTENDS Subscription

MCLimit == [p \in {"free"} \cup PaidPlans |->
    [k \in Kinds |-> CASE p = "free" -> 1 [] p = "solo" -> 2 [] p = "studio" -> Unlimited]]

(* Bound: the second paid plan comes with one contract and two sessions.   *)
Small ==
    \/ "studio" \notin {mirror.plan} \cup {paddle[c].plan : c \in Contracts}
    \/ /\ Cardinality({c \in Contracts : paddle[c].status # "absent"}) = 1
       /\ Cardinality({s \in Sessions : sess[s] # Idle}) <= 2

BoundedSpec == Init /\ [][Next /\ Small']_vars /\ Fairness
=============================================================================
