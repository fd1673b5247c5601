------------------------------ MODULE Ranking ------------------------------
(***************************************************************************)
(* The sorts of the code, sorted() and list.sort(), by the place that each *)
(* member takes: as many come before it as the order puts there.           *)
(***************************************************************************)
EXTENDS Integers, FiniteSets

(* The members in order, from the set that comes before each.              *)
ByRank(before) ==
    [k \in 1..Cardinality(DOMAIN before) |->
        CHOOSE n \in DOMAIN before : Cardinality(before[n]) = k - 1]
=============================================================================
