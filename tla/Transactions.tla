---------------------------- MODULE Transactions ----------------------------
(***************************************************************************)
(* The database sessions that edit what belongs to one project, and what   *)
(* each has in hand between its reads and its commit (database.py).        *)
(***************************************************************************)
EXTENDS Null

CONSTANT Sessions

VARIABLE sess       \* the transaction of each session

(* A table is a function from the ids of its rows: one with one more row.  *)
With(table, id, row) == [x \in {id} \cup DOMAIN table |-> IF x = id THEN row ELSE table[x]]

Idle == [at |-> "idle"]

End(s) == sess' = [sess EXCEPT ![s] = Idle]
=============================================================================
