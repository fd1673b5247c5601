----------------------------- MODULE RateLimit -----------------------------
(***************************************************************************)
(* The fixed-window limiter in the database (auth/rate_limit.py).  Every   *)
(* replica counts in the row of a key and a window by one statement, which *)
(* is committed at once whatever becomes of the request; the maintenance   *)
(* loop deletes rows older than the retention.                             *)
(***************************************************************************)
EXTENDS Naturals

CONSTANTS
    Keys,        \* (bucket, key_hash) pairs
    Window,      \* window_seconds
    Retention,   \* rate_limit_retention_seconds
    Limit,       \* attempts allowed in a window
    MaxNow       \* bound: the last moment explored

(* The settings bound neither by the other; their defaults, ten minutes    *)
(* and a day, have the window end before its row is deleted.               *)
ASSUME RateAssumption ==
    /\ Window \in Nat \ {0} /\ Retention \in Nat /\ Window <= Retention
    /\ Limit \in Nat \ {0} /\ MaxNow \in Nat

VARIABLES
    now,
    attempts,    \* per key and window start, the attempts of the row, 0 without one
    allowed      \* history: the requests let through

rateVars == <<now, attempts, allowed>>

Starts == {t \in 0..MaxNow : t % Window = 0}

RateInit ==
    /\ now = 0
    /\ attempts = [k \in Keys |-> [t \in Starts |-> 0]] /\ allowed = attempts

WindowStart == now - (now % Window)

Counted(f, ks) ==
    [k \in Keys |-> IF k \in ks THEN [f[k] EXCEPT ![WindowStart] = @ + 1] ELSE f[k]]

Admits(n) == n <= Limit

(* INSERT ... ON CONFLICT DO UPDATE ... RETURNING for each key; the        *)
(* request goes on when every key admits it.                               *)
Consume(ks, ok) ==
    /\ attempts' = Counted(attempts, ks)
    /\ ok = \A k \in ks : Admits(attempts'[k][WindowStart])
    /\ allowed' = IF ok THEN Counted(allowed, ks) ELSE allowed
    /\ UNCHANGED now

Expired(t) == t + Retention < now

Prune ==
    /\ attempts' = [k \in Keys |-> [t \in Starts |-> IF Expired(t) THEN 0 ELSE attempts[k][t]]]
    /\ UNCHANGED <<now, allowed>>

Tick == now < MaxNow /\ now' = now + 1 /\ UNCHANGED <<attempts, allowed>>

(* No window lets through more requests of a key than the limit, with any  *)
(* number of replicas counting and the rows being deleted meanwhile.       *)
AllowedWithinLimit == \A k \in Keys : \A t \in Starts : allowed[k][t] <= Limit
=============================================================================
