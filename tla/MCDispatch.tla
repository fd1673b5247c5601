---------------------------- MODULE MCDispatch ----------------------------
(* Two projects, a request of each or two of one, and a row or two a table. *)
EXTENDS Dispatch, TLC
CONSTANTS r1, r2, p, q, i1, i2, t1, t2, s1, s2, d1, n1, k1

MCKindOf == (i1 :> "item") @@ (i2 :> "item") @@ (t1 :> "thread") @@ (t2 :> "thread")
            @@ (s1 :> "issue") @@ (s2 :> "issue") @@ (d1 :> "document")
            @@ (n1 :> "pending") @@ (k1 :> "task")
MCPresent == (i1 :> p) @@ (t1 :> p) @@ (s1 :> p) @@ (s2 :> None) @@ (n1 :> p) @@ (k1 :> p)
MCTokensOf == (r1 :> {p}) @@ (r2 :> {p, q})
MCSwitches == {<<p, "threads">>}
MCBatchSize == (r1 :> 2) @@ (r2 :> 1)
===========================================================================
