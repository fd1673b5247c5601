---------------------------- MODULE MCWorkspace ----------------------------
(* Two accounts; the first has an owner and a member.  Two requests run     *)
(* together, or three that concern the same matter.                         *)
EXTENDS Workspace, TLC

CONSTANTS o, mem, A, B, p1, p2, q1, s, i1, i2, t1

Permuted == Permutations(Requests)

MCAccountOf == o :> A @@ mem :> A
MCSlugOf == i1 :> s @@ i2 :> None

Granted(g1, g2) == [u \in Users |-> [p \in Projects |->
    IF u = mem /\ p = p1 THEN g1 ELSE IF u = mem /\ p = p2 THEN g2 ELSE "none"]]

(* A member of two projects, one with modules; a new account next to        *)
(* another; an account with a token, a Sentry slug and an unmatched issue.  *)
MCStarts ==
    {[home |-> p1 :> A @@ p2 :> A @@ q1 :> B, born |-> <<p1, q1, p2>>,
      grant |-> Granted("viewer", "editor"),
      modules |-> p1 :> Optional @@ p2 :> {} @@ q1 :> {},
      tokens |-> t1 :> None,
      sentry |-> p1 :> None @@ p2 :> None @@ q1 :> s,
      issues |-> i1 :> None @@ i2 :> None],
     [home |-> p1 :> A @@ p2 :> None @@ q1 :> B, born |-> <<q1, p1>>,
      grant |-> Granted("none", "none"),
      modules |-> p1 :> {} @@ p2 :> {} @@ q1 :> Optional,
      tokens |-> t1 :> None,
      sentry |-> p1 :> None @@ p2 :> None @@ q1 :> s,
      issues |-> i1 :> None @@ i2 :> None],
     [home |-> p1 :> A @@ p2 :> A @@ q1 :> B, born |-> <<q1, p1, p2>>,
      grant |-> Granted("editor", "viewer"),
      modules |-> p1 :> {"incidents"} @@ p2 :> {"threads"} @@ q1 :> {},
      tokens |-> t1 :> [project |-> p1, scope |-> "write", by |-> mem, revoked |-> FALSE],
      sentry |-> p1 :> s @@ p2 :> None @@ q1 :> None,
      issues |-> i1 :> [account |-> None, project |-> None] @@ i2 :> [account |-> A, project |-> None]]}

Matters == {{"grant"}, {"settings", "hook", "reattach"}}
Small == LET begun == Requests \ At("new")
         IN  Cardinality(begun) <= 2 \/ \E ops \in Matters : \A r \in begun : req[r].op \in ops
============================================================================
