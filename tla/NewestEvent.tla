---------------------------- MODULE NewestEvent ----------------------------
(* What the mirror of a subscription promises about the events of Paddle,  *)
(* however they are repeated, delayed and reordered: the event it shows    *)
(* only ever gives way to a newer one (accounts/models.py:38-40).          *)
EXTENDS Naturals

CONSTANT Times   \* values of occurred_at, numbers above 0

VARIABLE shown   \* occurred_at of the event the mirror shows, 0 before the first

Init == shown = 0

Apply(t) == t > shown /\ shown' = t

Next == \E t \in Times : Apply(t)

Spec == Init /\ [][Next]_shown
=============================================================================
