-------------------------- MODULE MCItemLifecycle --------------------------
(* TLC instances of ItemLifecycle.  Items and sessions are interchangeable: *)
(* no definition names one, so their permutations are symmetries.           *)
EXTENDS ItemLifecycle, TLC

Symmetry == Permutations(Items) \cup Permutations(Sessions)
=============================================================================
