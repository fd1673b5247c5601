---------------------------- MODULE MCIncidents ----------------------------
(* Small instances of Incidents.                                           *)
EXTENDS Incidents, TLC

Symmetry == Permutations(Items) \cup Permutations(Owners) \cup Permutations(Hooks)
=============================================================================
