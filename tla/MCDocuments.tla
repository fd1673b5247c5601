---------------------------- MODULE MCDocuments ----------------------------
(* A small instance of Documents: two names that differ in case only, a    *)
(* large and a small file.                                                 *)
EXTENDS Documents, TLC

Symmetric == Permutations(Sessions) \cup Permutations(Docs) \cup Permutations(Comps)

MCFold == [n \in Names |-> "plan"]
MCSize == [c \in Contents |-> IF c = "large" THEN 2 ELSE 1]
=============================================================================
