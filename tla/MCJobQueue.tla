----------------------------- MODULE MCJobQueue -----------------------------
(* TLC instances of JobQueue: the sets of the configurations MCJobQueue*.cfg *)
EXTENDS JobQueue
=============================================================================
