-------------------------------- MODULE Null --------------------------------
(* What the tables of a project hold where there is nothing. *)

CONSTANT None   \* no row, no value
=============================================================================
