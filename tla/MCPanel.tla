------------------------------ MODULE MCPanel ------------------------------
(***************************************************************************)
(* Panel with two changes of the record and lists that overtake another.   *)
(***************************************************************************)
EXTENDS Panel
=============================================================================
