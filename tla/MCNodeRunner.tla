---------------------------- MODULE MCNodeRunner ---------------------------
(***************************************************************************)
(* Two control addresses, two tasks and two threads.                       *)
(***************************************************************************)
EXTENDS NodeRunner, TLC
=============================================================================
