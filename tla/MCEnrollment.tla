---------------------------- MODULE MCEnrollment ---------------------------
(***************************************************************************)
(* Three requests at a time, for two nodes and two instances.              *)
(***************************************************************************)
EXTENDS Enrollment, TLC

Symmetry == Permutations(Nodes) \cup Permutations(Ids) \cup Permutations(Requests)
=============================================================================
