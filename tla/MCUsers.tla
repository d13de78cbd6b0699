------------------------------ MODULE MCUsers -------------------------------
(***************************************************************************)
(* Users with three ids, two spellings of one name and another name, and   *)
(* two requests in progress.                                               *)
(***************************************************************************)
EXTENDS Users, TLC

CONSTANTS ana, ANA, bob

LowerCase == ana :> ana @@ ANA :> ana @@ bob :> bob

Requests == Permutations(Request)

=============================================================================
