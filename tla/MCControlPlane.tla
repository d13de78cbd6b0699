--------------------------- MODULE MCControlPlane ---------------------------
(***************************************************************************)
(* ControlPlane on a small instance: overlapping REST requests and two     *)
(* sockets, a half-open one and its successor.                             *)
(***************************************************************************)
EXTENDS ControlPlane, TLC

\* Requests and connections are interchangeable: no definition tells two apart.
RequestsAndConnections == Permutations(Request) \cup Permutations(Conn)

=============================================================================
