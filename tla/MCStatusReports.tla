--------------------------- MODULE MCStatusReports --------------------------
(***************************************************************************)
(* StatusReports for TLC: the names the service may have.                  *)
(***************************************************************************)
EXTENDS StatusReports

CONSTANTS ssh, web

=============================================================================
