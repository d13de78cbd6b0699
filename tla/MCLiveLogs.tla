----------------------------- MODULE MCLiveLogs ----------------------------
(***************************************************************************)
(* LiveLogs with two instances and windows of two and three lines.         *)
(***************************************************************************)
EXTENDS LiveLogs
=============================================================================
