----------------------------- MODULE MCAcmeStore ----------------------------
(***************************************************************************)
(* AcmeStore with the host sets of a node that routes two hosts, one of    *)
(* which may not resolve or may be switched off.                           *)
(***************************************************************************)
EXTENDS AcmeStore

CONSTANTS a, b

SharedDirectory == {{a}, {a, b}}

=============================================================================
