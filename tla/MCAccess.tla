------------------------------ MODULE MCAccess ------------------------------
(***************************************************************************)
(* A client and a trusted proxy for model checking Access.                 *)
(***************************************************************************)
EXTENDS Access

CONSTANTS c1, proxy

\* Absent, and one whose last entry is the proxy's own, after one that does not parse.
MCForwardedFor == {<<>>, <<c1, NoClient, proxy>>}
=============================================================================
