----------------------------- MODULE MCConnPool -----------------------------
(***************************************************************************)
(* A pool of two connections, three registrations, and one other request.  *)
(***************************************************************************)
EXTENDS ConnPool

CONSTANTS c1, c2, r1, r2, r3, q1

MCConns == {c1, c2}
MCRegistrations == {r1, r2, r3}
MCOthers == {q1}
=============================================================================
