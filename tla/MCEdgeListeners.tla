-------------------------- MODULE MCEdgeListeners --------------------------
(***************************************************************************)
(* EdgeListeners with one query and two connections, so that one can keep  *)
(* the accept loop while the other waits.                                  *)
(***************************************************************************)
EXTENDS EdgeListeners

CONSTANTS c1, c2, q1

MCConn == {c1, c2}
MCQuery == {q1}

=============================================================================
