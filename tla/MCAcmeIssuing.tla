--------------------------- MODULE MCAcmeIssuing ---------------------------
(***************************************************************************)
(* AcmeIssuing with two orders: one that holds the lock, one that waits.   *)
(***************************************************************************)
EXTENDS AcmeIssuing

CONSTANTS o1, o2

MCOrder == {o1, o2}

=============================================================================
