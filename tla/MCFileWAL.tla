----------------------------- MODULE MCFileWAL -----------------------------
(***************************************************************************)
(* FileWAL on two keys, two items per file and three segment files: every  *)
(* pair of segments can hold the old and the new change of a key.  One run *)
(* has the log of a master and that of an agent.                           *)
(***************************************************************************)
EXTENDS FileWALUsers

CONSTANTS dnsApp, tlsApp

MCKey == {dnsApp, tlsApp}

MCMasterSpec == UserInit /\ user = "master" /\ [][UserNext]_<<vars, user>>

=============================================================================
