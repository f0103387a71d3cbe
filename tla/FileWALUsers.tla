---------------------------- MODULE FileWALUsers ----------------------------
(***************************************************************************)
(* FileWAL is one type with two users, which differ in the index they      *)
(* append: a log is a master's or an agent's for good.                     *)
(***************************************************************************)
EXTENDS FileWAL

VARIABLE user   \* whose log it is

UserInit == Init /\ user \in {"master", "agent"}

UserNext ==
    /\ \/ user = "master" /\ MasterNext
       \/ user = "agent" /\ AgentNext
    /\ UNCHANGED user

UserSpec == UserInit /\ [][UserNext]_<<vars, user>>

\* No append of a master, whatever failed before it, skips an index: a follower at
\* index n takes only n + 1 from a NORMAL stream and would stop at a hole for ever.
\* (An agent's log has holes, where its replays had none of the overlaped changes.)
MasterDense == user = "master" => DenseIndexes

=============================================================================
