----------------------------- MODULE Follower ------------------------------
(***************************************************************************)
(* The agent's side of replication (operator/replication/follower.go,      *)
(* operator/agent/agent.go): one loop per agent process that subscribes    *)
(* from its cursor, reads the stream, writes zone files and records how    *)
(* far it got.  zone and cursor are on disk and survive a restart of the   *)
(* process; cursor is the newest index of the agent's own FileWAL.         *)
(*                                                                         *)
(* stream is shared with module Coordinator: the gRPC streams.             *)
(***************************************************************************)
EXTENDS Integers, Sequences

CONSTANTS
    Key,           \* (event type, hostname as spelled), in the log
    Object,        \* of a zone file: (event type, name)
    objectKey,     \* targetPath: per key its file, named as in the master's store
    Agent,
    Call,          \* Subscribe calls that may exist at the same time
    MaxPublish,
    MaxRestarts    \* bound: kills of agent processes

VARIABLES
    agent,      \* per agent: the process
    cursor,     \* per agent: newest index in its WAL
    zone,       \* per agent and object: the zone file
    stream,     \* per call: what the two ends of the gRPC stream see
    restarts    \* agents killed so far

vars == <<agent, cursor, zone, stream, restarts>>

Empty == 0
Mixed == -1

Missing == [ver |-> 0, val |-> Empty]
ZoneFile == [ver : 1..MaxPublish, val : (-1..MaxPublish) \ {Empty}]
Envelope == [index : 1..MaxPublish, key : Key, val : -1..MaxPublish,
             tier : {"RECOVER", "NORMAL"}]

\* The process is down, between two subscriptions, reading a stream, or in the
\* middle of applying a change: its zone file is removed, or renamed into place.
Down == [pc |-> "down"]
Retrying == [pc |-> "retrying"]
Processes ==
    {Down, Retrying}
    \cup [pc : {"reading"}, call : Call, current : 0..MaxPublish, recovering : BOOLEAN]
    \cup [pc : {"removed", "renamed"}, call : Call, current : 0..MaxPublish,
          recovering : BOOLEAN, change : Envelope]

TypeOK ==
    /\ agent \in [Agent -> Processes]
    /\ cursor \in [Agent -> 0..MaxPublish]
    /\ zone \in [Agent -> [Object -> ZoneFile \cup {Missing}]]
    /\ restarts \in 0..MaxRestarts

Init ==
    /\ agent = [a \in Agent |-> Down]
    /\ cursor = [a \in Agent |-> 0]
    /\ zone = [a \in Agent |-> [o \in Object |-> Missing]]
    /\ restarts = 0

----------------------------------------------------------------------------

\* A process that ends takes all its streams with it, the ones it no longer
\* reads included.
Exit(a) ==
    /\ agent' = [agent EXCEPT ![a] = Down]
    /\ stream' = [c \in Call |->
            IF stream[c].status # "none" /\ stream[c].agent = a
            THEN [stream[c] EXCEPT !.alive = FALSE, !.msgs = <<>>]
            ELSE stream[c]]

\* The agent is started, or started again by its pod.
StartAgent(a) ==
    /\ agent[a] = Down
    /\ agent' = [agent EXCEPT ![a] = Retrying]
    /\ UNCHANGED <<cursor, zone, stream, restarts>>

\* Mistake: asks for what comes after the change it needs next.
BugSubscribeAfterNext(a, c) ==
    /\ agent[a] = Retrying
    /\ stream[c].status = "none"
    /\ stream' = [stream EXCEPT ![c] =
            [status |-> "called", agent |-> a, from |-> cursor[a] + 1, msgs |-> <<>>, alive |-> TRUE]]
    /\ agent' = [agent EXCEPT ![a] =
            [pc |-> "reading", call |-> c, current |-> cursor[a], recovering |-> TRUE]]
    /\ UNCHANGED <<cursor, zone, restarts>>

\* Run: Load the cursor and Subscribe from it.  (While the master is down the
\* call fails and Run sleeps and tries again.)
Subscribe(a, c) ==
    /\ agent[a] = Retrying
    /\ stream[c].status = "none"
    /\ stream' = [stream EXCEPT ![c] =
            [status |-> "called", agent |-> a, from |-> cursor[a], msgs |-> <<>>, alive |-> TRUE]]
    /\ agent' = [agent EXCEPT ![a] =
            [pc |-> "reading", call |-> c, current |-> cursor[a], recovering |-> TRUE]]
    /\ UNCHANGED <<cursor, zone, restarts>>

\* Mistake: takes whatever a NORMAL stream brings.
BugNoGapCheck(proc, m) ==
    CASE m.tier = "RECOVER" /\ ~proc.recovering -> "leave"
      [] m.index <= proc.current              -> "skip"
      [] m.val = Empty                        -> "fail"
      [] OTHER                                -> "apply"

\* Mistake: takes a change the cursor has already passed.
BugNoSkip(proc, m) ==
    CASE m.tier = "RECOVER" /\ ~proc.recovering           -> "leave"
      [] m.tier = "NORMAL" /\ m.index > proc.current + 1  -> "leave"
      [] m.val = Empty                                    -> "fail"
      [] OTHER                                            -> "apply"

\* Mistake: takes an envelope without content.
BugTakesEmpty(proc, m) ==
    CASE m.tier = "RECOVER" /\ ~proc.recovering           -> "leave"
      [] m.tier = "RECOVER" /\ m.index <= proc.current    -> "skip"
      [] m.tier = "NORMAL" /\ m.index < proc.current + 1  -> "skip"
      [] m.tier = "NORMAL" /\ m.index > proc.current + 1  -> "leave"
      [] OTHER                                            -> "apply"

\* consume: what is done with a message m.
Verdict(proc, m) ==
    CASE m.tier = "RECOVER" /\ ~proc.recovering           -> "leave"  \* ErrRecoverAfterNormal
      [] m.tier = "RECOVER" /\ m.index <= proc.current    -> "skip"
      [] m.tier = "NORMAL" /\ m.index < proc.current + 1  -> "skip"
      [] m.tier = "NORMAL" /\ m.index > proc.current + 1  -> "leave"  \* ErrVersionGap
      [] m.val = Empty                                    -> "fail"   \* bin is required
      [] OTHER                                            -> "apply"

HasMessage(a) == agent[a].pc = "reading" /\ stream[agent[a].call].msgs # <<>>
Message(a) == Head(stream[agent[a].call].msgs)
Receive(a) == stream' = [stream EXCEPT ![agent[a].call].msgs = Tail(@)]
StillRecovering(a) == agent[a].recovering /\ Message(a).tier = "RECOVER"

Skip(a) ==
    /\ HasMessage(a)
    /\ Verdict(agent[a], Message(a)) = "skip"
    /\ Receive(a)
    /\ agent' = [agent EXCEPT ![a].recovering = StillRecovering(a)]
    /\ UNCHANGED <<cursor, zone, restarts>>

\* Run subscribes anew and never looks at this stream again, nor cancels it.
Leave(a) ==
    /\ HasMessage(a)
    /\ Verdict(agent[a], Message(a)) = "leave"
    /\ Receive(a)
    /\ agent' = [agent EXCEPT ![a] = Retrying]
    /\ UNCHANGED <<cursor, zone, restarts>>

\* Apply refuses an empty content and Run returns its error: the process ends.
FailApply(a) ==
    /\ HasMessage(a)
    /\ Verdict(agent[a], Message(a)) = "fail"
    /\ Exit(a)
    /\ UNCHANGED <<cursor, zone, restarts>>

\* writeAtomically: the temporary file is written, the old zone file removed ...
RemoveZone(a) ==
    /\ HasMessage(a)
    /\ Verdict(agent[a], Message(a)) = "apply"
    /\ Receive(a)
    /\ agent' = [agent EXCEPT ![a] =
            [pc |-> "removed", call |-> @.call, current |-> @.current,
             recovering |-> StillRecovering(a), change |-> Message(a)]]
    /\ zone' = [zone EXCEPT ![a][objectKey[Message(a).key]] = Missing]
    /\ UNCHANGED <<cursor, restarts>>

\* ... and the temporary file renamed.
RenameZone(a) ==
    /\ agent[a].pc = "removed"
    /\ LET m == agent[a].change
       IN  zone' = [zone EXCEPT ![a][objectKey[m.key]] = [ver |-> m.index, val |-> m.val]]
    /\ agent' = [agent EXCEPT ![a].pc = "renamed"]
    /\ UNCHANGED <<cursor, stream, restarts>>

\* SaveApplied: the agent's WAL takes the index if it is new to it.
SaveApplied(a) ==
    /\ agent[a].pc = "renamed"
    /\ LET i == agent[a].change.index
       IN  /\ cursor' = [cursor EXCEPT ![a] = IF i <= @ THEN @ ELSE i]
           /\ agent' = [agent EXCEPT ![a] =
                [pc |-> "reading", call |-> @.call, current |-> i, recovering |-> @.recovering]]
    /\ UNCHANGED <<zone, stream, restarts>>

\* Recv fails.  At io.EOF, which comes after the last message, Run subscribes
\* anew.  A gRPC status error, ErrFutureVersion from the server included, is none
\* of the errors Run retries on: the process ends, and messages may be lost with
\* the connection.
StreamOver(a) ==
    /\ agent[a].pc = "reading"
    /\ LET s == stream[agent[a].call]
       IN  IF s.status = "eof"
           THEN /\ s.msgs = <<>>
                /\ agent' = [agent EXCEPT ![a] = Retrying]
                /\ UNCHANGED stream
           ELSE /\ s.status = "error"
                /\ Exit(a)
    /\ UNCHANGED <<cursor, zone, restarts>>

\* The process is killed, or a write of the zone file or of the WAL fails, which
\* ends it too.
KillAgent(a) ==
    /\ agent[a] # Down
    /\ restarts < MaxRestarts
    /\ restarts' = restarts + 1
    /\ Exit(a)
    /\ UNCHANGED <<cursor, zone>>

\* Nobody will look at the stream again: its place is free for another call.
Forget(c) ==
    /\ stream[c].status \in {"eof", "error"}
    /\ ~\E a \in Agent : agent[a].pc \in {"reading", "removed", "renamed"} /\ agent[a].call = c
    /\ stream' = [stream EXCEPT ![c] = [status |-> "none"]]
    /\ UNCHANGED <<agent, cursor, zone, restarts>>

AgentStep(a) ==
    \/ StartAgent(a)
    \/ \E c \in Call : Subscribe(a, c)
    \/ Skip(a)
    \/ Leave(a)
    \/ FailApply(a)
    \/ RemoveZone(a)
    \/ RenameZone(a)
    \/ SaveApplied(a)
    \/ StreamOver(a)

Next ==
    \/ \E a \in Agent : AgentStep(a) \/ KillAgent(a)
    \/ \E c \in Call : Forget(c)

=============================================================================
