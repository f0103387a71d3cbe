---------------------------- MODULE Replication ----------------------------
(***************************************************************************)
(* One master and its agents: module Coordinator and module Follower over  *)
(* the same gRPC streams.  What is promised end to end: an agent that says *)
(* it is at index n has the newest change up to n of every key.            *)
(***************************************************************************)
EXTENDS Integers, Sequences, FiniteSets

CONSTANTS
    Key, Object, objectKey, Publisher, Agent, Call, None, ItemsPerFile, SubscriberBuffer, Window,
    MaxPublish, MaxFaults, MaxRestarts, CanReplace

ASSUME ReplicationAssumption ==
    /\ ItemsPerFile \in Nat \ {0} /\ SubscriberBuffer \in Nat \ {0} /\ Window \in Nat \ {0}
    /\ MaxPublish \in Nat /\ MaxFaults \in Nat /\ MaxRestarts \in Nat
    /\ CanReplace \in BOOLEAN
    /\ None \notin Call
    /\ objectKey \in [Key -> Object]

VARIABLES
    up, publisher, store, latest, top, subscribers, handler,   \* Coordinator
    published, faults, content, raced, failed, torn, skipped,
    agent, cursor, zone, restarts,                             \* Follower
    stream                                                     \* both

M == INSTANCE Coordinator
F == INSTANCE Follower

masterVars == <<up, publisher, store, latest, top, subscribers, handler,
                published, faults, content, raced, failed, torn, skipped>>
agentVars == <<agent, cursor, zone, restarts>>
vars == <<masterVars, agentVars, stream>>

TypeOK == M!TypeOK /\ F!TypeOK

Init == M!Init /\ F!Init

MasterStep == M!Next /\ UNCHANGED agentVars
AgentStep == F!Next /\ UNCHANGED masterVars

Next == MasterStep \/ AgentStep

Spec == Init /\ [][Next]_vars

\* Go runs every goroutine and the kernel every process; pods are started again
\* when they end.  Nobody has to publish, and nothing has to fail.
Fairness ==
    /\ WF_vars(M!StartMaster /\ UNCHANGED agentVars)
    /\ \A p \in Publisher :
        WF_vars((M!WriteContent(p) \/ M!LogChange(p) \/ M!Broadcast(p)) /\ UNCHANGED agentVars)
    /\ \A c \in Call :
        /\ WF_vars((M!Replay(c, {}) \/ M!RejectFuture(c)) /\ UNCHANGED agentVars)
        /\ WF_vars((M!Register(c) \/ M!Send(c) \/ M!LeaveClosed(c)) /\ UNCHANGED agentVars)
        /\ WF_vars((M!LeaveCancelled(c) \/ M!Unregister(c) \/ M!PanicOnClose(c))
                   /\ UNCHANGED agentVars)
        /\ WF_vars(F!Forget(c) /\ UNCHANGED masterVars)
    /\ \A a \in Agent : WF_vars(F!AgentStep(a) /\ UNCHANGED masterVars)

FairSpec == Spec /\ Fairness

----------------------------------------------------------------------------
\* Properties.

\* The change of k is the newest one on top of those of its object.
IsNewest(k) == top[k] # 0 /\ \A h \in Key : objectKey[h] = objectKey[k] => top[h] <= top[k]

\* What an agent says it has, it has: the zone file of every object whose newest
\* change, under whatever spelling of the hostname, is not after the agent's cursor
\* holds that change.  Whatever was lost, reordered or broadcast before the agent
\* was registered, and wherever the process was killed, the cursor never passes a
\* change that is not applied; except a change left out of a replay because its
\* content was unreadable, and one of another spelling that the log has lost.
NoLostUpdate ==
    \A a \in Agent, k \in Key :
        (/\ IsNewest(k) /\ top[k] <= cursor[a] /\ <<k, top[k]>> \notin skipped[a]
         /\ \A h \in Key \ {k} : objectKey[h] = objectKey[k] => h \notin torn)
            => zone[a][objectKey[k]].ver = top[k]

\* A zone file never holds content older than the change it is said to be at,
\* unless two publishers raced on the object, be it under two spellings: a replay
\* may bring newer content under an older index, never older content under a newer
\* one.
NoStaleContent ==
    \A a \in Agent, o \in Object \ raced :
        (zone[a][o] # F!Missing /\ zone[a][o].ver <= latest)
            => zone[a][o].val >= content[zone[a][o].ver]

\* What a replay reads is what the log says: when nobody is publishing to an object,
\* the store has the content that the newest index of all its spellings was given,
\* unless publishers raced on the object or one failed between Put and Append.
StoreMatchesLog ==
    \A k \in Key :
        LET o == objectKey[k]
        IN  (IsNewest(k) /\ M!Busy(o) = {} /\ o \notin raced \cup failed)
                => store[o] = content[top[k]]

\* broadcast never sends on a closed channel: a registered subscriber belongs to
\* a handler of that agent that has not returned, and its channel is open.
SubscribersLive ==
    \A a \in Agent :
        LET c == subscribers[a]
        IN  c # None =>
                /\ handler[c].pc \in {"running", "exiting"}
                /\ ~handler[c].closed
                /\ stream[c].agent = a

\* A stream brings the recovery of the log in index order and then the changes
\* broadcast: a follower never has to answer with ErrRecoverAfterNormal.
TiersOrdered ==
    \A c \in Call : handler[c].pc = "running" =>
        LET sent == stream[c].msgs \o handler[c].chan
        IN  \A i, j \in DOMAIN sent :
                (i < j /\ sent[j].tier = "RECOVER") =>
                    sent[i].tier = "RECOVER" /\ sent[i].index < sent[j].index

\* A change of o not older than i that the log has lost, or that a replay for a
\* could not read.
Hidden(a, o, i) ==
    \E k \in Key :
        objectKey[k] = o /\ (k \in torn \/ \E j \in i..latest : <<k, j>> \in skipped[a])

\* No step takes an agent back: its cursor never falls, and it removes a zone file
\* only to put a change in its place that is at least as new, also across
\* restarts, broken streams and changes delivered twice or late.  (The exceptions
\* take a kill between rename and SaveApplied, and then a replay without the change
\* renamed and a late broadcast of an older one, or a replay that reads under
\* another spelling an older change that the one before could not read.)
NoRegress ==
    [][\A a \in Agent :
        /\ cursor'[a] >= cursor[a]
        /\ \A o \in Object :
            (zone[a][o] # F!Missing /\ zone'[a][o] = F!Missing) =>
                LET m == agent'[a].change
                IN  /\ objectKey[m.key] = o
                    /\ \/ m.index >= zone[a][o].ver
                       \/ Hidden(a, o, zone[a][o].ver)
                       \/ <<m.key, m.index>> \in skipped[a]]_vars

\* A subscription catches up: an agent that is about to subscribe will have every
\* change the log has now.
CatchesUp ==
    \A a \in Agent : \A n \in 1..MaxPublish :
        (agent[a] = F!Retrying /\ latest >= n) ~> cursor[a] >= n

\* A change that was published reaches every agent.
Converges ==
    \A a \in Agent : \A n \in 1..MaxPublish : (latest >= n) ~> (cursor[a] >= n)

\* A handler closes its own channel: nobody has closed it before.
ClosedOnce ==
    \A c \in Call : handler[c].pc = "exiting" => ~handler[c].closed

=============================================================================
