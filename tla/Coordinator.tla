---------------------------- MODULE Coordinator ----------------------------
(***************************************************************************)
(* The master's side of replication (operator/replication/coordinator.go,  *)
(* wal_manager.go, operator/master/objectstore/localfs.go): publishers,    *)
(* one goroutine each, store a change, log it and broadcast it, with no    *)
(* lock over the three; one handler goroutine per Subscribe call replays   *)
(* the log and then forwards what is broadcast.                            *)
(*                                                                         *)
(* The log is the compacted log that FileWAL implements, by hostname as it *)
(* was spelled; the store has one object for all spellings of a name.      *)
(* Contents are the numbers of the publishes that made them, in the order  *)
(* in which those started.                                                 *)
(*                                                                         *)
(* stream is shared with module Follower: the gRPC streams.                *)
(***************************************************************************)
EXTENDS Integers, Sequences, FiniteSets

CONSTANTS
    Key,                \* (event type, hostname as spelled), in the log
    Object,             \* of the store: (event type, name)
    objectKey,          \* per key its object: lower case, no dots at the ends
    Publisher,          \* goroutines that may publish at the same time
    Agent,              \* subscriberKey: pod IP and agent id
    Call,               \* Subscribe calls that may exist at the same time
    ItemsPerFile,       \* of the WAL: which appends need two renames
    SubscriberBuffer,   \* subscriberBuffer, 32 in the code
    Window,             \* messages the transport takes before Send blocks
    MaxPublish,         \* bound: publishes started
    MaxFaults,          \* bound: failed writes and reads and ends of the master
    CanReplace,         \* may the master's pod be replaced, its volume lost?
    None                \* no call

VARIABLES
    up,           \* the master process runs
    publisher,    \* per publisher: what it is doing
    store,        \* per object: the stored content
    latest, top,  \* the log (CompactedLog)
    subscribers,  \* Coordinator.subscribers: agent -> call, or None
    handler,      \* per call: the goroutine in HandleSubscribe
    stream,       \* per call: what the two ends of the gRPC stream see
    published,    \* publishes started, faults that happened
    faults,
    content,      \* ghost: the content published under each index
    raced,        \* ghost: objects two publishers stored and logged at a time
    failed,       \* ghost: objects with a publish that stored and did not log
    torn,         \* ghost: keys the log has lost, at some time, by such a publish
    skipped       \* ghost, per agent: changes a replay left out, unreadable

vars == <<up, publisher, store, latest, top, subscribers, handler, stream,
          published, faults, content, raced, failed, torn, skipped>>

\* Contents: nothing (a file just created), a mixture of two writes, a publish.
Empty == 0
Mixed == -1
Content == -1..MaxPublish
Index == 1..MaxPublish

Envelope == [index : Index, key : Key, val : Content, tier : {"RECOVER", "NORMAL"}]

Done == [pc |-> "idle"]
NotRunning == [pc |-> "none"]

\* chan is subscriber.ch with its capacity; result is what HandleSubscribe
\* will return: nil, which the client sees as the end of the stream, or an error.
Handlers ==
    [pc : {"replayed", "running", "exiting"}, chan : Seq(Envelope), cap : Nat,
     closed : BOOLEAN, result : {"eof", "error"}]

\* A stream is called by the client, open once the handler runs, and then ended
\* by the server; alive is FALSE when the client's process or connection is gone.
NoStream == [status |-> "none"]
Streams ==
    [status : {"called", "open", "eof", "error"}, agent : Agent, from : 0..MaxPublish,
     msgs : Seq(Envelope), alive : BOOLEAN]

TypeOK ==
    /\ up \in BOOLEAN
    /\ publisher \in [Publisher -> {Done} \cup
            [pc : {"writing", "stored"}, key : Key, val : Index] \cup
            [pc : {"logged"}, key : Key, val : Index, index : Index]]
    /\ store \in [Object -> Content]
    /\ latest \in 0..MaxPublish
    /\ top \in [Key -> 0..MaxPublish]
    /\ subscribers \in [Agent -> Call \cup {None}]
    /\ handler \in [Call -> Handlers \cup {NotRunning}]
    /\ stream \in [Call -> Streams \cup {NoStream}]
    /\ published \in 0..MaxPublish /\ faults \in 0..MaxFaults
    /\ content \in [1..latest -> Index]
    /\ raced \subseteq Object /\ failed \subseteq Object /\ torn \subseteq Key
    /\ skipped \in [Agent -> SUBSET (Key \X Index)]

Init ==
    /\ up = TRUE
    /\ publisher = [p \in Publisher |-> Done]
    /\ store = [o \in Object |-> Empty]
    /\ latest = 0
    /\ top = [k \in Key |-> 0]
    /\ subscribers = [a \in Agent |-> None]
    /\ handler = [c \in Call |-> NotRunning]
    /\ stream = [c \in Call |-> NoStream]
    /\ published = 0 /\ faults = 0
    /\ content = <<>>
    /\ raced = {} /\ failed = {} /\ torn = {}
    /\ skipped = [a \in Agent |-> {}]

----------------------------------------------------------------------------
\* Publish: WALManager.Publish, then broadcast.

\* The publishers at work on an object, under whatever spelling.
Busy(o) ==
    {p \in Publisher : publisher[p].pc \in {"writing", "stored"} /\ objectKey[publisher[p].key] = o}

logVars == <<latest, top, content>>
subVars == <<subscribers, handler, stream>>
ghosts == <<raced, failed, torn, skipped>>

\* LocalFS.Put creates the file, which empties it ...
StartPublish(p, k) ==
    /\ up
    /\ publisher[p] = Done
    /\ published < MaxPublish
    /\ published' = published + 1
    /\ publisher' = [publisher EXCEPT ![p] = [pc |-> "writing", key |-> k, val |-> published + 1]]
    /\ store' = [store EXCEPT ![objectKey[k]] = Empty]
    /\ raced' = IF Busy(objectKey[k]) = {} THEN raced ELSE raced \cup {objectKey[k]}
    /\ UNCHANGED <<up, logVars, subVars, faults, failed, torn, skipped>>

\* ... and writes it.  A write over what another Put has written meanwhile may
\* leave the end of the longer one.
WriteContent(p) ==
    /\ publisher[p].pc = "writing"
    /\ LET o == objectKey[publisher[p].key]
       IN  \E v \in {publisher[p].val} \cup (IF store[o] = Empty THEN {} ELSE {Mixed}) :
                store' = [store EXCEPT ![o] = v]
    /\ publisher' = [publisher EXCEPT ![p].pc = "stored"]
    /\ UNCHANGED <<up, logVars, subVars, published, faults, ghosts>>

\* Mistake: appends before the content is stored.
BugLogFirst(p) ==
    /\ publisher[p].pc = "writing"
    /\ LET k == publisher[p].key
           v == publisher[p].val
       IN  /\ latest' = latest + 1
           /\ top' = [top EXCEPT ![k] = latest + 1]
           /\ content' = Append(content, v)
           /\ publisher' = [publisher EXCEPT
                    ![p] = [pc |-> "logged", key |-> k, val |-> v, index |-> latest + 1]]
    /\ UNCHANGED <<up, store, subVars, published, faults, ghosts>>

\* FileWAL.Append.
LogChange(p) ==
    /\ publisher[p].pc = "stored"
    /\ LET k == publisher[p].key
           v == publisher[p].val
       IN  /\ latest' = latest + 1
           /\ top' = [top EXCEPT ![k] = latest + 1]
           /\ content' = Append(content, v)
           /\ publisher' = [publisher EXCEPT
                    ![p] = [pc |-> "logged", key |-> k, val |-> v, index |-> latest + 1]]
    /\ UNCHANGED <<up, store, subVars, published, faults, ghosts>>

\* The Put or the Append fails and Publish returns the error.  An append that
\* rewrites two segment files may fail between them: the log has lost the key.
SegmentOf(i) == ((i - 1) \div ItemsPerFile) + 1
Tear(k) ==
    /\ top[k] # 0 /\ SegmentOf(top[k]) # SegmentOf(latest + 1)
    /\ top' = [top EXCEPT ![k] = 0]
    /\ torn' = torn \cup {k}

FailPublish(p) ==
    /\ publisher[p].pc \in {"writing", "stored"}
    /\ faults < MaxFaults
    /\ faults' = faults + 1
    /\ failed' = failed \cup {objectKey[publisher[p].key]}
    /\ \/ UNCHANGED <<top, torn>>
       \/ publisher[p].pc = "stored" /\ Tear(publisher[p].key)
    /\ publisher' = [publisher EXCEPT ![p] = Done]
    /\ UNCHANGED <<up, store, latest, content, subVars, published, raced, skipped>>

\* broadcast, under Coordinator.mu: a subscriber whose channel is full is closed
\* and dropped.
IsFull(h) == Len(h.chan) >= h.cap

Broadcast(p) ==
    /\ publisher[p].pc = "logged"
    /\ LET msg  == [index |-> publisher[p].index, key |-> publisher[p].key,
                    val |-> publisher[p].val, tier |-> "NORMAL"]
           subs == {c \in Call : \E a \in Agent : subscribers[a] = c}
       IN  /\ handler' = [c \in Call |->
                    IF c \notin subs THEN handler[c]
                    ELSE IF IsFull(handler[c]) THEN [handler[c] EXCEPT !.closed = TRUE]
                    ELSE [handler[c] EXCEPT !.chan = Append(@, msg)]]
           /\ subscribers' = [a \in Agent |->
                    IF subscribers[a] \in subs /\ IsFull(handler[subscribers[a]])
                    THEN None ELSE subscribers[a]]
    /\ publisher' = [publisher EXCEPT ![p] = Done]
    /\ UNCHANGED <<up, store, logVars, stream, published, faults, ghosts>>

----------------------------------------------------------------------------
\* HandleSubscribe.

\* A finite set of numbers in ascending order: the n-th is the one that n of them
\* do not exceed.
InOrder(S) ==
    [n \in 1..Cardinality(S) |-> CHOOSE i \in S : Cardinality({j \in S : j <= i}) = n]

\* The changes on top after version v, of the keys that can be read.
OntopAfter(v, unreadable) == {top[k] : k \in {h \in Key \ unreadable : top[h] > v}}

\* WalkSegments reads a change on top and the content the store has now.
Recovered(i) ==
    LET k == CHOOSE h \in Key : top[h] = i
    IN  [index |-> i, key |-> k, val |-> store[objectKey[k]], tier |-> "RECOVER"]

\* Mistake: newest first.
BugSinceNewestFirst(v, unreadable) ==
    LET indexes == InOrder(OntopAfter(v, unreadable))
    IN  [n \in DOMAIN indexes |-> Recovered(indexes[Len(indexes) + 1 - n])]

\* Mistake: stamps the newest index of the log on every envelope.
BugSinceStampsLatest(v, unreadable) ==
    LET indexes == InOrder(OntopAfter(v, unreadable))
    IN  [n \in DOMAIN indexes |-> [Recovered(indexes[n]) EXCEPT !.index = latest]]

\* FileWAL.Since: the changes on top after version v, oldest first; keys that
\* cannot be read are left out.
Since(v, unreadable) ==
    LET indexes == InOrder(OntopAfter(v, unreadable))
    IN  [n \in DOMAIN indexes |-> Recovered(indexes[n])]

\* Version check (Latest), replay (Since) and channel.  The log may grow between
\* the two reads, which changes neither the check nor what is replayed.
Replay(c, unreadable) ==
    /\ up
    /\ stream[c].status = "called"
    /\ stream[c].from <= latest
    /\ \A k \in unreadable : top[k] > stream[c].from
    /\ unreadable = {} \/ faults < MaxFaults
    /\ faults' = IF unreadable = {} THEN faults ELSE faults + 1
    /\ LET backlog == Since(stream[c].from, unreadable)
       IN  handler' = [handler EXCEPT ![c] =
                [pc |-> "replayed", chan |-> backlog, cap |-> Len(backlog) + SubscriberBuffer,
                 closed |-> FALSE, result |-> "error"]]
    /\ stream' = [stream EXCEPT ![c].status = "open"]
    /\ skipped' = [skipped EXCEPT ![stream[c].agent] =
            @ \cup {<<k, top[k]>> : k \in {h \in unreadable : top[h] > stream[c].from}}]
    /\ UNCHANGED <<up, publisher, store, logVars, subscribers, published, raced, failed, torn>>

\* ErrFutureVersion: the subscriber has seen more than this log.
RejectFuture(c) ==
    /\ up
    /\ stream[c].status = "called"
    /\ stream[c].from > latest
    /\ stream' = [stream EXCEPT ![c].status = "error"]
    /\ UNCHANGED <<up, publisher, store, logVars, subscribers, handler, published, faults,
                   ghosts>>

Register(c) ==
    /\ handler[c].pc = "replayed"
    /\ subscribers' = [subscribers EXCEPT ![stream[c].agent] = c]
    /\ handler' = [handler EXCEPT ![c].pc = "running"]
    /\ UNCHANGED <<up, publisher, store, logVars, stream, published, faults, ghosts>>

\* The last message of a full window is the one stream.Send is blocked on.
CanSend(c) == Len(stream[c].msgs) < Window

Send(c) ==
    /\ handler[c].pc = "running"
    /\ handler[c].chan # <<>>
    /\ stream[c].alive /\ CanSend(c)
    /\ stream' = [stream EXCEPT ![c].msgs = Append(@, Head(handler[c].chan))]
    /\ handler' = [handler EXCEPT ![c].chan = Tail(@)]
    /\ UNCHANGED <<up, publisher, store, logVars, subscribers, published, faults, ghosts>>

\* A closed and drained channel ends the stream normally.
LeaveClosed(c) ==
    /\ handler[c].pc = "running"
    /\ handler[c].closed /\ handler[c].chan = <<>>
    /\ CanSend(c)
    /\ handler' = [handler EXCEPT ![c].pc = "exiting", ![c].result = "eof"]
    /\ UNCHANGED <<up, publisher, store, logVars, subscribers, stream, published, faults,
                   ghosts>>

\* ctx.Done, or Send fails: the client is gone.
LeaveCancelled(c) ==
    /\ handler[c].pc = "running"
    /\ ~stream[c].alive
    /\ handler' = [handler EXCEPT ![c].pc = "exiting", ![c].result = "error"]
    /\ UNCHANGED <<up, publisher, store, logVars, subscribers, stream, published, faults,
                   ghosts>>

\* Mistake: closes and does not unregister.
BugUnregisterForgets(c) ==
    /\ handler[c].pc = "exiting"
    /\ ~handler[c].closed
    /\ stream' = [stream EXCEPT ![c].status = handler[c].result]
    /\ handler' = [handler EXCEPT ![c] = NotRunning]
    /\ UNCHANGED <<up, publisher, store, logVars, subscribers, published, faults, ghosts>>

\* The deferred function unregisters by the subscriber's key and closes the
\* channel.
Unregister(c) ==
    /\ handler[c].pc = "exiting"
    /\ ~handler[c].closed
    /\ subscribers' = [subscribers EXCEPT ![stream[c].agent] = None]
    /\ stream' = [stream EXCEPT ![c].status = handler[c].result]
    /\ handler' = [handler EXCEPT ![c] = NotRunning]
    /\ UNCHANGED <<up, publisher, store, logVars, published, faults, ghosts>>

----------------------------------------------------------------------------
\* The process.

\* Everything in memory is gone and every stream breaks.
Die ==
    /\ up' = FALSE
    /\ publisher' = [p \in Publisher |-> Done]
    /\ failed' = failed \cup {o \in Object : Busy(o) # {}}
    /\ subscribers' = [a \in Agent |-> None]
    /\ handler' = [c \in Call |-> NotRunning]
    /\ stream' = [c \in Call |-> IF stream[c].status \in {"called", "open"}
                                 THEN [stream[c] EXCEPT !.status = "error"]
                                 ELSE stream[c]]

\* The channel was closed by broadcast: closing it again panics.
PanicOnClose(c) ==
    /\ handler[c].pc = "exiting"
    /\ handler[c].closed
    /\ Die
    /\ UNCHANGED <<store, logVars, published, faults, raced, torn, skipped>>

\* A crash may also fall between the two renames of a running append.
CrashMaster ==
    /\ up
    /\ faults < MaxFaults
    /\ faults' = faults + 1
    /\ Die
    /\ \/ UNCHANGED <<top, torn>>
       \/ \E p \in Publisher : publisher[p].pc = "stored" /\ Tear(publisher[p].key)
    /\ UNCHANGED <<store, latest, content, published, raced, skipped>>

\* The pod is replaced.  Its volume is an emptyDir: store and log start anew.
ReplaceMaster ==
    /\ CanReplace
    /\ up
    /\ faults < MaxFaults
    /\ faults' = faults + 1
    /\ Die
    /\ store' = [o \in Object |-> Empty]
    /\ latest' = 0
    /\ top' = [k \in Key |-> 0]
    /\ content' = <<>>
    /\ UNCHANGED <<published, raced, torn, skipped>>

StartMaster ==
    /\ ~up
    /\ up' = TRUE
    /\ UNCHANGED <<publisher, store, logVars, subVars, published, faults, ghosts>>

PublisherStep(p) ==
    \/ \E k \in Key : StartPublish(p, k)
    \/ WriteContent(p)
    \/ LogChange(p)
    \/ FailPublish(p)
    \/ Broadcast(p)

HandlerStep(c) ==
    \/ \E unreadable \in SUBSET Key : Replay(c, unreadable)
    \/ RejectFuture(c)
    \/ Register(c)
    \/ Send(c)
    \/ LeaveClosed(c)
    \/ LeaveCancelled(c)
    \/ Unregister(c)
    \/ PanicOnClose(c)

Next ==
    \/ \E p \in Publisher : PublisherStep(p)
    \/ \E c \in Call : HandlerStep(c)
    \/ CrashMaster
    \/ ReplaceMaster
    \/ StartMaster

=============================================================================
