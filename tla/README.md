# Venus Edge: a TLA+ verification

Venus Edge is an edge proxy and DNS server. One **master** holds the
configuration (DNS zones, TLS routes, HTTP routes), and **agents** on the edge
nodes hold copies of it as zone files, from which they serve DNS and proxy
traffic. The core of the program is how a change gets from the master's
management API into the zone files of every agent, through crashes, broken
streams and restarts. That core is modelled first; the certificates the master obtains,
the engines of an edge node, and the management API with its builders and its console
follow.

## Inventory

| part | source | state | operations | correct when |
|---|---|---|---|---|
| write-ahead log | `operator/replication/coordinator.go` (FileWAL) | segment files `wal.bin.N`, on master and agent | Append, AppendApplied, Since, Latest | a replay is the newest change of every key, indexes ascend without holes, whatever write failed |
| coordinator, master store | `coordinator.go`, `wal_manager.go`, `objectstore/localfs.go`, `replication_adapter.go` | stored contents, subscriber map, one channel per subscriber | Publish, broadcast, HandleSubscribe | store and log agree, a subscriber misses nothing, nobody sends on a closed channel |
| follower, agent | `follower.go`, `agent/agent.go`, `agent/cmd` | zone files, the agent's own WAL (the cursor) | Run, consume, Apply, SaveApplied | the cursor never passes a change that is not applied |
| gRPC transport | `client.go`, `server.go` | streams | Subscribe, Send, Recv | - |
| management API | `master/manage.go`, `query.go`, `render.go`, `replication_adapter.go` | the object store | GET and PUT of zones and routes | an object is servable, reads back as it is, and can be put back |
| master process | `master/master.go`, `master/cmd` | HTTP and gRPC servers, the errgroup | New, Start, signals | a signal or a failed server ends it, and a request being handled is answered first |
| ACME | `master/acme`, `acme_adapter.go` | requests, challenges, keys; HTTP and TLS zones | Present, Cleanup, issue | challenges come and go without touching other policies |
| DNS engine | `DNS/*.go` | the server, zone files opened per query | Listen, Stop, ServeDNS | the answer is what the closest zone says; forwards only what no zone has; ends when it is stopped |
| DNS builders | `DNS/builder` | - | build records, defaults of SOA and NS | what they refuse covers what the engine relies on; a record reads back as a payload that makes it again |
| ingress engine | `ingress/*.go` | listeners, zone files opened per connection | Listen, acceptOne, Handler | the most specific zone and policy wins; one connection cannot stop the others |
| ingress builders | `ingress/builder` | - | Build, From | what Build accepts can be served, and reads back as it is |
| web console | `operator/web` | one page per kind: items, hostname, dirty, loading, flushing | load, edit, flush | a flush takes nothing from what the page loaded and the user left alone but what the property names |

How they interact: the management API and ACME call `Coordinator.Publish`;
Publish stores the content, appends to the log and broadcasts to one channel per
subscriber, three steps under no common lock. Each agent's Follower calls
Subscribe over gRPC with its cursor; the handler replays the log and then
forwards the channel. The agent writes zone files, which the DNS and ingress
engines read on their own, and appends what it applied to its own FileWAL, whose
newest index is the cursor of the next subscription.

Hard behaviours: Publish interleaves with itself and with subscriptions; an
append renames one or two files and may stop in between; a subscription
replays first and registers later; channels are bounded; streams break and are
left open; the agent removes a zone file before it renames the new one, and dies
between applying and recording; the master's volume does not survive its pod. An
engine opens the candidate zones of a name one after the other while the agent
replaces them; the TLS engine reads what a client sends in its accept loop; servers
are stopped by goroutines that race with their start. A console reads a whole resource,
translates it four times on its way to the page and back, and puts it over what is stored,
with no version. The master's process ends its HTTP server by Shutdown with a clock and
its gRPC server by GracefulStop without one.
`PROJECT.json` lists each hazard at its line.

## Modules

| module | models | state and actions |
|---|---|---|
| `CompactedLog` | abstract specification of a WAL | `latest`, `top[k]` (newest change of a key); `Put`, and `Lose`, a key forgotten by a torn append |
| `FileWAL` | FileWAL with its segment files | `disk` are the files, `writer` the append under `FileWAL.mu`; `StartAppend` / `StartAppendApplied` compute in memory, `WriteSegment` is one rename, `AbandonAppend` a failed write or crash |
| `FileWALUsers` | FileWAL in the hands of the master or of an agent | `user`, which of the two the log belongs to; a step is that user's |
| `FileWALProofs` | theorems about FileWAL and FileWALUsers | - |
| `Coordinator` | master: Publish, HandleSubscribe, the process | one program counter per publisher goroutine (`writing`, `stored`, `logged`) and per handler goroutine (`replayed`, `running`, `exiting`), `store` with one object for all spellings of a name, the compacted log with one key for each spelling, `subscribers`, channels |
| `Follower` | agent: Run, consume, Apply, the process | `agent` (process with `current`, `recovering`), `cursor`, `zone` (one file for all spellings of a name); one action per verdict of consume, two for the remove and rename |
| `AcmeIssuing` | certificates of one hostname: HandleHTTPPublish, Present, Cleanup, installation, and the management API's PUTs | per order a goroutine with the copy of the route it has read; `zone`, `tls` the stored routes, `lock` is issueLock, `states` and `status` the files; one action per read, publish and file write, `Recognised`, `Solve` and `Finalize` for the CA, `FailPutHTTP`, `FailPutTLS`, `FailOrder`, `FailCleanup`, `Abandon` and `Crash` for the error paths, which may leave a route `Torn` |
| `AcmeProofs` | theorems about AcmeIssuing | - |
| `ZoneFiles` | the agent's writeAtomically and the search of the three engines | `files` per kind and name, `writer` the change between remove and rename, `walk` per client the search; `StartWalk`, `OpenZone` (one candidate), `OpenFails` |
| `EdgeRequests` | extends ZoneFiles by what is answered: DNS, HTTP, TLS | `ask`, `reply`; zone contents are records with their indexes, or policies; one action per way to answer |
| `EdgeListeners` | Listen and Stop of the three servers in the agent's process | `dns`, `http`, `tls` where each Listen is, `listener`, `held` the connection in the accept loop, `conn` where each connection is |
| `ZoneFilesProofs`, `EdgeRequestsProofs`, `EdgeListenersProofs` | theorems about them | - |
| `Texts` | names and other texts of the configuration | their labels, final dot, capitals, spaces; `Trim`, `Sanitize`, `Absolute` |
| `DNSBuilders` | JSON to zone file and back | `Builder` has one description per type of record; `Accepts`, `Build`, `PayloadOfRecord`, `Completed`, `WriteZone` |
| `IngressBuilders` | JSON to HTTP and TLS routes and back | `PolicyBuilder`, `BuildsPolicy`, `Policy`, `FromPolicy`, `PolicyPayload`; the same for TLS |
| `MasterServers` | Master.Start | `main`, `http`, `grpc`, `stopper` where each goroutine is, `cancelled` and `failed` the group's context, `conn` and `stream` the requests and subscriptions |
| `Management` | extends the four by the API's handlers, LocalFS, a page of the console and a script | `store`, `request`, `reply`, `page`; `HandleGet`, `RefusePut`, `StartStore`, `FinishStore`, `FailPut`, `FailStore`; `Load`, `Loaded`, `Flush`, `FlushOver`, edits |
| `ManagementProofs` | theorems about Management | - |
| `Replication` | composes Coordinator and Follower over `stream` | `Next` is a step of either; fairness; end-to-end properties |
| `ReplicationProofs` | theorems about Replication: store and log, the subscriber map | - |
| `DeliveryProofs` | theorems about Replication: types, and what is on the way to an agent and in its zone files | - |
| `MCFileWAL`, `MCReplication`, `MCAcmeIssuing`, `MCEdgeRequests`, `MCEdgeListeners`, `MCManagement` | TLC instances | - |

`Coordinator` uses the compacted log and not the segment files; run `wal_log`
shows that the files implement it, with the forgetting (`Tear`) that `FailPublish` and
`CrashMaster` repeat, and `ReplicationImplementsLog` that a master that keeps its volume
never asks more of it. An agent's WAL is represented by its newest index, which
is all Follower reads of it.

Ghost variables record what only properties use: `torn` (FileWAL), `content`
(what was published under an index), `raced` (objects two publishers stored and
logged at a time, under one spelling or two), `failed` (objects with a publish that stored and did not log),
`skipped` (per agent, the changes, each with its key, that a replay left out because the
content was unreadable), and in Coordinator `torn` too (keys the log has forgotten once); in
AcmeIssuing `certs` (certificates the CA gave), `overlapped` and `tlsOverlapped`
(edits put while an order held a copy), `stray` (orders whose challenge a fault or
a browser's PUT left behind), `abandoned` (an order returned early);
in ZoneFiles `gone` (zones that were not there at some moment of a search); in MasterServers
`timedOut` (Shutdown gave up), in Management `was` and `kept` (the stored item a draft was
loaded from and still shows) and `alone` (nobody else was writing the object).

Definitions whose name starts with `Bug` are mistakes a change to the code could
make. They are used by no specification; each is put in the place of the
definition after it to see that a property notices.

### Abstractions

- A key of the log is the pair of event type and hostname as it was spelled
  (`coordinator.go:273`). The object in the store and the zone file of an agent have the name
  in lower case without dots at its ends (`objectKey` in `master.go:127`, `targetPath` in
  `agent.go:106`), so spellings of one name are several keys over one object and one file. The
  constant `objectKey` gives each key its object, any function from `Key` to `Object`; the
  instances have two spellings of one name beside another name.
- A content is the number of the
  publish that made it, `Empty` for a file just created, `Mixed` for two writes
  over each other (which includes two writes of the same length, where the code
  might get away with either).
- The version check, the replay and the making of the channel are one step
  (`Replay`): the log may only grow between them, which changes neither outcome.
  The replay and the registration are two steps, as in the code.
- A stream is a queue of at most `Window` messages: gRPC's flow control. The last
  one stands for the message a blocked Send holds. When the connection breaks, what
  was in it may or may not arrive.
- A follower that leaves a stream after a gap does not cancel it, as in the code:
  the handler lives on until the agent's process ends.
- In AcmeIssuing a publish that succeeds is one step, and a route is the number of the edit its
  own policies come from and the set of challenges in it. One that fails, or that the end of
  the process meets, leaves the old route, the new one, or `Torn`: `LocalFS.Put` truncates the
  file before it writes (`localfs.go:23`), and what is left cannot be decoded. This holds for
  a PUT as for an order's publish (`CutHTTP`, `CutTLS`). Every read of a torn route fails as
  in the code: it is not taken for a missing one (`readHTTPRouteOrEmpty`), so an order gives up
  and only the next PUT brings the route back. The read of a route that a publish is
  just storing is a fault like any other failed read.
- lego and the CA are external: the
  CA may know the hostname (`Recognised`), fetch the challenge from an agent that has it
  or not yet and accept or refuse (`Solve`), and end the order (`Finalize`); account keys, EAB and expiry of certificates are left out.
  lego's http-01 challenge calls Cleanup whenever Present returned no error.
- AcmeIssuing has one hostname in one spelling. `issueLock` does not know a name with a final
  dot for the same name (`sanitizeKey`, `acme.go:129`), although the routes are the same objects: orders of
  two such spellings exclude each other as little as an order and a PUT do.
- In ZoneFiles a name is the sequence of its labels, so that "below" and "wildcard" are
  what they are in the code after its splitting at dots. Lower case is assumed and the
  root name left out. A file that is open stays as it was, since the agent replaces
  files and never writes into them; opening and reading are therefore one step. A file
  that cannot be decoded is `Bad`. A search opens each candidate in a step of its own.
  An agent that dies between remove and rename leaves what `RenameFails` leaves.
- Each client asks one question once (miekg/dns refuses messages with more than one). A
  path stands for all an HTTP policy looks at: pathname, query or header. `broken`
  is a policy that cannot be evaluated. The forwarder's upstream servers and the backend
  of a proxied request answer or do not.
- EdgeListeners takes a policy for any of those there may be, and connections for used
  once. net/http and miekg/dns are external: a server that is closed refuses to serve,
  one that is not serving refuses to shut down. The node has an address for each server.
- A text of the management API is its labels and three flags (final dot, capitals, spaces
  at an end); a URL or a PEM block is one label. Several leading or final dots, the name
  `.` and spaces around a type or a kind are left out, as is the decoding of JSON; a field
  that is left out is empty or 0, as Go reads it. A backend that is not blank is a URL.
- There is one kind of resource at a time and, per hostname, one object. What a PUT does
  after it has stored the object (log, broadcast, order) is the subject of Coordinator and
  AcmeIssuing; here a failure of it is one outcome of `FailStore`. `os.Create` and the write
  are two steps; two PUTs of one object at once may leave a mixture, `Torn`.
- In the page an edit replaces an item by any of `Drafts`, and the user may type, edit and
  change the hostname while a request is under way, as the page allows. The four
  fields a record has for its host names and the six for its numbers are two functions.
- In MasterServers net/http and grpc-go are external: Shutdown closes the listener, then
  waits; GracefulStop takes no new streams, then waits; Serve after either returns at once.
  A handler that is cut had neither finished nor answered when the process ended.
- Timestamps, `total`, cap'n proto and protobuf encoding, logging and the 300 ms
  retry pause are left out. `Snapshot` only reads.

## Runs

| run | instance | shows |
|---|---|---|
| `wal_log` | 2 keys, 2 items per file, 6 indexes; a master's log, and an agent's, whose indexes come from outside with gaps and repetitions | three segments: the old and the new item of a key fall in the same, in neighbouring and in distant files; type, one current item per key, ascending indexes, dense ones on a master, counters, replay, `lastAffectIndex`, nothing ever lost, refinement of CompactedLog |
| `wal_torn` | the same | violation: a torn append takes the key out of replay |
| `replication_faults` | 3 keys over 2 objects (two spellings of a name, and another name), 2 publishers, 1 agent, 2 calls, 2 publishes, 1 master fault, 1 kill of the agent | cursor and zone files, zone content, store and log, no regress, each per object |
| `replication_replaced` | 2 keys over 1 object, 1 publisher, 3 publishes, 1 fault, the master's pod may be replaced | types, registered channels are open, recovery comes in order before normal changes |
| `replication_live` | 1 key, 2 publishers, 2 publishes, 3 calls, no faults, fair | a subscription catches up with what the log had when it began |
| `replication_missed` | 1 publisher, 1 publish, fair | violation: a change broadcast before registration never arrives |
| `replication_slow` | 1 publisher, 3 publishes | violation: a channel closed twice |
| `acme_orders` | 2 orders, 2 HTTP edits, 1 TLS edit, 2 faults, fair | orders take back their challenges, keep the last edit, ask for one certificate, say how they ended, and end if the CA does not keep one waiting |
| `acme_edits` | the same without faults | violation: a route put between an order's read and publish is overwritten |
| `edge_lookup` | 1 client, names of 3 labels with their wildcards, 10 zone files, 3 changes | the closest zone is found, nothing a zone has is forwarded, answers are complete, closed routes stay closed |
| `edge_stop` | 2 connections, 1 query, fair | connections have an owner, ready engines run, a stopped node ends unless a named cause keeps it |
| `master_manage` | a page and a script, 2 spellings of one hostname, each kind of resource, 2 PUTs, 2 edits, 1 fault, 1 agent, fair | what is stored can be served and put back unchanged, a flush takes from what nobody touched no more than the property names, requests are not cut, the process ends unless an agent stays |

Every bound is a constant: `MaxIndex`, `MaxPublish`, `MaxFaults`, `MaxRestarts`,
`MaxEdits`, `MaxTLSEdits`, `MaxWrites`, `MaxPuts`.
Two names tell a change of the same object from one of another, and two spellings of one of them a change of the same
object from one of the same key; two publishers give
every reordering of two log entries and their broadcasts; a channel of capacity
backlog + 1 and a window of 1 are full after three publishes; one item per file
makes every second append of a key a two-file append. Two calls let an old
handler of an agent live beside its successor.
Publishers, calls and hostnames are interchangeable, which the runs without liveness use as symmetry.
`replication_faults`, the largest, uses it of calls only and has a constraint in place of the rest, `Renamed` in MCReplication: of the behaviours that
differ in which publisher or which of two like names comes first it keeps one.
Agents do not interact with one another other than by the bounds of the model,
so one agent stands for each of them; that two agents with the same pod IP and id
share a subscriber key shows in the two calls of one agent.

Orders of different hostnames share nothing, so AcmeIssuing has one hostname; two
orders give one under the lock and one that waits, two edits start both, and a PUT
with a challenge that a browser has read starts none. Two faults let a publish be cut short
and then an order, or a crash, meet the torn route.

Clients of the edge do not interact, so one is enough in `edge_lookup`. Three changes put two zones in
place, or replace one twice, while a search passes its three candidates; three labels
tell a wildcard one level up from one two levels up. The zone files of the instance
hold a wildcard record beside a record of its own, a policy behind a closed one, a
broken policy before an open one, each kind of TLS policy and files that cannot be
decoded. Two connections in `edge_stop` are one in the accept loop's hands and one behind it.

The payloads of `master_manage` use between them every builder, every default, both spellings
of a name, each of the three selectors of a policy and each way to be refused. Two PUTs of
the script and a flush give two writers of one object in either order; two edits give one
before and one during a flush. The state space is cut in two, in MCManagement: what is stored does
not depend on how the process ends, nor the end on what is stored, so one half has every
resource and edit in a process that stays up, the other TLS routes, no edits and at most
one PUT of the script in a process that starts, fails and is stopped at any moment. PUTs and
edits together are at most three (two for DNS, whose payloads are the largest). The
proofs have none of these bounds.

Deadlock is not checked: orders that have ended, a log that has reached its bound, or a master without
publishers and subscribers, rightly stops; so does a
master that has ended.

**Fairness** (`FairSpec`): weak fairness of every goroutine of a running process
(publisher after Put, handler, follower, order) and of the restart of a pod. Go's
scheduler and the kubelet give that. Starting a publish, failing, crashing and
killing are never required. gRPC delivers or breaks. Strong fairness is nowhere
assumed. In EdgeListeners the goroutines of the process run and queries are answered
(the forwarder has a timeout); of clients nothing is assumed, so neither `ReadSNI` nor
`Handshake` is fair: the code sets no deadline on them.

In AcmeIssuing the goroutines of the orders run (`OrderStep`), and of the CA nothing is assumed:
`CAStep`, what an order gets from it, has no fairness. Nothing in the code ends that wait, for
lego's client is `http.DefaultClient`, which has no timeout (`issuer.go:91-92`), and `Obtain` drops the
context of five minutes (`issuer.go:153`, `issue.go:75`). `OrdersEnd` therefore is conditional: if no order is at the CA
for ever (`AtCA`), every order that waits for the lock ends. A CA that keeps silent holds
`issueLock` for ever, and every later order of the hostname waits.

In MasterServers only the goroutines of Start are fair. Handlers and clients need not be, since
Shutdown waits five seconds at most, and agents need not leave.

`OnlySubscribersBlock` says that a master whose context has ended returns from Start, whichever
goroutine was where, unless a stream stays open for ever: GracefulStop has no clock, nothing in
HandleSubscribe looks at the process's context, and `signal.NotifyContext` has taken the
second signal, so that only SIGKILL remains. A restart of the master under agents that stay
connected takes that way.

`OnlySilentClientsBlock` says what that costs: a cancelled node ends, and a connection is
accepted or the node cancelled, unless a client keeps the accept loop waiting for ever, or
Stop came between `e.server = server` and the start of the DNS server. Both exceptions
are in the code (`engine_tls.go:127`, `DNS/dns.go:137`), and the property fails without them.

`CatchesUp` is what the code guarantees, `Converges` what the end-to-end test
`operator/tests/dns_test_operator.py` expects; the difference is the window between
lines 92 and 109 of `coordinator.go`.

## Proofs

`FileWALProofs` proves, for every set of keys, segment size and number of
indexes, that the master's log and an agent's log keep

    Inv == TypeOK /\ IndexesAscend /\ AtMostOneOntop /\ WriterInv

and from it the theorems `MasterTyping`, `MasterOneOntop`, `MasterAscends`,
`MasterWriter` and `AgentAscends`. The assumptions are the two ASSUMEs of
FileWAL: segment size and bound are positive numbers.

`IndexesAscend` and `AtMostOneOntop` are not inductive: an append computes files
in memory and stores them later, one by one. `WriterInv` says what is in memory
while it does: the files as they stand plus one newest item, older items of the
key overlaped, and the file with the new item last to be written, so that no
moment has two current items. `MarkedProperties` and `StartKeepsInv` establish it
when an append starts, `WriteKeepsInv` shows one rename keeps it. `SegmentOfMonotone`
and `SegmentIsInterval` carry the arithmetic of segment boundaries, `LatestIsNewest`
that the last item of the last file has the highest index.

The other properties of the log each add a conjunct to `Inv`:

- `DenseInv` says that a running append holds the number after the latest, hence
  `MasterDenseIndexes`. It is stated of the master only; an agent is given its indexes.
- `CountInv` says that also the files in memory are counted right, hence `MasterCounts` and
  `AgentCounts`. The counter is a cardinality, which the facts of FiniteSetTheorems carry
  from an item overlaped or appended to the sets of items on top.
- `TornInv` says that what is on top of a key is its newest change and that exactly the torn
  keys have a history with nothing on top, hence `MasterReplayComplete`.
- `LastInv` says what an append in memory remembers as the change before its own, hence
  `MasterLastAffect`.

`UserMasterDense` is `DenseInv` under `user = "master"`, the form in which the run with both
users checks it.

`MasterHistoryKept` is about steps and needs `Inv` alone. `MasterImplementsLog` and
`AgentImplementsLog` are the refinement of CompactedLog: `OntopAfterWrite` gives what a rename
does to the items on top (nothing to other keys; for its own it adds the new one or, when
the older item's file goes first, leaves none), so each step is a `Put`, a `Lose` or a stutter.

`ReplicationProofs` proves, for any agents, keys, publishers, calls and bounds, two
properties of the composition.
`ReplicationStoreMatchesLog` needs `OnePublisherPerObject` and `OwnContent`: an object that was never raced has, under all spellings of its name, at
most one publisher between Put and broadcast, and what the store holds is that one's. `ReplicationSubscribersLive` needs
`HandlersOpen`: a handler runs on an open stream, and its channel is not closed
before it is registered. Both go through every step of master and agents, as ends of the process
and cancelled calls are what breaks them.

`DeliveryProofs` proves the rest of what Replication promises as safety, again for any
instance. Its layers, each needing the ones before it:

- `InOrderProperties` and `SinceIsRecovery`: a replay is a sequence of messages with ascending
  indexes, one for each key changed after the version and readable, with the content of the
  store. `InOrder` lists a finite set by rank, so no recursion is needed, and
  FiniteSetTheorems carry the counting.
- `TypeInv` (`ReplicationTyping`). Types alone are not inductive: that the log is not longer than what was
  published needs `ContentsOnce`, by which no publish is logged twice and a change whose publisher is still at work is not logged yet;
  that a replay has an entry for a change needs `DistinctTops`; that an agent reads a stream
  it called needs `ReadersOwn`.
- `TiersInv` (`ReplicationTiersOrdered`). Of a call, `InFlight` is what its stream and channel hold. The
  lemma `NextMoves` reduces the actions to what a step may do to the two queues (`Moves`):
  start with a replay, append a broadcast, pass one on, drop the head, end. `Ordered` is then shown once per
  kind of move. It holds also where pods are replaced.
- `ContentInv` (`ReplicationNoStaleContent`). Whatever has an index (a message, a change an agent is
  applying, a zone file) is `Known`: no other key has the index, the log has nothing older on top of its key, and its content is not older than what was
  logged under the index. A zone file is `Known` under some spelling of its name.
  `StoreAhead` says that an object is ahead of what the log has under any of its spellings, except under races, so replays are `Known` too.
- `LostInv` (`ReplicationNoLostUpdate`). The property says nothing of what is under way; `Covered`
  does: of the stream an agent reads, every message of a replay comes after those of all newest changes up to it that
  the agent is still `Owed`. `ChangeInv` says that the change in hand is the next one the agent must have, `FileInv` that what a file ahead of its agent has passed the agent need not have (a change of one
  spelling is overtaken by a newer one of another), `CursorInv`
  that a reader's position is its cursor and a call not yet answered asks from there. The agents' steps
  are reduced in the same way (`Turns`: subscribe, receive, remove, rename, save, leave, die).
- `DeliveryInv` (`ReplicationNoRegress`) adds `AheadInv`: where a zone file is ahead of where its agent will be, after a kill
  between rename and SaveApplied, the stream the agent reads brings it there by a message of a replay before any older
  change of the object, unless the newer change is `Hidden`.

`ReplicationImplementsLog` is the refinement of CompactedLog by the master's log: every step puts one change, loses one key
(`Tears`) or stutters.

All but `ReplicationTyping` and `ReplicationTiersOrdered` assume `~CanReplace`, that the pod of the master
keeps its volume. The code does not guarantee that: the deployment uses an emptyDir. But a replaced
master numbers from 1 again, and then cursors, zone files and late messages belong to another
log; the three properties and the refinement are false and no code tries to keep them (the
run `replication_replaced` checks only what survives).
The other assumption is the ASSUME of Replication: bounds are numbers and `None` is no call.

`AcmeProofs` proves, for any orders and bounds,

    Inv == TypeOK /\ LockInv /\ ChallengesOwned /\ CopyInv /\ EditsKept
           /\ TLSEditsKept /\ CertificateInv /\ PendingHasOrder

and from it `AcmeTyping`, `AcmeChallenges`, `AcmeEdits`, `AcmeTLSEdits`,
`AcmeOneCertificate` and `AcmePending`, from the two ASSUMEs of AcmeIssuing: the
bounds are natural numbers, `None` is no order and `Torn` no route. The properties alone are not
inductive, as an order publishes what it read earlier. `LockInv` (only the holder
of issueLock is past it) makes the orders exclude each other, `CopyInv` says
what the copy of the one holder may contain: the last edit or one that overlapped,
and no challenge that is not its own or stray. `CertificateInv` counts: a certificate
too many is either installed or held by the one order that is about to install it, so no
order that is still solving has seen it. A torn TLS route has lost the certificate it had: the fault that
tore it pays for the next one. `CutHTTPLeaves` and `CutTLSLeaves` say what a publish cut short may leave: the copy of
the holder, which `CopyInv` knows, or a torn object. `TypeOK` includes that no https route without a
certificate is stored, which Install keeps because it brings one.

`ZoneFilesProofs` and `EdgeRequestsProofs` prove, for names of any length, any zone
contents and any number of clients and changes,

    Inv == TypeOK /\ FilesInv /\ ReplyKinds /\ AnswersComplete /\ RawRefused

and from it `EdgeTyping`, `EdgeClosest`, `EdgeNeverForwards`, `EdgeAnswersComplete` and
`EdgeRawRefused`. `CandidateResponsible` and `ResponsibleCandidate` say that the candidate
list of the code is the set of zones responsible for a name, as stated without it, and
`CloserIsEarlier` that its order is by closeness. `FilesInv` is about a
search under way: every candidate it has passed was gone at some moment, and so was every zone
that is not there now; what a file holds came from a change. `ClosestZone` is not inductive without that.
Answers then follow from one step each, because nothing changes what a
request saw once it is answered (`AnsweredStays`). `LookupIsRight` shows that the indexes
`setZoneIndexes` writes, and the wildcard rule of `recordMatchesName`, give the records stated without them
(`WildcardRecord`). Assumed are the ASSUMEs of the two modules: names are non-empty
sequences of labels, `Names` has all candidates of its members, and DNS zone files
are what `writeTo` makes.

`EdgeListenersProofs` proves `ListenersTyping`, `ListenersOwnConns` and `ListenersReady`
for any connections and queries. The three together are inductive: one is in the hands of the
accept loop exactly when `held` says so, and each step either moves it or leaves both alone.

`ManagementProofs` proves, for any hostnames, payloads, drafts, clients and number of
agents,

    Inv == ServersInv /\ RequestsInv /\ TogetherInv /\ PageInv /\ StoreInv /\ CountsInv

and from it `ManagementTyping`, `ManagementServable`, `ManagementPutBack`,
`ManagementNoCut` and `ManagementFlushKeeps`. Its first part is about data and has no state: a record that was built
reads back as a payload that is accepted and builds it again (`RecordRoundTrip`), so does a zone
with its defaults, whatever the time (`ZoneSound`), a route (`HTTPSound`) and a TLS route
(`TLSSound`), and each is servable; `ResourceSound` is the four in one. The state part says
that what can be decoded is such a thing: `StoreInv`, by which an object is `Made` of some
accepted payload, or torn as long as one client alone writes it. That is what makes the properties
inductive, with `TogetherInv` (of two writers of one object each knows of the other) for the
mixture they may leave. `ShutdownInOrder` says that connections are taken only before the stopper
begins and that nothing is being handled after Shutdown unless it gave up, which is
`NoRequestCut`'s strengthening.

`ManagementFlushKeeps` (the action property `FlushKeepsTheRest`) follows an item from the store to the
page and back. `RecordKept`, `PolicyKept` and `TLSKept` say what the whole way makes of one item of
each kind: JSON, the console's trimming and filtering, JSON, the builders. `WithoutSeq` is what they
need of the filter: it takes nothing out of a sequence in which nothing is empty, and the builders
have let nothing empty in. In the invariant the item is then followed step by step: a GET
answers what builders made (`IsAnswer` in `RequestsInv`), a draft that is marked as loaded shows its
stored item (`Shows` in `PageInv`), and the object a PUT request makes, whenever it is
written, has what the page kept (`KeepsLoaded` in `PutRequest`), as `ThroughConsole` says: without spaces, without fixed
contents, and as a TLS route with the page's hostname for hostname and SNI. A flush is sent only if every policy has a
backend, so no policy is stored without its only content. `FlushAnswered` says that the answer to
a PUT being stored comes from its own end only.

Assumed are the ASSUMEs of Texts, DNSBuilders and Management:
an address reads back from its text as itself and the text has no spaces around it,
scripts and users use payloads of the kind.

Only model-checked: every invariant and every safety action property of the runs that pass
is also proved; what is left to TLC is liveness. That
a subscription catches up (`CatchesUp`), orders end (`OrdersEnd`), nodes do (`OnlySilentClientsBlock`) and the master does
(`OnlySubscribersBlock`) needs fairness and ENABLED, which are out of the prover's reach. So is
induction over data: where the code filters a sequence, the models say which element comes n-th
instead of recursing over it (`Without`).

## Observations

What the models show beside the findings, and no doc contradicts:

- An agent can be taken back. It takes a kill between the rename of a zone file and SaveApplied, then a
  replay in which that key could not be read (or has been torn out of the log), and then the late broadcast of an older change of the
  key, which is above the cursor and is applied. TLC finds it with three publishes when `NoRegress` is stated
  without `Hidden`; the proof shows that there is no other way while the master keeps its volume.
- While a zone is replaced it is away for a moment, although the function that does it is
  called `writeAtomically`: a query may then be forwarded or denied, a request get 404, a TLS
  connection be closed. `NeverForwardsOwn` and `ClosestZone` are stated with `gone` for that reason.
  A rename over the old file would not need the remove.
- A name that no zone of the node is for, and no upstream server answers, is denied
  with the authoritative bit set; so is, with NXDOMAIN, a type that a name does not have.
- An ingress route is looked up with `r.Host` as it came, port included.
- When Accept fails for another reason than a closed listener, Listen returns and forgets
  the listener without closing it (`"orphan"`); the process ends soon after.
- The console loses fixed contents. What a GET answers of a policy has `fix_content` and no
  `use_fix_content` (`manage.go:73-81`), the console takes the switch for off (`http.ts:14`) and drops the content on
  the next flush (`http.ts:27`); a policy with only a fixed content, such as an ACME challenge, cannot be flushed at all until it is removed
  ("Backend URL is required when Fix Content is disabled."). It loses SNIs too: the TLS page shows and stores
  the page's hostname for the SNI and the name of whatever it has loaded (`tls.tsx:27`, `tls.tsx:54`).
  `ThroughConsole` states both losses, and `FlushKeepsTheRest` that there is no other.
- Spellings of a hostname, such as `Example.com` and `example.com`, are several keys of the log over one object. A PUT
  under one changes what the log's item of the other stands for, every replay delivers the object once per
  spelling, and a lost or unreadable change of one can hide behind the other's; the properties of Replication are
  stated per object for that reason, and `StoreMatchesLog` would be false per key, without any race or fault.
- A publish that is cut short leaves a route that cannot be read, and nothing repairs it but a new PUT: orders fail on it,
  and a check that meets it leaves the request file pending (`issue.go:85`).
- A CA that does not answer holds the lock of a hostname for ever (see Fairness).
- Edits made while a flush is under way count as flushed (`setDirty(false)` after the await),
  and a page that has loaded one hostname flushes to another as soon as that is typed. No version goes with a PUT: of two consoles the last
  one wins.
- The serial of a SOA record changes only where the record was left to its default: an
  explicit one stays as it is on every PUT, and since a GET answers the defaults as records, a zone that was once loaded
  in the console keeps its serial from then on.
- The server stores texts as they came, with spaces at their ends; the console trims them.
- An https connection handed over after the HTTP server was closed is never closed
  (`"lost"`); that needs a node that is being stopped.

## Plan

In this order:

1. (done) `FileWAL` with its refinement and proofs; `Coordinator`, `Follower`, `Replication`.
2. (done) `AcmeIssuing` with its proofs: orders as unlocked read-modify-write of
   routes that the management API writes too.
3. (done) `ZoneFiles`, `EdgeRequests` with their proofs: the search of the three engines
   under the agent's remove and rename, record and policy matching.
4. (done) `EdgeListeners` with its proofs: `Listen` and `Stop`, the TLS accept
   loop; `MasterServers`: `Master.Start` with GracefulStop against open streams.
5. (done) `Texts`, `DNSBuilders`, `IngressBuilders`, `Management` with their proofs: what
   `Build` accepts against what the engines rely on, and a resource's way to the console and back.
6. (done) `DeliveryProofs`: the end-to-end properties of Replication for every instance;
   `ManagementFlushKeeps`: the console's way there and back.

What is left: several pages of the console at once; rewriting of
proxied requests in the ingress engine.

## Not modelled

Generated code (cap'n proto, protobuf) and the wire format; GeoIP, which only sorts
answers; logging, flags, the health endpoints and the overview, which only read; the
console's layout and static files; the CA and lego, net/http, grpc-go and miekg/dns, which
are external; MinIO, which is a stub; `FileVersionStore` and `ReaderStore`, which no
program uses.
