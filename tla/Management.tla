----------------------------- MODULE Management -----------------------------
(***************************************************************************)
(* The management API of the master (operator/master/manage.go) over one   *)
(* kind of resource, its store (objectstore/localfs.go), and two clients:  *)
(* a page of the web console (operator/web/src), which loads a resource,   *)
(* edits it and puts it back, and a script, which only puts.               *)
(*                                                                         *)
(* What a resource is made of is modules DNSBuilders and IngressBuilders,  *)
(* the process and its end MasterServers.  A PUT of an HTTP route also     *)
(* starts an order: module AcmeIssuing.                                    *)
(***************************************************************************)
EXTENDS DNSBuilders, IngressBuilders, MasterServers, FiniteSets

CONSTANTS
    Page, Script,       \* the two clients
    Hostnames,          \* as clients spell them
    Times,              \* seconds since 1970, in which serials are counted
    Kinds,              \* of resources: subset of {"dns", "http", "tls"}
    ScriptPayloads,     \* per kind: what the script puts
    Drafts,             \* per kind: items a user makes in the page
    Absent,             \* no object
    Torn,               \* an object that cannot be decoded
    None,               \* no item
    MaxPuts,            \* bound: PUTs of the script
    MaxEdits,           \* bound: edits in the page
    MaxFaults           \* bound: failed writes

ASSUME ManagementAssumption ==
    /\ Client = {Page, Script} /\ Page # Script
    /\ Hostnames \subseteq Text
    /\ Times \subseteq Nat \ {0}
    /\ Kinds \subseteq {"dns", "http", "tls"}
    /\ MaxPuts \in Nat /\ MaxEdits \in Nat /\ MaxFaults \in Nat

\* The payloads of a resource, and its items in the page.
PayloadOfKind == [dns |-> Seq(Payloads), http |-> Seq(PolicyFields), tls |-> TLSFields]
ItemOfKind == [dns |-> Payloads, http |-> PolicyFields, tls |-> TLSFields]

ASSUME PayloadAssumption ==
    \A k \in Kinds :
        /\ ScriptPayloads[k] \subseteq PayloadOfKind[k]
        /\ Drafts[k] \subseteq [item : ItemOfKind[k], use : BOOLEAN, was : {None}]

VARIABLES
    kind,       \* of the resource
    store,      \* per hostname, by its key: the object
    request,    \* per client
    reply,      \* per client
    page,       \* the page of the console
    puts, edits, faults

vars == <<serverVars, kind, store, request, reply, page, puts, edits, faults>>

----------------------------------------------------------------------------
\* A resource of each kind.

Accepted(hostname, payload) ==
    CASE kind = "dns" -> AcceptsZone(payload)
      [] kind = "http" -> AcceptsHTTP(payload)
      [] kind = "tls" -> AcceptsTLS(hostname, payload)

\* The object a PUT makes of its payload.
Made(hostname, now, payload) ==
    CASE kind = "dns" -> ZoneOf(hostname, now, payload)
      [] kind = "http" -> HTTPRoute(hostname, payload)
      [] kind = "tls" -> TLSRoute(hostname, TLSBuilder(hostname, payload))

\* The payload a GET makes of the object.
Answer(object) ==
    CASE kind = "dns" -> PayloadOf(object)
      [] kind = "http" -> HTTPPayload(object)
      [] kind = "tls" -> FromTLS(object)

\* The items of an object, in the order of their payloads.
Items(object) ==
    CASE kind = "dns" -> object.records
      [] kind = "http" -> object.policies
      [] kind = "tls" -> <<object>>

----------------------------------------------------------------------------
\* State.

\* objectKey: spellings of one name share an object.
Key(hostname) == Sanitize(Trim(hostname))
Keys == {Key(h) : h \in Hostnames}

Decodable(k) == store[k] \notin {Absent, Torn}

\* A request has a method, a hostname and, if it is a PUT, a payload; alone, whether nobody
\* else was writing the object; and kept, a ghost: the stored items that the page has loaded
\* and the user not touched.
NoRequest == [method |-> "none"]
NoReply == [status |-> 0]

\* The clients whose PUT is being written to k.
Storing(k) == {c \in Client : conn[c] = "storing" /\ Key(request[c].hostname) = k}

\* A draft has the item as the user sees it; use, the switch between a backend and a fixed
\* content; and was, a ghost: the stored item it was loaded from and still shows.
TypeOK ==
    /\ ServersTyped
    /\ kind \in Kinds
    /\ DOMAIN store = Keys
    /\ \A k \in Keys : Storing(k) # {} /\ (\A c \in Storing(k) : request[c].alone) => store[k] = Torn
    /\ \A c \in Client :
        /\ conn[c] = "idle" <=> request[c] = NoRequest
        /\ reply[c] # NoReply <=> conn[c] = "answered"
        /\ conn[c] = "storing" => request[c].method = "PUT"
    /\ page.hostname \in Hostnames
    /\ page.busy \in {"none", "loading", "flushing"} /\ page.dirty \in BOOLEAN
    /\ page.busy = "none" <=> request[Page] = NoRequest
    /\ page.busy = "flushing" => request[Page].method = "PUT"
    /\ kind = "tls" => Len(page.items) = 1
    /\ puts \in 0..MaxPuts /\ edits \in 0..MaxEdits /\ faults \in 0..MaxFaults

\* The first draft of the TLS page; the other pages begin empty.
NewTLS == [sni |-> Empty, cert |-> Empty, key |-> Empty, kind |-> "https", host |-> Empty, port |-> 0]

Init ==
    /\ ServersInit
    /\ kind \in Kinds
    /\ store = [k \in Keys |-> Absent]
    /\ request = [c \in Client |-> NoRequest]
    /\ reply = [c \in Client |-> NoReply]
    /\ page \in [hostname : Hostnames, dirty : {FALSE}, busy : {"none"},
                 items : {IF kind = "tls" THEN <<[item |-> NewTLS, use |-> FALSE, was |-> None]>> ELSE <<>>}]
    /\ puts = 0 /\ edits = 0 /\ faults = 0

apiVars == <<kind, store, request, reply>>
pageVars == <<page, edits>>

----------------------------------------------------------------------------
\* Requests.

\* Without a listener there is nobody to connect to.
Send(c, r) ==
    /\ conn' = [conn EXCEPT ![c] = IF http = "serving" THEN "sent" ELSE "refused"]
    /\ request' = [request EXCEPT ![c] = r]
    /\ reply' = [reply EXCEPT ![c] = NoReply]

Over(c) == conn[c] \in {"answered", "refused", "cut"}

Respond(c, r) ==
    /\ conn' = [conn EXCEPT ![c] = "answered"]
    /\ reply' = [reply EXCEPT ![c] = r]

Status(code) == [status |-> code, body |-> None, object |-> None]

Receive(c) ==
    /\ Accept(c)
    /\ UNCHANGED <<apiVars, pageVars, puts, faults>>

\* handleResource and handleDNS, handleTLS, handleHTTP: GET.
HandleGet(c) ==
    /\ conn[c] = "running"
    /\ request[c].method = "GET"
    /\ LET k == Key(request[c].hostname)
       IN  Respond(c, CASE Blank(request[c].hostname) -> Status(400)
                        [] ~ Blank(request[c].hostname) /\ store[k] = Absent -> Status(404)
                        [] ~ Blank(request[c].hostname) /\ store[k] = Torn -> Status(400)
                        [] OTHER -> [status |-> 200, body |-> Answer(store[k]), object |-> store[k]])
    /\ UNCHANGED <<processVars, stream, kind, store, request, pageVars, puts, faults>>

PutAccepted(r) == ~ Blank(r.hostname) /\ Accepted(Trim(r.hostname), r.payload)

\* PUT: what the builders refuse is stored nowhere ...
RefusePut(c) ==
    /\ conn[c] = "running"
    /\ request[c].method = "PUT"
    /\ ~ PutAccepted(request[c])
    /\ Respond(c, Status(400))
    /\ UNCHANGED <<processVars, stream, kind, store, request, pageVars, puts, faults>>

\* ... nor is a payload that cannot be read, or whose file cannot be created ...
FailPut(c) ==
    /\ faults < MaxFaults /\ faults' = faults + 1
    /\ conn[c] = "running"
    /\ request[c].method = "PUT"
    /\ Respond(c, Status(400))
    /\ UNCHANGED <<processVars, stream, kind, store, request, pageVars, puts>>

\* ... and for the rest LocalFS.Put truncates the file ...
StartStore(c) ==
    /\ conn[c] = "running"
    /\ request[c].method = "PUT"
    /\ PutAccepted(request[c])
    /\ LET k     == Key(request[c].hostname)
           both  == Storing(k) \cup {c}
       IN  /\ store' = [store EXCEPT ![k] = Torn]
           /\ conn' = [conn EXCEPT ![c] = "storing"]
           /\ request' = [d \in Client |-> IF both # {c} /\ d \in both
                                           THEN [request[d] EXCEPT !.alone = FALSE] ELSE request[d]]
    /\ UNCHANGED <<processVars, stream, kind, reply, pageVars, puts, faults>>

MadeNow(r, now) == Made(Trim(r.hostname), now, r.payload)

\* ... and writes it.  Two at a time may leave a mixture.
FinishStore(c, now) ==
    /\ conn[c] = "storing"
    /\ \E object \in {MadeNow(request[c], now)} \cup (IF request[c].alone THEN {} ELSE {Torn}) :
            store' = [store EXCEPT ![Key(request[c].hostname)] = object]
    /\ Respond(c, Status(200))
    /\ UNCHANGED <<processVars, stream, kind, request, pageVars, puts, faults>>

\* The write fails, or the append to the log after it.
FailStore(c, now) ==
    /\ faults < MaxFaults /\ faults' = faults + 1
    /\ conn[c] = "storing"
    /\ \E object \in {MadeNow(request[c], now), Torn} :
            store' = [store EXCEPT ![Key(request[c].hostname)] = object]
    /\ Respond(c, Status(400))
    /\ UNCHANGED <<processVars, stream, kind, request, pageVars, puts>>

----------------------------------------------------------------------------
\* The script.

Put(hostname, payload) ==
    /\ puts < MaxPuts /\ puts' = puts + 1
    /\ conn[Script] = "idle" \/ Over(Script)
    /\ Send(Script, [method |-> "PUT", hostname |-> hostname, payload |-> payload,
                     alone |-> TRUE, kept |-> {}])
    /\ UNCHANGED <<processVars, stream, kind, store, pageVars, faults>>

----------------------------------------------------------------------------
\* The page.

Load ==
    /\ page.busy = "none"
    /\ ~ Blank(page.hostname)
    /\ Send(Page, [method |-> "GET", hostname |-> page.hostname])
    /\ page' = [page EXCEPT !.busy = "loading"]
    /\ UNCHANGED <<processVars, stream, kind, store, edits, puts, faults>>

Forget(c) ==
    /\ conn' = [conn EXCEPT ![c] = "idle"]
    /\ request' = [request EXCEPT ![c] = NoRequest]
    /\ reply' = [reply EXCEPT ![c] = NoReply]

Succeeded(c) == conn[c] = "answered" /\ reply[c].status = 200

\* The items of the payload as they came.  The switch use_fix_content is not in what the
\* server answers, so it is off.  The TLS page takes its hostname for the SNI.
Loaded ==
    /\ page.busy = "loading"
    /\ Over(Page)
    /\ LET body   == reply[Page].body
           shown  == IF kind = "tls" THEN <<[body EXCEPT !.sni = Trim(request[Page].hostname)]>> ELSE body
           drafts == [i \in 1..Len(shown) |->
                        [item |-> shown[i], use |-> FALSE, was |-> Items(reply[Page].object)[i]]]
       IN  page' = IF Succeeded(Page) THEN [page EXCEPT !.items = drafts, !.dirty = FALSE, !.busy = "none"]
                   ELSE [page EXCEPT !.busy = "none"]
    /\ Forget(Page)
    /\ UNCHANGED <<processVars, stream, kind, store, edits, puts, faults>>

\* Array.filter: a sequence without its members x.  The n-th that stays is the one that n
\* of them do not come after.
Without(s, x) ==
    LET kept == {i \in 1..Len(s) : s[i] # x}
    IN  [n \in 1..Cardinality(kept) |->
            s[CHOOSE i \in kept : Cardinality({j \in kept : j <= i}) = n]]

\* normalizeDNSRecord.
DNSItem(p) ==
    [p EXCEPT !.name = Trim(@), !.address = Trim(@),
              !.hosts = [h \in DOMAIN p.hosts |-> Trim(p.hosts[h])],
              !.values = Without([i \in 1..Len(p.values) |-> Trim(p.values[i])], Empty)]

\* The key and value pairs in normalizeHTTPPolicy.
KeyValues(items) ==
    Without([i \in 1..Len(items) |-> [key |-> Trim(items[i].key), value |-> Trim(items[i].value)]],
            [key |-> Empty, value |-> Empty])

\* Mistake: raw access is not carried over.
BugHTTPItem(p, use) ==
    [p EXCEPT !.backend = IF use THEN Empty ELSE Trim(@),
              !.fix = IF use THEN Trim(@) ELSE Empty,
              !.raw = FALSE,
              !.pathname = Trim(@), !.query = KeyValues(@), !.header = KeyValues(@)]

\* normalizeHTTPPolicy.
HTTPItem(p, use) ==
    [p EXCEPT !.backend = IF use THEN Empty ELSE Trim(@),
              !.fix = IF use THEN Trim(@) ELSE Empty,
              !.pathname = Trim(@), !.query = KeyValues(@), !.header = KeyValues(@)]

\* normalizeTLSDraft, of a draft with the hostname for its name and SNI.
TLSItem(p, hostname) ==
    [p EXCEPT !.sni = Trim(hostname), !.cert = Trim(@), !.key = Trim(@), !.host = Trim(@)]

\* validateHTTPPolicy.  A backend that is not blank is a URL.
Valid(draft) ==
    kind = "http" =>
        /\ draft.item.query = <<>> /\ draft.item.header = <<>> => ~ Blank(draft.item.pathname)
        /\ ~ draft.use => ~ Blank(draft.item.backend)

\* The payload of a flush.
Flushed(items, hostname) ==
    CASE kind = "dns" -> [i \in 1..Len(items) |-> DNSItem(items[i].item)]
      [] kind = "http" -> [i \in 1..Len(items) |-> HTTPItem(items[i].item, items[i].use)]
      [] kind = "tls" -> TLSItem(items[1].item, hostname)

Flush ==
    /\ page.busy = "none" /\ page.dirty
    /\ ~ Blank(page.hostname)
    /\ \A i \in 1..Len(page.items) : Valid(page.items[i])
    /\ Send(Page, [method |-> "PUT", hostname |-> page.hostname,
                   payload |-> Flushed(page.items, page.hostname), alone |-> TRUE,
                   kept |-> {page.items[i].was : i \in 1..Len(page.items)} \ {None}])
    /\ page' = [page EXCEPT !.busy = "flushing"]
    /\ UNCHANGED <<processVars, stream, kind, store, edits, puts, faults>>

\* Mistake: after an error the page stays busy.
BugFlushOver ==
    /\ page.busy = "flushing"
    /\ Over(Page)
    /\ page' = IF Succeeded(Page) THEN [page EXCEPT !.busy = "none", !.dirty = FALSE] ELSE page
    /\ Forget(Page)
    /\ UNCHANGED <<processVars, stream, kind, store, edits, puts, faults>>

\* Edits made meanwhile count as flushed too.
FlushOver ==
    /\ page.busy = "flushing"
    /\ Over(Page)
    /\ page' = [page EXCEPT !.busy = "none", !.dirty = @ /\ ~ Succeeded(Page)]
    /\ Forget(Page)
    /\ UNCHANGED <<processVars, stream, kind, store, edits, puts, faults>>

\* What a user does to the page, also while a request is under way.
EditPage(items) ==
    /\ edits < MaxEdits /\ edits' = edits + 1
    /\ page' = [page EXCEPT !.items = items, !.dirty = TRUE]
    /\ UNCHANGED <<serverVars, apiVars, puts, faults>>

AddItem(draft) ==
    /\ kind # "tls"
    /\ Valid(draft)
    /\ EditPage(<<draft>> \o page.items)

ChangeItem(i, draft) ==
    /\ i \in 1..Len(page.items)
    /\ EditPage([page.items EXCEPT ![i] = draft])

RemoveItem(i) ==
    /\ kind # "tls"
    /\ i \in 1..Len(page.items)
    /\ EditPage(SubSeq(page.items, 1, i - 1) \o SubSeq(page.items, i + 1, Len(page.items)))

TypeHostname(h) ==
    /\ edits < MaxEdits /\ edits' = edits + 1
    /\ h # page.hostname
    /\ page' = [page EXCEPT !.hostname = h]
    /\ UNCHANGED <<serverVars, apiVars, puts, faults>>

----------------------------------------------------------------------------
Server ==
    /\ \/ GoroutineStep \/ Signal \/ ListenFails \/ HTTPFails \/ GRPCFails
       \/ \E a \in Agent : Subscribe(a) \/ Leave(a)
    /\ UNCHANGED <<apiVars, pageVars, puts, faults>>

Handler ==
    /\ main = "running"
    /\ \E c \in Client :
        \/ Receive(c) \/ HandleGet(c) \/ RefusePut(c) \/ FailPut(c) \/ StartStore(c)
        \/ \E now \in Times : FinishStore(c, now) \/ FailStore(c, now)

User ==
    \/ Load \/ Loaded \/ Flush \/ FlushOver
    \/ \E draft \in Drafts[kind] : AddItem(draft) \/ \E i \in 1..Len(page.items) : ChangeItem(i, draft)
    \/ \E i \in 1..Len(page.items) : RemoveItem(i)
    \/ \E h \in Hostnames : TypeHostname(h)

Next ==
    \/ Server \/ Handler \/ User
    \/ \E hostname \in Hostnames, payload \in ScriptPayloads[kind] : Put(hostname, payload)

Spec == Init /\ [][Next]_vars
FairSpec == Spec /\ Fairness

----------------------------------------------------------------------------
\* Properties.

\* Whoever has put it, and whatever was written over it, an object that can be decoded has
\* what the engines of the agents rely on.
ServableZone(zone) ==
    /\ zone.indexes = [t \in RecordType |-> {i \in 1..Len(zone.records) : zone.records[i].type = t}]
    /\ zone.indexes.soa # {} /\ zone.indexes.ns # {}
    /\ \A i \in 1..Len(zone.records) :
        LET r == zone.records[i]
        IN  /\ ~ Blank(r.name) /\ r.ttl # 0
            /\ \A h \in DOMAIN r.hosts : ~ Blank(r.hosts[h])
            /\ r.type = "a" => r.ip \in IPv4
            /\ r.type = "aaaa" => r.ip \in IPv6
            /\ r.type = "txt" => r.values # <<>>

ServableRoute(route) ==
    /\ ~ Blank(route.hostname)
    /\ \A i \in 1..Len(route.policies) :
        LET p == route.policies[i]
        IN  /\ ~ Blank(p.backend) \/ p.fix # Empty
            /\ p.match.by = "pathname" => ~ Blank(p.match.pathname)
            /\ p.match.by # "pathname" => p.match.items # <<>> /\ KeyValuesGiven(p.match.items)

ServableTLS(route) ==
    /\ ~ Blank(route.hostname) /\ ~ Blank(route.sni)
    /\ route.kind = "https" => ~ Blank(route.cert) /\ ~ Blank(route.key)
    /\ route.kind # "https" => route.backend # NoBackend
    /\ route.backend # NoBackend => ~ Blank(route.backend.host) /\ route.backend.port # 0

StoredServable ==
    \A k \in Keys : Decodable(k) =>
        CASE kind = "dns" -> ServableZone(store[k])
          [] kind = "http" -> ServableRoute(store[k])
          [] kind = "tls" -> ServableTLS(store[k])

\* What a GET answers can be PUT back under the name it was put under, at any time, and
\* leaves the object as it is: no default of a builder, trimming or conversion on either way
\* changes a record, a policy or their order.
PutBackSame ==
    \A k \in Keys : Decodable(k) =>
        \A h \in Hostnames :
            Key(h) = k /\ (kind # "dns" => Trim(h) = store[k].hostname) /\ ~ Blank(h) =>
                /\ Accepted(Trim(h), Answer(store[k]))
                /\ \A now \in Times : Made(Trim(h), now, Answer(store[k])) = store[k]

\* What the console makes of a stored item that it loads and nobody touches.  It takes spaces
\* away; from a policy also the fixed content, since the server does not answer the switch
\* (manage.go:72) by which a draft has that or a backend (http.ts:23); and a TLS route gets the
\* page's hostname, for its SNI too (tls.tsx:27).
ThroughConsole(z, hostname) ==
    CASE kind = "dns" -> [z EXCEPT !.name = Trim(@), !.hosts = [h \in DOMAIN z.hosts |-> Trim(z.hosts[h])],
                                   !.values = [i \in 1..Len(z.values) |-> Trim(z.values[i])]]
      [] kind = "http" -> [z EXCEPT !.fix = Empty,
                                    !.match = IF @.by = "pathname" THEN @
                                              ELSE [by |-> @.by, items |-> KeyValues(@.items)]]
      [] kind = "tls" -> [z EXCEPT !.hostname = Trim(hostname), !.sni = Trim(hostname),
                                   !.cert = Trim(@), !.key = Trim(@), !.backend.host = Trim(@)]

InObject(z, object) == \E i \in 1..Len(Items(object)) : Items(object)[i] = z

\* A flush, from the page's drafts through the JSON and the builders to the store, takes from
\* the items the user has loaded and not touched what ThroughConsole says and no more,
\* whatever was done to the others, before or while it is sent: no item is dropped, changed
\* otherwise or given what is another's.  Fixed contents, and SNIs that differ from the
\* hostname, are lost; but never the fixed content of a policy that has nothing else, which
\* holds the flush up instead (http.tsx:10).
FlushKeepsTheRest ==
    [][ conn[Page] = "storing" /\ conn'[Page] = "answered" /\ reply'[Page].status = 200
            /\ request[Page].alone
        => \A z \in request[Page].kept :
            /\ kind = "http" => ~ Blank(z.backend)
            /\ InObject(ThroughConsole(z, request[Page].hostname),
                        store'[Key(request[Page].hostname)]) ]_vars

=============================================================================
