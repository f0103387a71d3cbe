---------------------------- MODULE EdgeRequests ----------------------------
(***************************************************************************)
(* What the engines of an edge node answer while the agent replaces zone   *)
(* files: a DNS query (DNS/dns.go), an HTTP request (ingress/              *)
(* engine_http.go) or a TLS ClientHello (ingress/engine_tls.go).  Each     *)
(* client asks once; module EdgeListeners has the servers themselves.      *)
(***************************************************************************)
EXTENDS ZoneFiles

CONSTANTS
    QTypes,     \* record types of DNS
    SOA,        \* the one of them that goes with a negative answer
    Paths       \* of HTTP requests

VARIABLES
    ask,        \* per client: what it asks for apart from a name
    reply       \* per client: the answer

requestVars == <<vars, ask, reply>>

NoReply == [code |-> "none", answers |-> {}, authority |-> {}]

\* secure: the request came over TLS.
Asks(kind) ==
    CASE kind = "dns" -> [qtype : QTypes]
      [] kind = "http" -> [path : Paths, secure : BOOLEAN]
      [] kind = "tls" -> [secure : {TRUE}]

Codes == {"none",
          "NOERROR", "NXDOMAIN", "SERVFAIL", "forwarded",
          "fixed", "proxied", "not found", "bad gateway", "refused",
          "passthrough", "terminate", "https", "closed"}

\* One type invariant for the files, the searches and the requests.
TypeOK ==
    /\ FilesTyped
    /\ WalksTyped
    /\ DOMAIN ask = Client /\ DOMAIN reply = Client
    /\ \A c \in Client :
        /\ walk[c] = None => ask[c] = None
        /\ walk[c] # None => ask[c] \in Asks(walk[c].kind)
        /\ reply[c].code \in Codes
        /\ reply[c].code # "none" => walk[c] # None /\ ~ Opening(c)

Init ==
    /\ FilesInit
    /\ ask = [c \in Client |-> None]
    /\ reply = [c \in Client |-> NoReply]

----------------------------------------------------------------------------
\* A zone file of DNS: the records and, per type, where they are.
Record == [name : Names, type : QTypes, data : Nat]

WriteZone(records) ==
    [records |-> records,
     indexes |-> [t \in QTypes |-> {i \in 1..Len(records) : records[i].type = t}]]

\* Mistake: a wildcard is taken for all names below its parent.
BugDeepWildcard(record, name) ==
    record = name \/ (record[1] = Wild /\ Len(record) > 1 /\ IsSuffix(Tail(record), name))

\* The wildcard stands for exactly one label.
RecordMatches(record, name) ==
    \/ record = name
    \/ /\ record[1] = Wild
       /\ Len(record) = Len(name) /\ Len(record) > 1
       /\ \A i \in 2..Len(record) : record[i] = name[i]

Lookup(zone, name, qtype) ==
    {zone.records[i] : i \in {j \in zone.indexes[qtype] :
                                RecordMatches(zone.records[j].name, name)}}

Authority(zone) == {zone.records[i] : i \in zone.indexes[SOA]}

----------------------------------------------------------------------------
\* An HTTP route: policies in order, each with the paths it matches, whether it may be
\* reached without TLS, whether it has a fixed content, and whether it is broken: its
\* regular expression does not compile.
Policy == [paths : SUBSET Paths, raw : BOOLEAN, fixed : BOOLEAN, broken : BOOLEAN]

\* The policy that decides: the first that matches or cannot be evaluated.
Deciding(zone, path) ==
    {i \in 1..Len(zone.policies) :
        /\ zone.policies[i].broken \/ path \in zone.policies[i].paths
        /\ \A j \in 1..(i - 1) : ~ zone.policies[j].broken /\ path \notin zone.policies[j].paths}

\* Mistake: fixed content is served before anybody asks for TLS.
BugFixedFirst(policy, secure) ==
    CASE policy.broken -> {"bad gateway"}
      [] policy.fixed -> {"fixed"}
      [] ~ policy.fixed /\ ~ policy.raw /\ ~ secure -> {"refused"}
      [] OTHER -> {"proxied", "bad gateway"}

\* The codes a request may get from a policy.
Outcomes(policy, secure) ==
    CASE policy.broken -> {"bad gateway"}
      [] ~ policy.broken /\ ~ policy.raw /\ ~ secure -> {"refused"}
      [] ~ policy.broken /\ (policy.raw \/ secure) /\ policy.fixed -> {"fixed"}
      [] OTHER -> {"proxied", "bad gateway"}

\* cert: its certificate can be loaded.
TLSPolicy == [kind : {"passthrough", "terminate", "https"}, cert : BOOLEAN]

----------------------------------------------------------------------------
\* Zone files are encoded by WriteZone, HTTP routes hold a sequence of policies.
ASSUME RequestsAssumption ==
    /\ SOA \in QTypes
    /\ \A change \in Changes :
        change.content # Bad =>
            /\ change.kind = "dns" =>
                    /\ change.content.records \in Seq(Record)
                    /\ change.content = WriteZone(change.content.records)
            /\ change.kind = "http" => change.content.policies \in Seq(Policy)
            /\ change.kind = "tls" => change.content \in TLSPolicy

----------------------------------------------------------------------------
\* The steps of a request.  Receive: it has been read, and the search begins.

Receive(c, kind, name, q) ==
    /\ StartWalk(c, kind, name)
    /\ ask' = [ask EXCEPT ![c] = q]
    /\ UNCHANGED reply

Search(c) ==
    /\ OpenZone(c) \/ OpenFails(c)
    /\ UNCHANGED <<ask, reply>>

Replace(change) ==
    /\ Remove(change)
    /\ UNCHANGED <<ask, reply>>

Finish ==
    /\ Rename \/ RenameFails
    /\ UNCHANGED <<ask, reply>>

Ready(c, kind, status) ==
    /\ walk[c] # None
    /\ walk[c].kind = kind
    /\ walk[c].status = status
    /\ reply[c] = NoReply

Reply(c, code, answers, authority) ==
    /\ reply' = [reply EXCEPT ![c] = [code |-> code, answers |-> answers, authority |-> authority]]
    /\ UNCHANGED <<vars, ask>>

\* The zone answers, and what it does not have does not exist.
AnswerDNS(c) ==
    /\ Ready(c, "dns", "found")
    /\ LET zone == walk[c].zone
           answers == Lookup(zone, walk[c].name, ask[c].qtype)
       IN IF answers = {} THEN Reply(c, "NXDOMAIN", {}, Authority(zone))
          ELSE Reply(c, "NOERROR", answers, {})

FailDNS(c) ==
    /\ Ready(c, "dns", "failed")
    /\ Reply(c, "SERVFAIL", {}, {})

\* Mistake: asks another server for what the zone does not have, too.
BugForwardUnanswered(c) ==
    /\ \/ Ready(c, "dns", "missing")
       \/ Ready(c, "dns", "found")
          /\ Lookup(walk[c].zone, walk[c].name, ask[c].qtype) = {}
    /\ \E code \in {"forwarded", "NXDOMAIN"} : Reply(c, code, {}, {})

\* Without a zone another server is asked; when none of them answers, the name does
\* not exist.
ForwardDNS(c) ==
    /\ Ready(c, "dns", "missing")
    /\ \E code \in {"forwarded", "NXDOMAIN"} : Reply(c, code, {}, {})

\* The route answers.
AnswerHTTP(c) ==
    /\ Ready(c, "http", "found")
    /\ LET zone == walk[c].zone
           deciding == Deciding(zone, ask[c].path)
       IN \/ deciding = {} /\ Reply(c, "not found", {}, {})
          \/ \E i \in deciding :
                \E code \in Outcomes(zone.policies[i], ask[c].secure) :
                    Reply(c, code, {zone.policies[i]}, {})

RejectHTTP(c) ==
    \/ Ready(c, "http", "missing") /\ Reply(c, "not found", {}, {})
    \/ Ready(c, "http", "failed") /\ Reply(c, "bad gateway", {}, {})

\* The connection goes where its policy says, or ends: https and terminate need a
\* certificate that can be loaded.
RouteTLS(c) ==
    /\ Ready(c, "tls", "found")
    /\ LET policy == walk[c].zone
       IN Reply(c, IF policy.kind = "passthrough" \/ policy.cert THEN policy.kind ELSE "closed",
                {}, {})

\* Mistake: gives up when the first candidate is not there.
BugRejectEarly(c) ==
    /\ walk[c] # None
    /\ walk[c].kind = "tls" /\ walk[c].status # "found"
    /\ reply[c] = NoReply
    /\ Reply(c, "closed", {}, {})

RejectTLS(c) ==
    /\ Ready(c, "tls", "missing") \/ Ready(c, "tls", "failed")
    /\ Reply(c, "closed", {}, {})

Next ==
    \/ \E change \in Changes : Replace(change)
    \/ Finish
    \/ \E c \in Client :
        \/ \E kind \in Kinds, name \in Names : \E q \in Asks(kind) : Receive(c, kind, name, q)
        \/ Search(c)
        \/ AnswerDNS(c)
        \/ FailDNS(c)
        \/ ForwardDNS(c)
        \/ AnswerHTTP(c)
        \/ RejectHTTP(c)
        \/ RouteTLS(c)
        \/ RejectTLS(c)

Spec == Init /\ [][Next]_requestVars

----------------------------------------------------------------------------
\* A query is forwarded only when no zone of this node was there all the time for its
\* name: what a zone does not have is answered here, also while files are replaced.
NeverForwardsOwn ==
    \A c \in Client :
        reply[c].code = "forwarded" => Responsible("dns", walk[c].name) \subseteq gone[c]

\* A query gets all records of its type that are for its name, by their own name or by
\* the wildcard of its parent, and no others; none means NXDOMAIN with the SOA records.
AnswersComplete ==
    \A c \in Client :
        reply[c].code \in {"NOERROR", "NXDOMAIN"} /\ walk[c].status = "found" =>
            LET name == walk[c].name
                records == {walk[c].zone.records[i] : i \in DOMAIN walk[c].zone.records}
                right == {r \in records :
                            /\ r.type = ask[c].qtype
                            /\ r.name = name \/ (Len(name) > 1 /\ r.name = <<Wild>> \o Tail(name))}
            IN /\ reply[c].answers = right
               /\ reply[c].code = "NXDOMAIN" <=> right = {}
               /\ right = {} => reply[c].authority = {r \in records : r.type = SOA}

\* Without TLS nothing is served but what the first policy for the path allows: no
\* later policy and no fixed content opens a route that is closed.
RawRefused ==
    \A c \in Client :
        reply[c].code \in {"fixed", "proxied"} =>
            \E i \in DOMAIN walk[c].zone.policies :
                LET policies == walk[c].zone.policies
                IN /\ reply[c].answers = {policies[i]}
                   /\ ask[c].path \in policies[i].paths
                   /\ \A j \in DOMAIN policies : ask[c].path \in policies[j].paths => i <= j
                   /\ policies[i].raw \/ ask[c].secure

=============================================================================
