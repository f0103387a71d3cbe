------------------------- MODULE EdgeRequestsProofs -------------------------
(***************************************************************************)
(* Proofs about the answers of an edge node, for any names, zone files and *)
(* clients, however the agent's changes and the searches interleave.  They *)
(* rest on the invariant of the search, proved in ZoneFilesProofs, and on  *)
(* that nothing changes what a request saw once it was answered.           *)
(***************************************************************************)
EXTENDS EdgeRequests, ZoneFilesProofs

----------------------------------------------------------------------------
\* What a forwarded query, or one answered by a zone, is about.
ReplyKinds ==
    \A c \in Client :
        /\ reply[c].code = "forwarded" => walk[c].kind = "dns" /\ walk[c].status = "missing"
        /\ reply[c].code \in {"fixed", "proxied"} =>
                walk[c].kind = "http" /\ walk[c].status = "found"

Inv ==
    /\ TypeOK
    /\ FilesInv
    /\ ReplyKinds
    /\ AnswersComplete
    /\ RawRefused

----------------------------------------------------------------------------
\* The wildcard of recordMatchesName is the one for all names next to this one.
LEMMA WildcardRecord ==
    ASSUME NEW r \in Names, NEW n \in Names
    PROVE  RecordMatches(r, n) <=> r = n \/ (Len(n) > 1 /\ r = <<Wild>> \o Tail(n))
<1>1. /\ r \in Seq(Label) /\ Len(r) \in Nat /\ Len(r) > 0
      /\ n \in Seq(Label) /\ Len(n) \in Nat /\ Len(n) > 0
    BY NameIsSeq
<1>2. n # <<>> /\ r # <<>>
    BY <1>1, EmptySeq
<1>3. /\ Tail(n) \in Seq(Label) /\ Len(Tail(n)) = Len(n) - 1
      /\ \A k \in 1..Len(Tail(n)) : Tail(n)[k] = n[k + 1]
    BY <1>1, <1>2, HeadTailProperties
<1> DEFINE w == <<Wild>> \o Tail(n)
<1>4. /\ w \in Seq(Label) /\ Len(w) = Len(n) /\ w[1] = Wild
      /\ \A k \in 1..Len(Tail(n)) : w[k + 1] = Tail(n)[k]
    BY <1>1, <1>3, WildConcat
<1> HIDE DEF w
<1>5. \A i \in 2..Len(n) : w[i] = n[i]
  <2> TAKE i \in 2..Len(n)
  <2> DEFINE k == i - 1
  <2>1. k \in 1..Len(Tail(n)) /\ k + 1 = i
    BY <1>1, <1>3
  <2> QED
    BY <1>3, <1>4, <2>1
<1>6. ASSUME r[1] = Wild, Len(r) = Len(n), Len(r) > 1, \A i \in 2..Len(r) : r[i] = n[i]
      PROVE  r = w
  <2>1. \A k \in 1..Len(r) : r[k] = w[k]
    <3> TAKE k \in 1..Len(r)
    <3>1. k = 1 \/ k \in 2..Len(r)
      BY <1>1
    <3> QED
      BY <1>4, <1>5, <1>6, <3>1
  <2> QED
    BY <1>1, <1>4, <1>6, <2>1, SeqEqual
<1>7. ASSUME Len(n) > 1, r = w
      PROVE  /\ r[1] = Wild /\ Len(r) = Len(n) /\ Len(r) > 1
             /\ \A i \in 2..Len(r) : r[i] = n[i]
    BY <1>4, <1>5, <1>7
<1> QED
    BY <1>6, <1>7 DEF RecordMatches, w

\* A zone file of DNS holds what was encoded.
LEMMA PublishedZone ==
    ASSUME NEW zone, Published("dns", zone), zone # Bad
    PROVE  /\ zone.records \in Seq(Record)
           /\ \A t \in QTypes :
                zone.indexes[t] = {i \in 1..Len(zone.records) : zone.records[i].type = t}
<1>1. zone.records \in Seq(Record) /\ zone = WriteZone(zone.records)
    BY RequestsAssumption DEF Published
<1> DEFINE rs == zone.records
<1>2. zone = [records |-> rs,
              indexes |-> [t \in QTypes |-> {i \in 1..Len(rs) : rs[i].type = t}]]
    BY <1>1 DEF WriteZone
<1> HIDE DEF rs
<1>3. \A t \in QTypes : zone.indexes[t] = {i \in 1..Len(rs) : rs[i].type = t}
    BY <1>2
<1> QED
    BY <1>1, <1>3 DEF rs

\* A zone file of an HTTP route holds policies.
LEMMA PublishedRoute ==
    ASSUME NEW zone, Published("http", zone), zone # Bad
    PROVE  zone.policies \in Seq(Policy)
BY RequestsAssumption DEF Published

\* The records that Lookup finds, stated without its indexes.
LEMMA LookupIsRight ==
    ASSUME NEW zone, Published("dns", zone), zone # Bad, NEW n \in Names, NEW t \in QTypes
    PROVE  LET records == {zone.records[i] : i \in DOMAIN zone.records}
           IN /\ Lookup(zone, n, t) =
                    {r \in records :
                        /\ r.type = t
                        /\ r.name = n \/ (Len(n) > 1 /\ r.name = <<Wild>> \o Tail(n))}
              /\ Authority(zone) = {r \in records : r.type = SOA}
<1> DEFINE rs == zone.records
           records == {rs[i] : i \in DOMAIN rs}
           fits(r) == r.name = n \/ (Len(n) > 1 /\ r.name = <<Wild>> \o Tail(n))
<1>1. /\ rs \in Seq(Record)
      /\ \A q \in QTypes : zone.indexes[q] = {i \in 1..Len(rs) : rs[i].type = q}
    BY PublishedZone
<1>2. DOMAIN rs = 1..Len(rs) /\ \A i \in DOMAIN rs : rs[i].name \in Names
  <2> HIDE DEF rs
  <2>1. DOMAIN rs = 1..Len(rs) /\ \A i \in DOMAIN rs : rs[i] \in Record
    BY <1>1
  <2> QED
    BY <2>1 DEF Record
<1>3. \A i \in DOMAIN rs : RecordMatches(rs[i].name, n) <=> fits(rs[i])
    BY <1>2, WildcardRecord
<1>4. SOA \in QTypes
    BY RequestsAssumption
<1> HIDE DEF fits
<1>5. Lookup(zone, n, t) =
        {rs[i] : i \in {j \in zone.indexes[t] : RecordMatches(rs[j].name, n)}}
    BY DEF Lookup
<1>6. Authority(zone) = {rs[i] : i \in zone.indexes[SOA]}
    BY DEF Authority
<1> HIDE DEF rs
<1>7. Lookup(zone, n, t) = {r \in records : r.type = t /\ fits(r)}
    BY <1>1, <1>2, <1>3, <1>5
<1>8. Authority(zone) = {r \in records : r.type = SOA}
    BY <1>1, <1>2, <1>4, <1>6
<1> QED
    BY <1>7, <1>8 DEF fits, rs

----------------------------------------------------------------------------
\* The steps that answer a request.
Answers(c) ==
    \/ AnswerDNS(c)
    \/ FailDNS(c)
    \/ ForwardDNS(c)
    \/ AnswerHTTP(c)
    \/ RejectHTTP(c)
    \/ RouteTLS(c)
    \/ RejectTLS(c)

\* They touch nothing but its reply, and a request is answered once.
LEMMA AnswersReply ==
    ASSUME NEW c \in Client, DOMAIN reply = Client, Answers(c)
    PROVE  /\ reply[c] = NoReply
           /\ UNCHANGED <<vars, ask>>
           /\ DOMAIN reply' = Client
           /\ \A d \in Client : d # c => reply'[d] = reply[d]
<1>1. /\ reply[c] = NoReply
      /\ \E code, answers, authority : Reply(c, code, answers, authority)
  <2>1. CASE AnswerDNS(c)
    BY <2>1 DEF AnswerDNS, Ready
  <2>2. CASE FailDNS(c) \/ ForwardDNS(c)
    BY <2>2 DEF FailDNS, ForwardDNS, Ready
  <2>3. CASE AnswerHTTP(c)
    BY <2>3 DEF AnswerHTTP, Ready
  <2>4. CASE RejectHTTP(c)
    BY <2>4 DEF RejectHTTP, Ready
  <2>5. CASE RouteTLS(c) \/ RejectTLS(c)
    BY <2>5 DEF RouteTLS, RejectTLS, Ready
  <2> QED
    BY <2>1, <2>2, <2>3, <2>4, <2>5 DEF Answers
<1> QED
    BY <1>1 DEF Reply

\* A step answers a request, or leaves all replies alone.
LEMMA NextCases ==
    ASSUME [Next]_requestVars
    PROVE  \/ \E change \in Changes : Replace(change)
           \/ Finish
           \/ \E c \in Client, kind \in Kinds, name \in Names :
                \E q \in Asks(kind) : Receive(c, kind, name, q)
           \/ \E c \in Client : Search(c)
           \/ \E c \in Client : Answers(c)
           \/ UNCHANGED requestVars
BY DEF Next, Answers

\* Files and searches keep their invariant.
LEMMA StepKeepsFilesInv ==
    ASSUME TypeOK, FilesInv, [Next]_requestVars
    PROVE  FilesInv'
<1>1. ASSUME NEW change \in Changes, Replace(change) PROVE FilesInv'
    BY <1>1, RemoveKeepsInv DEF Replace
<1>2. CASE Finish
    BY <1>2, RenameKeepsInv, RenameFailsKeepsInv DEF Finish
<1>3. ASSUME NEW c \in Client, NEW kind \in Kinds, NEW name \in Names, NEW q,
             Receive(c, kind, name, q)
      PROVE  FilesInv'
    BY <1>3, StartWalkKeepsInv DEF Receive
<1>4. ASSUME NEW c \in Client, Search(c) PROVE FilesInv'
    BY <1>4, OpenZoneKeepsInv, OpenFailsKeepsInv DEF Search
<1>5. ASSUME NEW c \in Client, Answers(c) PROVE FilesInv'
  <2>1. UNCHANGED vars
    BY <1>5, AnswersReply DEF TypeOK
  <2> QED
    BY <2>1, FilesStutter
<1>6. CASE UNCHANGED requestVars
    BY <1>6, FilesStutter DEF requestVars
<1> QED
    BY <1>1, <1>2, <1>3, <1>4, <1>5, <1>6, NextCases

\* What a request saw stays as it was once it is answered.
LEMMA AnsweredStays ==
    ASSUME TypeOK, FilesInv, [Next]_requestVars, NEW c \in Client, reply[c].code # "none"
    PROVE  /\ walk'[c] = walk[c] /\ gone'[c] = gone[c]
           /\ ask'[c] = ask[c] /\ reply'[c] = reply[c]
<1> DEFINE Stays == /\ walk'[c] = walk[c] /\ gone'[c] = gone[c]
                    /\ ask'[c] = ask[c] /\ reply'[c] = reply[c]
<1>1. /\ walk[c] # None /\ ~ Opening(c)
      /\ DOMAIN ask = Client /\ DOMAIN reply = Client
      /\ walk \in [Client -> Walk \cup {None}] /\ gone \in [Client -> SUBSET Names]
    BY DEF TypeOK, WalksTyped
<1>2. ASSUME NEW change \in Changes, Replace(change) PROVE Stays
    BY <1>1, <1>2 DEF Replace, Remove
<1>3. CASE Finish
    BY <1>3 DEF Finish, Rename, RenameFails
<1>4. ASSUME NEW d \in Client, NEW kind, NEW name, NEW q, Receive(d, kind, name, q)
      PROVE  Stays
    BY <1>1, <1>4 DEF Receive, StartWalk
<1>5. ASSUME NEW d \in Client, Search(d) PROVE Stays
    BY <1>1, <1>5 DEF Search, OpenZone, OpenFails
<1>6. ASSUME NEW d \in Client, Answers(d) PROVE Stays
  <2>1. d # c
    BY <1>1, <1>6, AnswersReply DEF NoReply
  <2> QED
    BY <1>1, <1>6, <2>1, AnswersReply DEF vars
<1>7. CASE UNCHANGED requestVars
    BY <1>7 DEF requestVars, vars
<1> QED
    BY <1>2, <1>3, <1>4, <1>5, <1>6, <1>7, NextCases

\* A reply is old or comes from a step that answers.
LEMMA ReplyOldOrNew ==
    ASSUME TypeOK, [Next]_requestVars, NEW c \in Client, reply'[c].code # "none"
    PROVE  reply[c].code # "none" \/ Answers(c)
<1>1. DOMAIN reply = Client
    BY DEF TypeOK
<1>2. ASSUME NEW d \in Client, Answers(d) PROVE reply[c].code # "none" \/ Answers(c)
    BY <1>1, <1>2, AnswersReply
<1> QED
    BY <1>2, NextCases DEF Replace, Finish, Receive, Search, requestVars

----------------------------------------------------------------------------
\* What each step replies.
LEMMA AnswerDNSReplies ==
    ASSUME TypeOK, FilesInv, NEW c \in Client, AnswerDNS(c)
    PROVE  LET zone == walk[c].zone
               n == walk[c].name
               records == {zone.records[i] : i \in DOMAIN zone.records}
               right == {r \in records :
                            /\ r.type = ask[c].qtype
                            /\ r.name = n \/ (Len(n) > 1 /\ r.name = <<Wild>> \o Tail(n))}
           IN \/ right = {} /\ reply'[c] = [code |-> "NXDOMAIN", answers |-> {},
                                           authority |-> {r \in records : r.type = SOA}]
              \/ right # {} /\ reply'[c] = [code |-> "NOERROR", answers |-> right,
                                           authority |-> {}]
<1>1. /\ walk[c] \in Walk /\ walk[c].kind = "dns" /\ walk[c].status = "found"
      /\ walk[c] # None /\ DOMAIN reply = Client
    BY DEF AnswerDNS, Ready, TypeOK, WalksTyped
<1>2. walk[c].name \in Names /\ ask[c].qtype \in QTypes
    BY <1>1 DEF Walk, TypeOK, Asks
<1>3. Published("dns", walk[c].zone) /\ walk[c].zone # Bad
    BY <1>1 DEF FilesInv, ContentsInv
<1> DEFINE zone == walk[c].zone
           records == {zone.records[i] : i \in DOMAIN zone.records}
           answers == Lookup(zone, walk[c].name, ask[c].qtype)
<1>4. \/ answers = {} /\ reply'[c] = [code |-> "NXDOMAIN", answers |-> {},
                                     authority |-> Authority(zone)]
      \/ answers # {} /\ reply'[c] = [code |-> "NOERROR", answers |-> answers, authority |-> {}]
    BY <1>1 DEF AnswerDNS, Reply
<1>5. /\ answers = {r \in records :
                        /\ r.type = ask[c].qtype
                        /\ \/ r.name = walk[c].name
                           \/ Len(walk[c].name) > 1 /\ r.name = <<Wild>> \o Tail(walk[c].name)}
      /\ Authority(zone) = {r \in records : r.type = SOA}
    BY <1>2, <1>3, LookupIsRight
<1> HIDE DEF answers, records
<1> QED
    BY <1>4, <1>5 DEF records

LEMMA AnswerHTTPReplies ==
    ASSUME TypeOK, FilesInv, NEW c \in Client, AnswerHTTP(c)
    PROVE  LET policies == walk[c].zone.policies
           IN /\ walk[c].kind = "http" /\ walk[c].status = "found"
              /\ reply'[c].code \in {"not found", "fixed", "proxied", "bad gateway", "refused"}
              /\ reply'[c].code \in {"fixed", "proxied"} =>
                    \E i \in DOMAIN policies :
                        /\ reply'[c].answers = {policies[i]}
                        /\ ask[c].path \in policies[i].paths
                        /\ \A j \in DOMAIN policies : ask[c].path \in policies[j].paths => i <= j
                        /\ policies[i].raw \/ ask[c].secure
<1> DEFINE policies == walk[c].zone.policies
           path == ask[c].path
           secure == ask[c].secure
<1>1. /\ walk[c].kind = "http" /\ walk[c].status = "found"
      /\ walk[c] # None /\ DOMAIN reply = Client
    BY DEF AnswerHTTP, Ready, TypeOK
<1>2. policies \in Seq(Policy)
    BY <1>1, PublishedRoute DEF FilesInv, ContentsInv
<1>3. CASE reply'[c] = [code |-> "not found", answers |-> {}, authority |-> {}]
  <2>1. \A r, code : r = [code |-> code, answers |-> {}, authority |-> {}] => r.code = code
    OBVIOUS
  <2> QED
    BY <1>1, <1>3, <2>1
<1>4. ASSUME NEW i \in Deciding(walk[c].zone, path),
             NEW code \in Outcomes(policies[i], secure),
             reply'[c] = [code |-> code, answers |-> {policies[i]}, authority |-> {}]
      PROVE  /\ code \in {"fixed", "proxied", "bad gateway", "refused"}
             /\ code \in {"fixed", "proxied"} =>
                    /\ i \in DOMAIN policies
                    /\ path \in policies[i].paths
                    /\ \A j \in DOMAIN policies : path \in policies[j].paths => i <= j
                    /\ policies[i].raw \/ secure
  <2>1. /\ i \in 1..Len(policies)
        /\ policies[i].broken \/ path \in policies[i].paths
        /\ \A j \in 1..(i - 1) : path \notin policies[j].paths
    BY <1>4 DEF Deciding
  <2>2. /\ code \in {"fixed", "proxied", "bad gateway", "refused"}
        /\ code \in {"fixed", "proxied"} =>
                ~ policies[i].broken /\ (policies[i].raw \/ secure)
    BY <1>4 DEF Outcomes
  <2>3. DOMAIN policies = 1..Len(policies) /\ Len(policies) \in Nat
    BY <1>2
  <2>4. ASSUME NEW j \in DOMAIN policies, path \in policies[j].paths PROVE i <= j
    BY <2>1, <2>3, <2>4
  <2> QED
    BY <2>1, <2>2, <2>3, <2>4
<1>5. \/ reply'[c] = [code |-> "not found", answers |-> {}, authority |-> {}]
      \/ \E i \in Deciding(walk[c].zone, path) : \E code \in Outcomes(policies[i], secure) :
            reply'[c] = [code |-> code, answers |-> {policies[i]}, authority |-> {}]
    BY <1>1 DEF AnswerHTTP, Reply
<1> HIDE DEF policies, path, secure
<1>6. ASSUME NEW i \in Deciding(walk[c].zone, path),
             NEW code \in Outcomes(policies[i], secure),
             reply'[c] = [code |-> code, answers |-> {policies[i]}, authority |-> {}]
      PROVE  /\ reply'[c].code \in {"fixed", "proxied", "bad gateway", "refused"}
             /\ reply'[c].code \in {"fixed", "proxied"} =>
                    /\ i \in DOMAIN policies
                    /\ reply'[c].answers = {policies[i]}
                    /\ path \in policies[i].paths
                    /\ \A j \in DOMAIN policies : path \in policies[j].paths => i <= j
                    /\ policies[i].raw \/ secure
  <2>1. reply'[c].code = code /\ reply'[c].answers = {policies[i]}
    BY <1>6
  <2> QED
    BY <1>4, <1>6, <2>1
<1> QED
    BY <1>1, <1>3, <1>5, <1>6 DEF policies, path, secure

\* The codes of the other steps.
LEMMA OtherReplies ==
    ASSUME TypeOK, FilesInv, NEW c \in Client
    PROVE  /\ FailDNS(c) => reply'[c].code = "SERVFAIL"
           /\ ForwardDNS(c) => /\ reply'[c].code \in {"forwarded", "NXDOMAIN"}
                               /\ walk[c].kind = "dns" /\ walk[c].status = "missing"
           /\ RejectHTTP(c) => reply'[c].code \in {"not found", "bad gateway"}
           /\ RouteTLS(c) => reply'[c].code \in {"passthrough", "terminate", "https", "closed"}
           /\ RejectTLS(c) => reply'[c].code = "closed"
<1>1. DOMAIN reply = Client
    BY DEF TypeOK
<1>2. FailDNS(c) => reply'[c].code = "SERVFAIL"
    BY <1>1 DEF FailDNS, Reply
<1>3. ForwardDNS(c) => /\ reply'[c].code \in {"forwarded", "NXDOMAIN"}
                       /\ walk[c].kind = "dns" /\ walk[c].status = "missing"
    BY <1>1 DEF ForwardDNS, Reply, Ready
<1>4. RejectHTTP(c) => reply'[c].code \in {"not found", "bad gateway"}
  <2>1. ASSUME NEW code, Reply(c, code, {}, {}) PROVE reply'[c].code = code
    BY <1>1, <2>1 DEF Reply
  <2> QED
    BY <2>1 DEF RejectHTTP
<1>5. RouteTLS(c) => reply'[c].code \in {"passthrough", "terminate", "https", "closed"}
  <2> SUFFICES ASSUME RouteTLS(c)
               PROVE  reply'[c].code \in {"passthrough", "terminate", "https", "closed"}
    OBVIOUS
  <2>1. walk[c].zone \in TLSPolicy
    <3>1. Published("tls", walk[c].zone) /\ walk[c].zone # Bad
      BY DEF RouteTLS, Ready, FilesInv, ContentsInv
    <3> QED
      BY <3>1, RequestsAssumption DEF Published
  <2>2. walk[c].zone.kind \in {"passthrough", "terminate", "https"}
    BY <2>1 DEF TLSPolicy
  <2> QED
    BY <1>1, <2>2 DEF RouteTLS, Reply
<1>6. RejectTLS(c) => reply'[c].code = "closed"
    BY <1>1 DEF RejectTLS, Reply
<1> QED
    BY <1>2, <1>3, <1>4, <1>5, <1>6

----------------------------------------------------------------------------
\* The invariant.

LEMMA InitInv == Init => Inv
<1> SUFFICES ASSUME Init PROVE Inv
    OBVIOUS
<1>1. FilesInv
    BY FilesInitInv DEF Init
<1>2. \A c \in Client : walk[c] = None /\ ask[c] = None /\ reply[c].code = "none"
    BY DEF Init, FilesInit, NoReply
<1>3. TypeOK
    BY <1>1, <1>2 DEF TypeOK, Init, FilesInv, Codes
<1> QED
    BY <1>1, <1>2, <1>3 DEF Inv, ReplyKinds, AnswersComplete, RawRefused

\* A search that goes on is still a search, for the same kind of zone.
LEMMA AfterOpenStays ==
    ASSUME NEW w \in Walk, w.pos \in 1..Len(w.name), Len(w.name) \in Nat,
           NEW file \in Contents \cup {Absent}
    PROVE  AfterOpen(w, file) # None /\ AfterOpen(w, file).kind = w.kind
<1>1. /\ w.pos \in Nat \ {0} /\ w.pos + 1 \in Nat \ {0}
      /\ Bad \in Contents /\ Absent \notin Contents /\ None \notin Walk
    BY ContentsAssumption DEF Walk
<1> DEFINE new == AfterOpen(w, file)
<1>2. \/ new = [w EXCEPT !.status = "missing"]
      \/ new = [w EXCEPT !.pos = w.pos + 1]
      \/ new = [w EXCEPT !.status = "failed"]
      \/ file \in Contents /\ new = [w EXCEPT !.status = "found", !.zone = file]
  <2>1. CASE file = Absent /\ w.pos = Len(w.name)
    BY <1>1, <2>1 DEF AfterOpen
  <2>2. CASE file = Absent /\ w.pos < Len(w.name)
    BY <1>1, <2>2 DEF AfterOpen
  <2>3. CASE file = Bad
    BY <1>1, <2>3 DEF AfterOpen
  <2>4. CASE file # Absent /\ file # Bad
    BY <1>1, <2>4 DEF AfterOpen
  <2> QED
    BY <1>1, <2>1, <2>2, <2>3, <2>4
<1> HIDE DEF new
<1>3. new \in Walk /\ new.kind = w.kind
    BY <1>1, <1>2 DEF Walk
<1> QED
    BY <1>1, <1>3 DEF new

\* Each step keeps the types: a search that is open has no reply.
LEMMA StepKeepsTypes ==
    ASSUME TypeOK, FilesInv, [Next]_requestVars
    PROVE  TypeOK'
<1>1. FilesTyped' /\ WalksTyped'
    BY StepKeepsFilesInv DEF FilesInv
<1> DEFINE Fits(c) ==
        /\ walk[c] = None => ask[c] = None
        /\ walk[c] # None => ask[c] \in Asks(walk[c].kind)
        /\ reply[c].code \in Codes
        /\ reply[c].code # "none" => walk[c] # None /\ ~ Opening(c)
<1>2. /\ DOMAIN ask = Client /\ DOMAIN reply = Client
      /\ \A c \in Client : Fits(c)
      /\ walk \in [Client -> Walk \cup {None}]
    BY DEF TypeOK, WalksTyped
<1> DEFINE Goal == DOMAIN ask' = Client /\ DOMAIN reply' = Client /\ \A c \in Client : Fits(c)'
<1>3. ASSUME UNCHANGED <<walk, ask, reply>> PROVE Goal
    BY <1>2, <1>3 DEF Opening
<1>4. ASSUME NEW c \in Client, NEW kind \in Kinds, NEW name \in Names, NEW q \in Asks(kind),
             Receive(c, kind, name, q)
      PROVE  Goal
  <2>1. /\ walk[c] = None
        /\ walk' = [walk EXCEPT ![c] = [kind |-> kind, name |-> name, pos |-> 1,
                                        status |-> "opening", zone |-> Absent]]
        /\ ask' = [ask EXCEPT ![c] = q] /\ reply' = reply
    BY <1>4 DEF Receive, StartWalk
  <2>2. walk'[c].kind = kind /\ walk'[c] # None /\ ask'[c] = q /\ reply'[c].code = "none"
    <3>1. walk'[c] = [kind |-> kind, name |-> name, pos |-> 1,
                      status |-> "opening", zone |-> Absent]
      BY <1>2, <2>1
    <3>2. 1 \in Nat \ {0} /\ None \notin Walk
      BY ContentsAssumption
    <3>3. walk'[c] \in Walk
      BY <3>1, <3>2 DEF Walk
    <3>4. walk'[c].kind = kind
      BY <3>1
    <3>5. reply[c].code = "none"
      BY <1>2, <2>1
    <3> QED
      BY <1>2, <2>1, <3>2, <3>3, <3>4, <3>5
  <2>3. \A d \in Client : d # c => walk'[d] = walk[d] /\ ask'[d] = ask[d] /\ reply'[d] = reply[d]
    BY <1>2, <2>1
  <2>4. Fits(c)'
    BY <2>2 DEF Codes
  <2>5. ASSUME NEW d \in Client, d # c PROVE Fits(d)'
    BY <1>2, <2>3, <2>5 DEF Opening
  <2> QED
    BY <1>2, <2>1, <2>4, <2>5
<1>5. ASSUME NEW c \in Client, Search(c) PROVE Goal
  <2>1. Opening(c) /\ UNCHANGED <<ask, reply>>
    BY <1>5 DEF Search, OpenZone, OpenFails
  <2>2. walk[c] # None /\ reply[c].code = "none"
    BY <1>2, <2>1 DEF Opening
  <2>3. walk'[c] # None /\ walk'[c].kind = walk[c].kind
    <3>1. walk[c] \in Walk
      BY <1>2, <2>2
    <3>2. CASE OpenFails(c)
      <4>1. walk'[c] = [walk[c] EXCEPT !.status = "failed"]
        BY <1>2, <3>2 DEF OpenFails
      <4>2. walk'[c] \in Walk /\ walk'[c].kind = walk[c].kind
        BY <3>1, <4>1 DEF Walk
      <4> QED
        BY <4>2, ContentsAssumption
    <3>3. CASE OpenZone(c)
      <4> DEFINE w == walk[c]
                 file == files[w.kind][CandidateZones(w.kind, w.name)[w.pos]]
      <4>1. walk'[c] = AfterOpen(w, file)
        BY <1>2, <3>3 DEF OpenZone
      <4>2. /\ w \in Walk /\ w.pos \in 1..Len(w.name) /\ w.name \in Names /\ w.kind \in Kinds
            /\ Len(w.name) \in Nat
        BY <2>2, <3>1, NameIsSeq DEF FilesInv, SearchInv, Walk
      <4>3. file \in Contents \cup {Absent}
        BY <4>2, NamesAssumption DEF TypeOK, FilesTyped
      <4> HIDE DEF w, file
      <4>4. walk'[c] # None /\ walk'[c].kind = w.kind
        BY <4>1, <4>2, <4>3, AfterOpenStays
      <4> QED
        BY <4>4 DEF w
    <3> QED
      BY <1>5, <3>2, <3>3 DEF Search
  <2>4. \A d \in Client : d # c => walk'[d] = walk[d]
    BY <1>2, <1>5 DEF Search, OpenZone, OpenFails
  <2>5. Fits(c)'
    BY <1>2, <2>1, <2>2, <2>3
  <2>6. ASSUME NEW d \in Client, d # c PROVE Fits(d)'
    BY <1>2, <2>1, <2>4, <2>6 DEF Opening
  <2> QED
    BY <1>2, <2>1, <2>5, <2>6
<1>6. ASSUME NEW c \in Client, Answers(c) PROVE Goal
  <2>1. /\ UNCHANGED vars /\ ask' = ask /\ DOMAIN reply' = Client
        /\ \A d \in Client : d # c => reply'[d] = reply[d]
    BY <1>2, <1>6, AnswersReply
  <2>2. walk' = walk
    BY <2>1 DEF vars
  <2>3. walk[c] # None /\ ~ Opening(c)
    <3>1. \E kind, status : Ready(c, kind, status) /\ status # "opening"
      <4>1. AnswerDNS(c) \/ AnswerHTTP(c) \/ RouteTLS(c) => \E kind : Ready(c, kind, "found")
        BY DEF AnswerDNS, AnswerHTTP, RouteTLS
      <4>2. FailDNS(c) => Ready(c, "dns", "failed")
        BY DEF FailDNS
      <4>3. ForwardDNS(c) => Ready(c, "dns", "missing")
        BY DEF ForwardDNS
      <4>4. RejectHTTP(c) => Ready(c, "http", "missing") \/ Ready(c, "http", "failed")
        BY DEF RejectHTTP
      <4>5. RejectTLS(c) => Ready(c, "tls", "missing") \/ Ready(c, "tls", "failed")
        BY DEF RejectTLS
      <4> QED
        BY <1>6, <4>1, <4>2, <4>3, <4>4, <4>5 DEF Answers
    <3> QED
      BY <3>1 DEF Ready, Opening
  <2>4. reply'[c].code \in Codes
    <3>1. CASE AnswerDNS(c)
      <4>1. \E code \in {"NOERROR", "NXDOMAIN"} : \E answers, authority :
                reply'[c] = [code |-> code, answers |-> answers, authority |-> authority]
        BY <3>1, AnswerDNSReplies
      <4>2. \A r, code, answers, authority :
                r = [code |-> code, answers |-> answers, authority |-> authority] => r.code = code
        OBVIOUS
      <4>3. reply'[c].code \in {"NOERROR", "NXDOMAIN"}
        BY <4>1, <4>2
      <4> QED
        BY <4>3 DEF Codes
    <3>2. CASE AnswerHTTP(c)
      <4>1. reply'[c].code \in {"not found", "fixed", "proxied", "bad gateway", "refused"}
        BY <3>2, AnswerHTTPReplies
      <4> QED
        BY <4>1 DEF Codes
    <3> QED
      BY <1>6, <3>1, <3>2, OtherReplies DEF Answers, Codes
  <2>5. Fits(c)'
    BY <1>2, <2>1, <2>2, <2>3, <2>4 DEF Opening
  <2>6. ASSUME NEW d \in Client, d # c PROVE Fits(d)'
    BY <1>2, <2>1, <2>2, <2>6 DEF Opening
  <2> QED
    BY <2>1, <1>2, <2>5, <2>6
<1>7. ASSUME Finish \/ (\E change \in Changes : Replace(change)) \/ UNCHANGED requestVars
      PROVE  Goal
  <2>1. UNCHANGED <<walk, ask, reply>>
    BY <1>7 DEF Replace, Remove, Finish, Rename, RenameFails, requestVars, vars
  <2> QED
    BY <1>3, <2>1
<1> HIDE DEF Goal
<1>8. Goal
    BY <1>4, <1>5, <1>6, <1>7, NextCases
<1> QED
    BY <1>1, <1>8 DEF TypeOK, Goal

----------------------------------------------------------------------------
\* What a step that answers says of its kind of reply.
LEMMA AnswerKinds ==
    ASSUME TypeOK, FilesInv, NEW c \in Client, Answers(c)
    PROVE  /\ reply'[c].code = "forwarded" => walk[c].kind = "dns" /\ walk[c].status = "missing"
           /\ reply'[c].code \in {"fixed", "proxied"} => AnswerHTTP(c)
           /\ reply'[c].code \in {"NOERROR", "NXDOMAIN"} /\ walk[c].status = "found" => AnswerDNS(c)
<1>1. CASE AnswerDNS(c)
  <2>1. \E code \in {"NOERROR", "NXDOMAIN"} : \E answers, authority :
            reply'[c] = [code |-> code, answers |-> answers, authority |-> authority]
    BY <1>1, AnswerDNSReplies
  <2>2. \A r, code, answers, authority :
            r = [code |-> code, answers |-> answers, authority |-> authority] => r.code = code
    OBVIOUS
  <2>3. reply'[c].code \in {"NOERROR", "NXDOMAIN"}
    BY <2>1, <2>2
  <2> QED
    BY <1>1, <2>3
<1>2. CASE AnswerHTTP(c)
  <2>1. reply'[c].code \in {"not found", "fixed", "proxied", "bad gateway", "refused"}
    BY <1>2, AnswerHTTPReplies
  <2> QED
    BY <1>2, <2>1
<1> QED
    BY <1>1, <1>2, OtherReplies DEF Answers

\* Replies stay of their kind, complete, and within what the route allows.
LEMMA StepKeepsReplyKinds ==
    ASSUME Inv, [Next]_requestVars
    PROVE  ReplyKinds'
<1> SUFFICES ASSUME NEW c \in Client, reply'[c].code \in {"forwarded", "fixed", "proxied"}
             PROVE  /\ reply'[c].code = "forwarded" =>
                            walk'[c].kind = "dns" /\ walk'[c].status = "missing"
                    /\ reply'[c].code \in {"fixed", "proxied"} =>
                            walk'[c].kind = "http" /\ walk'[c].status = "found"
    BY DEF ReplyKinds
<1>1. CASE reply[c].code # "none"
    BY <1>1, AnsweredStays DEF Inv, ReplyKinds
<1>2. CASE Answers(c)
  <2>1. walk' = walk
    BY <1>2, AnswersReply DEF Inv, TypeOK, vars
  <2> QED
    BY <1>2, <2>1, AnswerKinds, AnswerHTTPReplies DEF Inv
<1> QED
    BY <1>1, <1>2, ReplyOldOrNew DEF Inv

LEMMA StepKeepsAnswers ==
    ASSUME Inv, [Next]_requestVars
    PROVE  AnswersComplete'
<1> DEFINE Complete(r, w, q) ==
        r.code \in {"NOERROR", "NXDOMAIN"} /\ w.status = "found" =>
            LET name == w.name
                records == {w.zone.records[i] : i \in DOMAIN w.zone.records}
                right == {x \in records :
                            /\ x.type = q.qtype
                            /\ x.name = name \/ (Len(name) > 1 /\ x.name = <<Wild>> \o Tail(name))}
            IN /\ r.answers = right
               /\ r.code = "NXDOMAIN" <=> right = {}
               /\ right = {} => r.authority = {x \in records : x.type = SOA}
<1>1. \A c \in Client : Complete(reply[c], walk[c], ask[c])
    BY DEF Inv, AnswersComplete
<1>2. ASSUME NEW c \in Client, reply[c].code # "none"
      PROVE  Complete(reply'[c], walk'[c], ask'[c])
  <2>1. walk'[c] = walk[c] /\ ask'[c] = ask[c] /\ reply'[c] = reply[c]
    BY <1>2, AnsweredStays DEF Inv
  <2> HIDE DEF Complete
  <2> QED
    BY <1>1, <2>1
<1>3. ASSUME NEW c \in Client, Answers(c)
      PROVE  Complete(reply'[c], walk'[c], ask'[c])
  <2>1. walk' = walk /\ ask' = ask
    BY <1>3, AnswersReply DEF Inv, TypeOK, vars
  <2>2. ASSUME reply'[c].code \in {"NOERROR", "NXDOMAIN"}, walk[c].status = "found"
        PROVE  Complete(reply'[c], walk[c], ask[c])
    <3> DEFINE name == walk[c].name
               records == {walk[c].zone.records[i] : i \in DOMAIN walk[c].zone.records}
               right == {x \in records :
                            /\ x.type = ask[c].qtype
                            /\ x.name = name \/ (Len(name) > 1 /\ x.name = <<Wild>> \o Tail(name))}
               soa == {x \in records : x.type = SOA}
    <3>1. AnswerDNS(c)
      BY <1>3, <2>2, AnswerKinds DEF Inv
    <3>2. \/ right = {} /\ reply'[c] = [code |-> "NXDOMAIN", answers |-> {}, authority |-> soa]
          \/ right # {} /\ reply'[c] = [code |-> "NOERROR", answers |-> right, authority |-> {}]
      BY <3>1, AnswerDNSReplies DEF Inv
    <3> HIDE DEF right, soa
    <3>3. \A r, code, answers, authority :
              r = [code |-> code, answers |-> answers, authority |-> authority] =>
                  r.code = code /\ r.answers = answers /\ r.authority = authority
      OBVIOUS
    <3>4. /\ reply'[c].answers = right
          /\ reply'[c].code = "NXDOMAIN" <=> right = {}
          /\ right = {} => reply'[c].authority = soa
      BY <3>2, <3>3
    <3> QED
      BY <3>4 DEF right, soa
  <2>3. CASE ~ (reply'[c].code \in {"NOERROR", "NXDOMAIN"} /\ walk[c].status = "found")
    <3>1. Complete(reply'[c], walk[c], ask[c])
      BY <2>3
    <3> HIDE DEF Complete
    <3> QED
      BY <2>1, <3>1
  <2> HIDE DEF Complete
  <2> QED
    BY <2>1, <2>2, <2>3
<1>4. \A c \in Client : Complete(reply'[c], walk'[c], ask'[c])
  <2> TAKE c \in Client
  <2>1. CASE reply'[c].code = "none"
    BY <2>1
  <2> HIDE DEF Complete
  <2> QED
    BY <1>2, <1>3, <2>1, ReplyOldOrNew DEF Inv
<1> QED
    BY <1>4 DEF AnswersComplete

LEMMA StepKeepsRaw ==
    ASSUME Inv, [Next]_requestVars
    PROVE  RawRefused'
<1> DEFINE Allowed(r, w, q) ==
        r.code \in {"fixed", "proxied"} =>
            \E i \in DOMAIN w.zone.policies :
                LET policies == w.zone.policies
                IN /\ r.answers = {policies[i]}
                   /\ q.path \in policies[i].paths
                   /\ \A j \in DOMAIN policies : q.path \in policies[j].paths => i <= j
                   /\ policies[i].raw \/ q.secure
<1>1. \A c \in Client : Allowed(reply[c], walk[c], ask[c])
    BY DEF Inv, RawRefused
<1>2. ASSUME NEW c \in Client, reply[c].code # "none"
      PROVE  Allowed(reply'[c], walk'[c], ask'[c])
  <2>1. walk'[c] = walk[c] /\ ask'[c] = ask[c] /\ reply'[c] = reply[c]
    BY <1>2, AnsweredStays DEF Inv
  <2> HIDE DEF Allowed
  <2> QED
    BY <1>1, <2>1
<1>3. ASSUME NEW c \in Client, Answers(c)
      PROVE  Allowed(reply'[c], walk'[c], ask'[c])
  <2>1. walk' = walk /\ ask' = ask
    BY <1>3, AnswersReply DEF Inv, TypeOK, vars
  <2>2. ASSUME reply'[c].code \in {"fixed", "proxied"}
        PROVE  Allowed(reply'[c], walk[c], ask[c])
    BY <1>3, <2>2, AnswerKinds, AnswerHTTPReplies DEF Inv
  <2> QED
    BY <2>1, <2>2
<1>4. \A c \in Client : Allowed(reply'[c], walk'[c], ask'[c])
  <2> TAKE c \in Client
  <2>1. CASE reply'[c].code = "none"
    BY <2>1
  <2> HIDE DEF Allowed
  <2> QED
    BY <1>2, <1>3, <2>1, ReplyOldOrNew DEF Inv
<1> QED
    BY <1>4 DEF RawRefused

\* Every step keeps the invariant.
LEMMA NextInv == Inv /\ [Next]_requestVars => Inv'
<1> SUFFICES ASSUME Inv, [Next]_requestVars PROVE Inv'
    OBVIOUS
<1>1. TypeOK' /\ FilesInv'
    BY StepKeepsTypes, StepKeepsFilesInv DEF Inv
<1> QED
    BY <1>1, StepKeepsReplyKinds, StepKeepsAnswers, StepKeepsRaw DEF Inv

LEMMA EdgeInv == Spec => []Inv
BY InitInv, NextInv, PTL DEF Spec

\* The search invariant says that a query is forwarded only without a zone.
LEMMA ForwardsMissing == Inv => NeverForwardsOwn
<1> SUFFICES ASSUME Inv, NEW c \in Client, reply[c].code = "forwarded"
             PROVE  Responsible("dns", walk[c].name) \subseteq gone[c]
    BY DEF NeverForwardsOwn
<1>1. walk[c] # None /\ walk[c].kind = "dns" /\ walk[c].status = "missing"
    BY DEF Inv, ReplyKinds, TypeOK
<1>2. ClosestZone
    BY SearchFindsClosest DEF Inv
<1> QED
    BY <1>1, <1>2 DEF ClosestZone

----------------------------------------------------------------------------
\* Files, searches, requests and replies of a node are what the types say, and only a
\* search that has ended is answered (dns.go, engine_http.go, engine_tls.go).
THEOREM EdgeTyping == Spec => []TypeOK
BY EdgeInv, PTL DEF Inv

\* Whatever zones the agent replaces meanwhile (agent.go, writeAtomically), the search
\* of an engine over its candidates finds the closest zone that was there throughout
\* (dns.go, findZoneForName; engine_http.go and engine_tls.go, findZoneForHost).
THEOREM EdgeClosest == Spec => []ClosestZone
<1>1. Inv => ClosestZone
    BY SearchFindsClosest DEF Inv
<1> QED
    BY EdgeInv, <1>1, PTL

\* A query is not forwarded when a zone of this node was there throughout for its name
\* (dns.go, ServeDNS).
THEOREM EdgeNeverForwards == Spec => []NeverForwardsOwn
BY EdgeInv, ForwardsMissing, PTL

\* However many records a zone has, an answer holds all of the right type and name, by
\* way of the indexes of the zone file (zone.go, WriteZone; dns.go, lookup).
THEOREM EdgeAnswersComplete == Spec => []AnswersComplete
BY EdgeInv, PTL DEF Inv

\* However many policies a route has, a request without TLS is served only if the first
\* for its path allows that (engine_http.go).
THEOREM EdgeRawRefused == Spec => []RawRefused
BY EdgeInv, PTL DEF Inv

=============================================================================
