-------------------------- MODULE ManagementProofs --------------------------
(***************************************************************************)
(* Proofs about Management, for any hostnames, payloads, drafts, clients'  *)
(* behaviour and number of agents.                                         *)
(*                                                                         *)
(* The first part is about data: what the builders make of an accepted     *)
(* payload is servable, the payload made of it is accepted and builds the  *)
(* same again, and an item that goes to the console's page and back loses  *)
(* nothing but spaces.  The second is about the master's process, the      *)
(* third about requests and the page: an object that can be decoded is     *)
(* what builders made of some accepted payload, and a request to store one *)
(* has the items the page kept.                                            *)
(***************************************************************************)
EXTENDS Management, FiniteSetTheorems, TLAPS

----------------------------------------------------------------------------
\* Records of a zone.

LEMMA TrimTwice ==
    ASSUME NEW t
    PROVE  Trim(Trim(t)) = Trim(t) /\ (Blank(Trim(t)) <=> Blank(t))
<1>1. \A s : s = [t EXCEPT !.pad = FALSE] => [s EXCEPT !.pad = FALSE] = s OBVIOUS
<1>2. Trim(Trim(t)) = Trim(t)
  <2>1. PICK s : s = Trim(t) OBVIOUS
  <2>2. s = [t EXCEPT !.pad = FALSE] BY <2>1 DEF Trim
  <2>3. Trim(s) = [s EXCEPT !.pad = FALSE] BY DEF Trim
  <2> QED BY <1>1, <2>1, <2>2, <2>3
<1> QED BY <1>2 DEF Blank

LEMMA RecordTypes ==
    RecordType = {"a", "aaaa", "cname", "mx", "ns", "ptr", "soa", "txt"}
BY DEF RecordType, Builder

\* The fields a builder asks for are fields of every payload, and its addresses addresses.
LEMMA BuilderFields ==
    ASSUME NEW t \in RecordType
    PROVE  /\ Builder[t].hosts \subseteq Hosts
           /\ DOMAIN Builder[t].numbers \subseteq Numbers
           /\ Builder[t].ip \subseteq IPv4 \cup IPv6
<1>1. Builder[t].hosts \subseteq Hosts BY DEF Hosts
<1>2. DOMAIN Builder[t].numbers \subseteq Numbers BY DEF Numbers
<1>3. Builder[t].ip \subseteq IPv4 \cup IPv6
  <2>1. \A x : x.ip = {} /\ "ip" \in DOMAIN x =>
          /\ [x EXCEPT !.ip = IPv4].ip = IPv4 /\ [x EXCEPT !.ip = IPv6].ip = IPv6
    OBVIOUS
  <2>2. Plain.ip = {} /\ "ip" \in DOMAIN Plain BY DEF Plain
  <2>3. A.ip = IPv4 /\ AAAA.ip = IPv6 BY <2>1, <2>2 DEF A, AAAA
  <2>4. CNAME.ip = {} /\ MX.ip = {} /\ NS.ip = {} /\ PTR.ip = {} /\ SOA.ip = {} /\ TXT.ip = {}
    BY <2>2 DEF CNAME, MX, NS, PTR, SOA, TXT
  <2> QED BY <2>3, <2>4, RecordTypes DEF Builder
<1> QED BY <1>1, <1>2, <1>3

LEMMA OrDefaultTwice ==
    ASSUME NEW n, NEW default
    PROVE  OrDefault(OrDefault(n, default), default) = OrDefault(n, default)
BY DEF OrDefault

\* A record that was built reads back as a payload that is accepted and builds it again.
LEMMA RecordRoundTrip ==
    ASSUME NEW p, Accepts(p)
    PROVE  LET q == PayloadOfRecord(Build(p))
           IN  Accepts(q) /\ Build(q) = Build(p) /\ q.type = p.type
<1> DEFINE b == Builder[p.type]
           r == Build(p)
           q == PayloadOfRecord(r)
<1>1. p.type \in RecordType BY DEF Accepts
<1>2. b.hosts \subseteq Hosts /\ DOMAIN b.numbers \subseteq Numbers /\ b.ip \subseteq IPv4 \cup IPv6
  BY <1>1, BuilderFields
<1>3. /\ r.type = p.type /\ r.name = p.name /\ r.ttl = OrDefault(p.ttl, DefaultTTL)
      /\ r.hosts = [h \in b.hosts |-> p.hosts[h]]
      /\ r.numbers = [n \in DOMAIN b.numbers |-> OrDefault(p.numbers[n], b.numbers[n])]
      /\ r.ip = IF b.ip = {} THEN NoAddress ELSE ParseIP(p.address)
      /\ r.values = IF b.texts THEN p.values ELSE <<>>
  BY DEF Build
<1>4. /\ q.type = r.type /\ q.name = r.name /\ q.ttl = r.ttl /\ q.values = r.values
      /\ q.hosts = [h \in Hosts |-> IF h \in DOMAIN r.hosts THEN r.hosts[h] ELSE Empty]
      /\ q.numbers = [n \in Numbers |-> IF n \in DOMAIN r.numbers THEN r.numbers[n] ELSE 0]
      /\ q.address = IF r.ip = NoAddress THEN Empty ELSE FormatIP(r.ip)
  BY DEF PayloadOfRecord
<1> HIDE DEF b, r, q
<1>5. \A h \in b.hosts : q.hosts[h] = p.hosts[h]
  BY <1>2, <1>3, <1>4
<1>6. \A n \in DOMAIN b.numbers : q.numbers[n] = OrDefault(p.numbers[n], b.numbers[n])
  BY <1>2, <1>3, <1>4
<1>7. b.ip # {} => ParseIP(q.address) = ParseIP(p.address) /\ ParseIP(p.address) \in b.ip
  <2> SUFFICES ASSUME b.ip # {} PROVE ParseIP(q.address) = ParseIP(p.address) /\ ParseIP(p.address) \in b.ip
    OBVIOUS
  <2>1. ParseIP(p.address) \in b.ip BY DEF Accepts, b
  <2>2. r.ip = ParseIP(p.address) BY <1>3
  <2>3. r.ip \in IPv4 \cup IPv6 /\ r.ip # NoAddress BY <2>1, <2>2, <1>2, AddressAssumption
  <2>4. q.address = FormatIP(r.ip) BY <2>3, <1>4
  <2>5. ParseIP(q.address) = r.ip BY <2>3, <2>4, AddressAssumption
  <2> QED BY <2>1, <2>2, <2>5
<1>8. Accepts(q)
  <2>1. Builder[q.type] = b BY <1>3, <1>4 DEF b
  <2>2. ~ Blank(q.name) BY <1>3, <1>4 DEF Accepts
  <2>3. \A h \in b.hosts : ~ Blank(q.hosts[h]) BY <1>5 DEF Accepts, b
  <2>4. b.ip # {} => ParseIP(q.address) \in b.ip BY <1>7
  <2>5. b.texts => q.values # <<>> /\ \A i \in 1..Len(q.values) : ~ Blank(q.values[i])
    BY <1>3, <1>4 DEF Accepts, b
  <2>6. q.type \in RecordType BY <1>1, <1>3, <1>4
  <2> QED BY <2>1, <2>2, <2>3, <2>4, <2>5, <2>6 DEF Accepts
<1>9. Build(q) = r
  <2>1. Builder[q.type] = b BY <1>3, <1>4 DEF b
  <2>2. OrDefault(q.ttl, DefaultTTL) = r.ttl BY <1>3, <1>4, OrDefaultTwice
  <2>3. [h \in b.hosts |-> q.hosts[h]] = r.hosts BY <1>3, <1>5
  <2>4. \A n \in DOMAIN b.numbers : OrDefault(q.numbers[n], b.numbers[n]) = q.numbers[n]
    BY <1>6, OrDefaultTwice
  <2>5. [n \in DOMAIN b.numbers |-> OrDefault(q.numbers[n], b.numbers[n])] = r.numbers
    BY <1>3, <1>6, <2>4
  <2>6. (IF b.ip = {} THEN NoAddress ELSE ParseIP(q.address)) = r.ip BY <1>3, <1>7
  <2>7. (IF b.texts THEN q.values ELSE <<>>) = r.values BY <1>3, <1>4
  <2>8. Build(q) = [type |-> q.type, name |-> q.name, ttl |-> r.ttl, hosts |-> r.hosts,
                    numbers |-> r.numbers, ip |-> r.ip, values |-> r.values]
    BY <2>1, <2>2, <2>3, <2>5, <2>6, <2>7 DEF Build
  <2>9. r = [type |-> r.type, name |-> r.name, ttl |-> r.ttl, hosts |-> r.hosts,
             numbers |-> r.numbers, ip |-> r.ip, values |-> r.values]
    BY DEF r, Build
  <2> QED BY <2>8, <2>9, <1>4
<1> QED BY <1>3, <1>4, <1>8, <1>9 DEF q, r

----------------------------------------------------------------------------
\* Zones.

IsSeq(s) == \E S : s \in Seq(S)

LEMMA SeqFacts ==
    ASSUME NEW s, IsSeq(s)
    PROVE  Len(s) \in Nat /\ DOMAIN s = 1..Len(s) /\ s = [i \in 1..Len(s) |-> s[i]]
BY DEF IsSeq

LEMMA SeqOfFunction ==
    ASSUME NEW s, NEW n \in Nat, s = [i \in 1..n |-> s[i]]
    PROVE  IsSeq(s) /\ Len(s) = n
<1> DEFINE S == {s[i] : i \in 1..n}
<1>1. s \in [1..n -> S] OBVIOUS
<1>2. s \in Seq(S) /\ Len(s) = n BY <1>1
<1> QED BY <1>2 DEF IsSeq

LEMMA SeqConcat ==
    ASSUME NEW s, NEW t, IsSeq(s), IsSeq(t)
    PROVE  /\ IsSeq(s \o t) /\ Len(s \o t) = Len(s) + Len(t)
           /\ \A i \in 1..Len(s) : (s \o t)[i] = s[i]
           /\ \A i \in 1..Len(t) : (s \o t)[Len(s) + i] = t[i]
           /\ \A i \in 1..Len(s \o t) : \/ i \in 1..Len(s) /\ (s \o t)[i] = s[i]
                                        \/ i - Len(s) \in 1..Len(t) /\ (s \o t)[i] = t[i - Len(s)]
<1>1. PICK S : s \in Seq(S) BY DEF IsSeq
<1>2. PICK T : t \in Seq(T) BY DEF IsSeq
<1>3. s \in Seq(S \cup T) /\ t \in Seq(S \cup T) BY <1>1, <1>2
<1>4. s \o t \in Seq(S \cup T) BY <1>3
<1> QED BY <1>3, <1>4 DEF IsSeq

LEMMA SeqConcatEmpty ==
    ASSUME NEW s, IsSeq(s)
    PROVE  s \o <<>> = s
<1>1. IsSeq(<<>>) /\ Len(<<>>) = 0
  <2>1. <<>> \in Seq({}) OBVIOUS
  <2> QED BY <2>1 DEF IsSeq
<1>2. IsSeq(s \o <<>>) /\ Len(s \o <<>>) = Len(s) /\ \A i \in 1..Len(s) : (s \o <<>>)[i] = s[i]
  BY <1>1, SeqConcat, SeqFacts
<1> QED BY <1>2, SeqFacts

LEMMA SeqOne ==
    ASSUME NEW x
    PROVE  IsSeq(<<x>>) /\ Len(<<x>>) = 1 /\ <<x>>[1] = x
<1>1. <<x>> \in Seq({x}) OBVIOUS
<1> QED BY <1>1 DEF IsSeq

LEMMA SeqNone == IsSeq(<<>>) /\ Len(<<>>) = 0
<1>1. <<>> \in Seq({}) OBVIOUS
<1> QED BY <1>1 DEF IsSeq

\* The records nobody gave are accepted.
LEMMA DefaultsAccepted ==
    ASSUME NEW h \in Text, NEW now
    PROVE  /\ Accepts(DefaultSOA(h, now)) /\ DefaultSOA(h, now).type = "soa"
           /\ Accepts(DefaultNS(h)) /\ DefaultNS(h).type = "ns"
<1> DEFINE zone == Absolute(h)
           soa == DefaultSOA(h, now)
           ns == DefaultNS(h)
<1>1. zone \in Text /\ zone.dot = TRUE
  <2>1. Trim(h) \in Text BY DEF Trim, Text
  <2> QED BY <2>1 DEF Absolute, Text
<1>2. \A t \in Text : t.dot = TRUE => ~ Blank(t)
  <2> SUFFICES ASSUME NEW t \in Text, t.dot = TRUE, Trim(t) = Empty PROVE FALSE
    BY DEF Blank
  <2>1. Trim(t).dot = TRUE BY DEF Trim, Text
  <2> QED BY <2>1 DEF Empty
<1>3. ASSUME NEW label \in Label PROVE ~ Blank(Under(label, zone))
  <2>1. <<label>> \o zone.labels \in Seq(Label) BY <1>1 DEF Text
  <2>2. Under(label, zone) \in Text /\ Under(label, zone).dot = TRUE
    BY <1>1, <2>1 DEF Under, Text
  <2> QED BY <1>2, <2>2
<1>4. "ns1" \in Label /\ "hostmaster" \in Label BY LabelAssumption
<1>5. Builder["soa"] = SOA /\ Builder["ns"] = NS BY DEF Builder
<1>6. /\ SOA.hosts = {"mname", "rname"} /\ SOA.ip = {} /\ SOA.texts = FALSE
      /\ NS.hosts = {"host"} /\ NS.ip = {} /\ NS.texts = FALSE
  <2>1. \A x, hosts, numbers : DOMAIN x = {"hosts", "numbers", "ip", "texts"} =>
          LET y == [x EXCEPT !.hosts = hosts, !.numbers = numbers]
          IN  y.hosts = hosts /\ y.ip = x.ip /\ y.texts = x.texts
    OBVIOUS
  <2>2. \A x, hosts : DOMAIN x = {"hosts", "numbers", "ip", "texts"} =>
          LET y == [x EXCEPT !.hosts = hosts]
          IN  y.hosts = hosts /\ y.ip = x.ip /\ y.texts = x.texts
    OBVIOUS
  <2>3. Plain.ip = {} /\ Plain.texts = FALSE /\ DOMAIN Plain = {"hosts", "numbers", "ip", "texts"}
    BY DEF Plain
  <2>4. SOA.hosts = {"mname", "rname"} /\ SOA.ip = {} /\ SOA.texts = FALSE
    BY <2>1, <2>3 DEF SOA
  <2>5. NS.hosts = {"host"} /\ NS.ip = {} /\ NS.texts = FALSE
    BY <2>2, <2>3 DEF NS
  <2> QED BY <2>4, <2>5
<1>7. {"mname", "rname", "host"} \subseteq Hosts
  BY <1>5, <1>6, BuilderFields, RecordTypes
<1>8. /\ soa.type = "soa" /\ soa.name = zone
      /\ soa.hosts["mname"] = Under("ns1", zone) /\ soa.hosts["rname"] = Under("hostmaster", zone)
  BY <1>7 DEF DefaultSOA, Given
<1>9. ns.type = "ns" /\ ns.name = zone /\ ns.hosts["host"] = Under("ns1", zone)
  BY <1>7 DEF DefaultNS, Given
<1> HIDE DEF zone, soa, ns
<1>10. Accepts(soa) BY <1>1, <1>2, <1>3, <1>4, <1>5, <1>6, <1>8, RecordTypes DEF Accepts
<1>11. Accepts(ns) BY <1>1, <1>2, <1>3, <1>4, <1>5, <1>6, <1>9, RecordTypes DEF Accepts
<1> QED BY <1>8, <1>9, <1>10, <1>11 DEF soa, ns

\* What a PUT stores of an accepted zone.
LEMMA ZoneRecords ==
    ASSUME NEW h \in Text, NEW now, NEW payload, IsSeq(payload), AcceptsZone(payload)
    PROVE  LET all == Completed(h, now, payload)
           IN  IsSeq(all) /\ AcceptsZone(all) /\ Has(all, "soa") /\ Has(all, "ns")
<1> DEFINE soa == IF Has(payload, "soa") THEN <<>> ELSE <<DefaultSOA(h, now)>>
           ns == IF Has(payload, "ns") THEN <<>> ELSE <<DefaultNS(h)>>
           one == payload \o soa
           all == one \o ns
<1>1. IsSeq(soa) /\ AcceptsZone(soa) /\ (~ Has(payload, "soa") => Len(soa) = 1 /\ soa[1].type = "soa")
  BY SeqOne, SeqNone, DefaultsAccepted DEF AcceptsZone
<1>2. IsSeq(ns) /\ AcceptsZone(ns) /\ (~ Has(payload, "ns") => Len(ns) = 1 /\ ns[1].type = "ns")
  BY SeqOne, SeqNone, DefaultsAccepted DEF AcceptsZone
<1> HIDE DEF soa, ns
<1>3. /\ IsSeq(one) /\ Len(one) = Len(payload) + Len(soa)
      /\ \A i \in 1..Len(payload) : one[i] = payload[i]
      /\ \A i \in 1..Len(soa) : one[Len(payload) + i] = soa[i]
      /\ \A i \in 1..Len(one) : \/ i \in 1..Len(payload) /\ one[i] = payload[i]
                                \/ i - Len(payload) \in 1..Len(soa) /\ one[i] = soa[i - Len(payload)]
  BY <1>1, SeqConcat
<1> HIDE DEF one
<1>4. /\ IsSeq(all) /\ Len(all) = Len(one) + Len(ns)
      /\ \A i \in 1..Len(one) : all[i] = one[i]
      /\ \A i \in 1..Len(ns) : all[Len(one) + i] = ns[i]
      /\ \A i \in 1..Len(all) : \/ i \in 1..Len(one) /\ all[i] = one[i]
                                \/ i - Len(one) \in 1..Len(ns) /\ all[i] = ns[i - Len(one)]
  BY <1>2, <1>3, SeqConcat
<1>5. Completed(h, now, payload) = all BY DEF Completed, all, one, soa, ns
<1> HIDE DEF all
<1>6. AcceptsZone(one) BY <1>1, <1>3 DEF AcceptsZone
<1>7. AcceptsZone(all) BY <1>2, <1>4, <1>6 DEF AcceptsZone
<1>8. Len(payload) \in Nat /\ Len(soa) \in Nat /\ Len(one) \in Nat /\ Len(ns) \in Nat /\ Len(all) \in Nat
  BY <1>1, <1>2, <1>3, <1>4, SeqFacts
<1>9. Has(all, "soa")
  <2>1. Has(one, "soa")
    <3>1. CASE Has(payload, "soa")
      <4>1. PICK i \in 1..Len(payload) : payload[i].type = "soa" BY <3>1 DEF Has
      <4>2. i \in 1..Len(one) /\ one[i].type = "soa" BY <4>1, <1>3, <1>8
      <4> QED BY <4>2 DEF Has
    <3>2. CASE ~ Has(payload, "soa")
      <4>1. Len(soa) = 1 /\ soa[1].type = "soa" BY <3>2, <1>1
      <4>2. 1 \in 1..Len(soa) BY <4>1
      <4>3. one[Len(payload) + 1] = soa[1] BY <4>2, <1>3
      <4>4. Len(payload) + 1 \in 1..Len(one) BY <4>1, <1>3, <1>8
      <4> QED BY <4>1, <4>3, <4>4 DEF Has
    <3> QED BY <3>1, <3>2
  <2>2. PICK i \in 1..Len(one) : one[i].type = "soa" BY <2>1 DEF Has
  <2>3. i \in 1..Len(all) /\ all[i].type = "soa" BY <2>2, <1>4, <1>8
  <2> QED BY <2>3 DEF Has
<1>10. Has(all, "ns")
  <2>1. CASE Has(payload, "ns")
    <3>1. PICK i \in 1..Len(payload) : payload[i].type = "ns" BY <2>1 DEF Has
    <3>2. i \in 1..Len(all) /\ all[i].type = "ns" BY <3>1, <1>3, <1>4, <1>8
    <3> QED BY <3>2 DEF Has
  <2>2. CASE ~ Has(payload, "ns")
    <3>1. Len(ns) = 1 /\ ns[1].type = "ns" BY <2>2, <1>2
    <3>2. 1 \in 1..Len(ns) BY <3>1
    <3>3. all[Len(one) + 1] = ns[1] BY <3>2, <1>4
    <3>4. Len(one) + 1 \in 1..Len(all) BY <3>1, <1>4, <1>8
    <3> QED BY <3>1, <3>3, <3>4 DEF Has
  <2> QED BY <2>1, <2>2
<1> QED BY <1>4, <1>5, <1>7, <1>9, <1>10

Built(all) == WriteZone([i \in 1..Len(all) |-> Build(all[i])])

\* A zone made of accepted records: its records and its payload.
LEMMA ZonePayload ==
    ASSUME NEW all, IsSeq(all), AcceptsZone(all), NEW z, z = Built(all)
    PROVE  /\ Len(z.records) = Len(all) /\ IsSeq(z.records)
           /\ \A i \in 1..Len(all) : z.records[i] = Build(all[i])
           /\ IsSeq(PayloadOf(z)) /\ Len(PayloadOf(z)) = Len(all)
           /\ \A i \in 1..Len(all) : PayloadOf(z)[i] = PayloadOfRecord(Build(all[i]))
           /\ AcceptsZone(PayloadOf(z))
           /\ Built(PayloadOf(z)) = z
           /\ \A t : Has(all, t) => Has(PayloadOf(z), t)
<1> DEFINE n == Len(all)
           r == z.records
           q == PayloadOf(z)
<1>1. n \in Nat BY SeqFacts
<1>2. r = [i \in 1..n |-> Build(all[i])] BY DEF WriteZone, Built
<1>3. IsSeq(r) /\ Len(r) = n BY <1>1, <1>2, SeqOfFunction
<1>4. q = [i \in 1..n |-> PayloadOfRecord(r[i])] BY <1>3 DEF PayloadOf
<1>5. IsSeq(q) /\ Len(q) = n BY <1>1, <1>4, SeqOfFunction
<1>6. \A i \in 1..n : r[i] = Build(all[i]) /\ q[i] = PayloadOfRecord(Build(all[i]))
  BY <1>2, <1>4
<1>7. \A i \in 1..n : Accepts(q[i]) /\ Build(q[i]) = r[i] /\ q[i].type = all[i].type
  <2> TAKE i \in 1..n
  <2>1. Accepts(all[i]) BY DEF AcceptsZone
  <2> QED BY <2>1, <1>6, RecordRoundTrip
<1> HIDE DEF n, r, q
<1>8. AcceptsZone(q) BY <1>5, <1>7 DEF AcceptsZone
<1>9. [i \in 1..Len(q) |-> Build(q[i])] = [i \in 1..n |-> Build(all[i])]
  BY <1>2, <1>5, <1>6, <1>7
<1>10. \A t : Has(all, t) => Has(q, t) BY <1>5, <1>7 DEF Has, n
<1>11. Built(q) = z BY <1>9 DEF Built, n
<1> QED BY <1>3, <1>5, <1>6, <1>8, <1>10, <1>11 DEF n, r, q

\* An accepted zone is servable, and its payload makes it again under any name at any time.
LEMMA ZoneSound ==
    ASSUME NEW h \in Text, NEW now, NEW payload, IsSeq(payload), AcceptsZone(payload)
    PROVE  LET z == ZoneOf(h, now, payload)
           IN  /\ ServableZone(z)
               /\ IsSeq(PayloadOf(z)) /\ AcceptsZone(PayloadOf(z))
               /\ \A g, later : ZoneOf(g, later, PayloadOf(z)) = z
<1> DEFINE all == Completed(h, now, payload)
           z == ZoneOf(h, now, payload)
           q == PayloadOf(z)
<1>1. IsSeq(all) /\ AcceptsZone(all) /\ Has(all, "soa") /\ Has(all, "ns")
  BY ZoneRecords
<1>2. z = Built(all) BY DEF ZoneOf, Built
<1> HIDE DEF all, z
<1>3. /\ Len(z.records) = Len(all)
      /\ \A i \in 1..Len(all) : z.records[i] = Build(all[i])
      /\ IsSeq(q) /\ AcceptsZone(q)
      /\ Built(q) = z
      /\ Has(q, "soa") /\ Has(q, "ns")
  <2>1. /\ Len(z.records) = Len(all)
        /\ \A i \in 1..Len(all) : z.records[i] = Build(all[i])
        /\ IsSeq(PayloadOf(z)) /\ AcceptsZone(PayloadOf(z))
        /\ Built(PayloadOf(z)) = z
        /\ \A t : Has(all, t) => Has(PayloadOf(z), t)
    BY <1>1, <1>2, ZonePayload
  <2> QED BY <2>1, <1>1
<1>4. \A g, later : ZoneOf(g, later, q) = z
  <2> TAKE g, later
  <2>1. Completed(g, later, q) = (q \o <<>>) \o <<>> BY <1>3 DEF Completed
  <2>2. Completed(g, later, q) = q BY <2>1, <1>3, SeqConcatEmpty
  <2> QED BY <2>2, <1>3 DEF ZoneOf, Built
<1>5. ServableZone(z)
  <2>1. z.indexes = [t \in RecordType |-> {i \in 1..Len(z.records) : z.records[i].type = t}]
    <3>1. \A r : WriteZone(r).records = r BY DEF WriteZone
    <3>2. \A r : WriteZone(r).indexes =
                   [t \in RecordType |-> {i \in 1..Len(r) : r[i].type = t}]
      BY DEF WriteZone
    <3> QED BY <3>1, <3>2, <1>2 DEF Built
  <2>2. \A i \in 1..Len(all) : Accepts(all[i]) BY <1>1 DEF AcceptsZone
  <2>3. \A p : Build(p).type = p.type BY DEF Build
  <2>4. \A t \in {"soa", "ns"} : \E i \in 1..Len(z.records) : z.records[i].type = t
    BY <1>1, <1>3, <2>3 DEF Has
  <2>5. z.indexes.soa # {} /\ z.indexes.ns # {} BY <2>1, <2>4, RecordTypes
  <2>6. ASSUME NEW i \in 1..Len(z.records)
        PROVE  LET r == z.records[i]
               IN  /\ ~ Blank(r.name) /\ r.ttl # 0
                   /\ \A x \in DOMAIN r.hosts : ~ Blank(r.hosts[x])
                   /\ r.type = "a" => r.ip \in IPv4
                   /\ r.type = "aaaa" => r.ip \in IPv6
                   /\ r.type = "txt" => r.values # <<>>
    <3> DEFINE p == all[i]
               r == Build(p)
               b == Builder[p.type]
    <3>1. Accepts(p) /\ z.records[i] = r BY <1>3, <2>2
    <3> HIDE DEF p
    <3>2. /\ r.type = p.type /\ r.name = p.name /\ r.ttl = OrDefault(p.ttl, DefaultTTL)
          /\ r.hosts = [x \in b.hosts |-> p.hosts[x]]
          /\ r.ip = IF b.ip = {} THEN NoAddress ELSE ParseIP(p.address)
          /\ r.values = IF b.texts THEN p.values ELSE <<>>
      BY DEF Build
    <3>3. /\ ~ Blank(p.name) /\ \A x \in b.hosts : ~ Blank(p.hosts[x])
          /\ b.ip # {} => ParseIP(p.address) \in b.ip
          /\ b.texts => p.values # <<>>
      BY <3>1 DEF Accepts
    <3>4. /\ p.type = "a" => b.ip = IPv4
          /\ p.type = "aaaa" => b.ip = IPv6
          /\ p.type = "txt" => b.texts
      <4>1. \A x, ip : DOMAIN x = {"hosts", "numbers", "ip", "texts"} =>
              [x EXCEPT !.ip = ip].ip = ip /\ [x EXCEPT !.texts = TRUE].texts = TRUE
        OBVIOUS
      <4>2. DOMAIN Plain = {"hosts", "numbers", "ip", "texts"} BY DEF Plain
      <4>3. A.ip = IPv4 /\ AAAA.ip = IPv6 /\ TXT.texts = TRUE BY <4>1, <4>2 DEF A, AAAA, TXT
      <4> QED BY <4>3 DEF Builder
    <3> HIDE DEF b, r
    <3>5. r.ttl # 0 BY <3>2 DEF OrDefault, DefaultTTL
    <3>6. \A x \in DOMAIN r.hosts : ~ Blank(r.hosts[x]) BY <3>2, <3>3
    <3>7. (r.type = "a" => r.ip \in IPv4) /\ (r.type = "aaaa" => r.ip \in IPv6)
      BY <3>2, <3>3, <3>4, AddressAssumption
    <3>8. r.type = "txt" => r.values # <<>> BY <3>2, <3>3, <3>4
    <3> QED BY <3>1, <3>2, <3>3, <3>5, <3>6, <3>7, <3>8
  <2> QED BY <2>1, <2>5, <2>6 DEF ServableZone
<1> QED BY <1>3, <1>4, <1>5 DEF z

----------------------------------------------------------------------------
\* Routes.

LEMMA TrimEmpty == Trim(Empty) = Empty /\ Blank(Empty)
<1>1. \A t : t.pad = FALSE /\ t = [labels |-> t.labels, dot |-> t.dot, caps |-> t.caps, pad |-> t.pad]
        => [t EXCEPT !.pad = FALSE] = t
  OBVIOUS
<1>2. Empty.pad = FALSE
      /\ Empty = [labels |-> Empty.labels, dot |-> Empty.dot, caps |-> Empty.caps, pad |-> Empty.pad]
  BY DEF Empty
<1>3. Trim(Empty) = Empty BY <1>1, <1>2 DEF Trim
<1> QED BY <1>3 DEF Blank

\* The payload of a stored policy, field by field.
LEMMA PolicyBack ==
    ASSUME NEW z
    PROVE  LET q == PolicyPayload(FromPolicy(z))
               m == z.match
           IN  /\ q.backend = z.backend /\ q.fix = z.fix /\ q.raw = z.raw
               /\ q.pathname = IF m.by = "pathname" THEN m.pathname ELSE Empty
               /\ q.kind = IF q.pathname = Empty THEN ""
                           ELSE IF m.by = "pathname" THEN m.kind ELSE "exact"
               /\ q.query = IF m.by = "query" THEN m.items ELSE <<>>
               /\ q.header = IF m.by = "header" THEN m.items ELSE <<>>
<1>1. PICK f : f = FromPolicy(z) OBVIOUS
<1>2. /\ DOMAIN f = {"backend", "fix", "raw", "kind", "pathname", "query", "header"}
      /\ f.backend = z.backend /\ f.fix = z.fix /\ f.raw = z.raw
      /\ f.kind = IF z.match.by = "pathname" THEN z.match.kind ELSE "exact"
      /\ f.pathname = IF z.match.by = "pathname" THEN z.match.pathname ELSE Empty
      /\ f.query = IF z.match.by = "query" THEN z.match.items ELSE <<>>
      /\ f.header = IF z.match.by = "header" THEN z.match.items ELSE <<>>
  BY <1>1 DEF FromPolicy
<1>3. PolicyPayload(f) = [f EXCEPT !.kind = IF f.pathname = Empty THEN "" ELSE f.kind]
  BY DEF PolicyPayload
<1> QED BY <1>1, <1>2, <1>3

ServablePolicy(p) ==
    /\ ~ Blank(p.backend) \/ p.fix # Empty
    /\ p.match.by = "pathname" => ~ Blank(p.match.pathname)
    /\ p.match.by # "pathname" => p.match.items # <<>> /\ KeyValuesGiven(p.match.items)

LEMMA PolicyRoundTrip ==
    ASSUME NEW p, TakesPolicy(p), BuildsPolicy(PolicyBuilder(p))
    PROVE  LET z == Policy(PolicyBuilder(p))
               q == PolicyPayload(FromPolicy(z))
           IN  /\ ServablePolicy(z)
               /\ TakesPolicy(q) /\ BuildsPolicy(PolicyBuilder(q)) /\ Policy(PolicyBuilder(q)) = z
<1> DEFINE b == PolicyBuilder(p)
           z == Policy(b)
           q == PolicyPayload(FromPolicy(z))
           c == PolicyBuilder(q)
           path == ~ Blank(p.pathname)
           query == ~ path /\ p.query # <<>>
<1>1. /\ b.backend = Trim(p.backend) /\ b.fix = p.fix /\ b.raw = p.raw
      /\ b.kind = IF path /\ p.kind # "" THEN p.kind ELSE "exact"
      /\ b.pathname = Trim(p.pathname)
      /\ b.query = IF query THEN p.query ELSE <<>>
      /\ b.header = IF path \/ query THEN <<>> ELSE p.header
  BY DEF PolicyBuilder
<1>2. /\ q.backend = z.backend /\ q.fix = z.fix /\ q.raw = z.raw
      /\ q.pathname = IF z.match.by = "pathname" THEN z.match.pathname ELSE Empty
      /\ q.kind = IF q.pathname = Empty THEN ""
                  ELSE IF z.match.by = "pathname" THEN z.match.kind ELSE "exact"
      /\ q.query = IF z.match.by = "query" THEN z.match.items ELSE <<>>
      /\ q.header = IF z.match.by = "header" THEN z.match.items ELSE <<>>
  BY PolicyBack
<1>3. /\ c.backend = Trim(q.backend) /\ c.fix = q.fix /\ c.raw = q.raw
      /\ c.kind = IF ~ Blank(q.pathname) /\ q.kind # "" THEN q.kind ELSE "exact"
      /\ c.pathname = Trim(q.pathname)
      /\ c.query = IF Blank(q.pathname) /\ q.query # <<>> THEN q.query ELSE <<>>
      /\ c.header = IF ~ Blank(q.pathname) \/ q.query # <<>> THEN <<>> ELSE q.header
  BY DEF PolicyBuilder
<1>4. /\ z.backend = b.backend /\ z.fix = b.fix /\ z.raw = b.raw
      /\ b.pathname # Empty => z.match = [by |-> "pathname", kind |-> b.kind, pathname |-> b.pathname]
      /\ b.pathname = Empty /\ b.query # <<>> => z.match = [by |-> "query", items |-> b.query]
      /\ b.pathname = Empty /\ b.query = <<>> => z.match = [by |-> "header", items |-> b.header]
  BY DEF Policy
<1>5. /\ Policy(c).backend = c.backend /\ Policy(c).fix = c.fix /\ Policy(c).raw = c.raw
      /\ c.pathname # Empty =>
            Policy(c).match = [by |-> "pathname", kind |-> c.kind, pathname |-> c.pathname]
      /\ c.pathname = Empty /\ c.query # <<>> => Policy(c).match = [by |-> "query", items |-> c.query]
      /\ c.pathname = Empty /\ c.query = <<>> => Policy(c).match = [by |-> "header", items |-> c.header]
  BY DEF Policy
<1>6. /\ z = [backend |-> z.backend, fix |-> z.fix, raw |-> z.raw, match |-> z.match]
      /\ Policy(c) = [backend |-> Policy(c).backend, fix |-> Policy(c).fix,
                      raw |-> Policy(c).raw, match |-> Policy(c).match]
  BY DEF Policy
<1> HIDE DEF b, z, q, c
<1>7. /\ b.backend # Empty \/ b.fix # Empty
      /\ \/ b.pathname # Empty
         \/ b.pathname = Empty /\ b.query # <<>> /\ KeyValuesGiven(b.query)
         \/ b.pathname = Empty /\ b.query = <<>> /\ b.header # <<>> /\ KeyValuesGiven(b.header)
  BY DEF BuildsPolicy, b
<1>8. Trim(b.backend) = b.backend /\ Trim(b.pathname) = b.pathname
  BY <1>1, TrimTwice
<1>9. c.backend = b.backend /\ c.fix = b.fix /\ c.raw = b.raw
  BY <1>2, <1>3, <1>4, <1>8
<1>10. Trim(Empty) = Empty BY TrimEmpty
<1>11. ServablePolicy(z) /\ TakesPolicy(q) /\ BuildsPolicy(c) /\ Policy(c).match = z.match
  <2>1. CASE b.pathname # Empty
    <3>1. path BY <2>1, <1>1 DEF Blank
    <3>2. b.kind \in PathnameKinds /\ b.kind # ""
      BY <3>1, <1>1 DEF TakesPolicy, PathnameKinds
    <3>3. /\ z.match = [by |-> "pathname", kind |-> b.kind, pathname |-> b.pathname]
          /\ z.match.by = "pathname" /\ z.match.kind = b.kind /\ z.match.pathname = b.pathname
      BY <2>1, <1>4
    <3>4. q.pathname = b.pathname /\ q.kind = b.kind BY <3>3, <2>1, <1>2
    <3>5. ~ Blank(q.pathname) BY <3>4, <2>1, <1>8 DEF Blank
    <3>6. c.pathname = b.pathname /\ c.kind = b.kind BY <3>2, <3>4, <3>5, <1>3, <1>8
    <3>7. Policy(c).match = z.match BY <3>3, <3>6, <2>1, <1>5
    <3>8. TakesPolicy(q) BY <3>2, <3>4, <3>5 DEF TakesPolicy
    <3>9. BuildsPolicy(c) BY <3>6, <2>1, <1>7, <1>9 DEF BuildsPolicy
    <3>10. ServablePolicy(z) BY <3>3, <2>1, <1>4, <1>7, <1>8 DEF ServablePolicy, Blank
    <3> QED BY <3>7, <3>8, <3>9, <3>10
  <2>2. CASE b.pathname = Empty /\ b.query # <<>>
    <3>1. /\ z.match = [by |-> "query", items |-> b.query]
          /\ z.match.by = "query" /\ z.match.items = b.query
      BY <2>2, <1>4
    <3>2. q.pathname = Empty /\ q.query = b.query /\ Blank(q.pathname)
      BY <3>1, <1>2, <1>10 DEF Blank
    <3>3. c.pathname = Empty /\ c.query = b.query BY <3>2, <2>2, <1>3, <1>10
    <3>4. Policy(c).match = z.match BY <3>1, <3>3, <2>2, <1>5
    <3>5. TakesPolicy(q) BY <3>2, <2>2 DEF TakesPolicy
    <3>6. KeyValuesGiven(b.query) BY <2>2, <1>7
    <3>7. BuildsPolicy(c) BY <3>3, <3>6, <2>2, <1>7, <1>9 DEF BuildsPolicy
    <3>8. ServablePolicy(z) BY <3>1, <3>6, <2>2, <1>4, <1>7, <1>8 DEF ServablePolicy, Blank
    <3> QED BY <3>4, <3>5, <3>7, <3>8
  <2>3. CASE b.pathname = Empty /\ b.query = <<>>
    <3>1. /\ z.match = [by |-> "header", items |-> b.header]
          /\ z.match.by = "header" /\ z.match.items = b.header
      BY <2>3, <1>4
    <3>2. b.header # <<>> /\ KeyValuesGiven(b.header) BY <2>3, <1>7
    <3>3. q.pathname = Empty /\ q.query = <<>> /\ q.header = b.header /\ Blank(q.pathname)
      BY <3>1, <1>2, <1>10 DEF Blank
    <3>4. c.pathname = Empty /\ c.query = <<>> /\ c.header = b.header
      BY <3>3, <2>3, <1>3, <1>10
    <3>5. Policy(c).match = z.match BY <3>1, <3>4, <1>5
    <3>6. TakesPolicy(q) BY <3>2, <3>3 DEF TakesPolicy
    <3>7. BuildsPolicy(c) BY <3>2, <3>4, <1>7, <1>9 DEF BuildsPolicy
    <3>8. ServablePolicy(z) BY <3>1, <3>2, <1>4, <1>7, <1>8 DEF ServablePolicy, Blank
    <3> QED BY <3>5, <3>6, <3>7, <3>8
  <2> QED BY <2>1, <2>2, <2>3
<1>12. Policy(c) = z BY <1>4, <1>5, <1>6, <1>9, <1>11
<1> QED BY <1>11, <1>12 DEF b, z, q, c

\* An accepted HTTP route is servable, and its payload makes it again.
LEMMA HTTPSound ==
    ASSUME NEW h, ~ Blank(h), NEW payload, IsSeq(payload), AcceptsHTTP(payload)
    PROVE  LET z == HTTPRoute(h, payload)
           IN  /\ z.hostname = h /\ ServableRoute(z)
               /\ IsSeq(HTTPPayload(z)) /\ AcceptsHTTP(HTTPPayload(z))
               /\ HTTPRoute(h, HTTPPayload(z)) = z
<1> DEFINE n == Len(payload)
           z == HTTPRoute(h, payload)
           q == HTTPPayload(z)
<1>1. n \in Nat BY SeqFacts
<1>2. z = [hostname |-> h, policies |-> [i \in 1..n |-> Policy(PolicyBuilder(payload[i]))]]
  BY DEF HTTPRoute
<1> HIDE DEF z
<1>3. z.hostname = h /\ z.policies = [i \in 1..n |-> Policy(PolicyBuilder(payload[i]))]
  BY <1>2
<1>4. Len(z.policies) = n BY <1>1, <1>3, SeqOfFunction
<1>5. q = [i \in 1..n |-> PolicyPayload(FromPolicy(z.policies[i]))] BY <1>4 DEF HTTPPayload
<1>6. IsSeq(q) /\ Len(q) = n BY <1>1, <1>5, SeqOfFunction
<1> HIDE DEF n, q
<1>7. ASSUME NEW i \in 1..n
      PROVE  /\ ServablePolicy(z.policies[i])
             /\ TakesPolicy(q[i]) /\ BuildsPolicy(PolicyBuilder(q[i]))
             /\ Policy(PolicyBuilder(q[i])) = z.policies[i]
  <2>1. TakesPolicy(payload[i]) /\ BuildsPolicy(PolicyBuilder(payload[i])) BY DEF AcceptsHTTP, n
  <2>2. z.policies[i] = Policy(PolicyBuilder(payload[i])) BY <1>3
  <2>3. q[i] = PolicyPayload(FromPolicy(z.policies[i])) BY <1>5
  <2> QED BY <2>1, <2>2, <2>3, PolicyRoundTrip
<1>8. ServableRoute(z)
  BY <1>3, <1>4, <1>7 DEF ServableRoute, ServablePolicy
<1>9. AcceptsHTTP(q) BY <1>6, <1>7 DEF AcceptsHTTP
<1>10. HTTPRoute(h, q) = z
  <2>1. [i \in 1..Len(q) |-> Policy(PolicyBuilder(q[i]))]
          = [i \in 1..n |-> Policy(PolicyBuilder(payload[i]))]
    <3>1. \A i \in 1..n : Policy(PolicyBuilder(q[i])) = Policy(PolicyBuilder(payload[i]))
      BY <1>3, <1>7
    <3> QED BY <3>1, <1>6
  <2> QED BY <2>1, <1>2 DEF HTTPRoute
<1> QED BY <1>3, <1>6, <1>8, <1>9, <1>10 DEF z, q

TLSNames == {"sni", "cert", "key", "kind", "host", "port"}

\* An accepted TLS route is servable, and its payload makes it again.
LEMMA TLSSound ==
    ASSUME NEW h, ~ Blank(h), Trim(h) = h, NEW p, DOMAIN p = TLSNames, AcceptsTLS(h, p)
    PROVE  LET z == TLSRoute(h, TLSBuilder(h, p))
               q == FromTLS(z)
           IN  /\ z.hostname = h /\ ServableTLS(z)
               /\ DOMAIN q = TLSNames /\ AcceptsTLS(h, q)
               /\ TLSRoute(h, TLSBuilder(h, q)) = z
<1>1. ASSUME NEW r, DOMAIN r = TLSNames
      PROVE  LET b == TLSBuilder(h, r)
             IN  /\ b.sni = IF Blank(r.sni) THEN h ELSE Trim(r.sni)
                 /\ b.kind = TLSKind(r.kind)
                 /\ b.cert = r.cert /\ b.key = r.key /\ b.host = r.host /\ b.port = r.port
  BY <1>1 DEF TLSBuilder, TLSNames
<1> DEFINE b == TLSBuilder(h, p)
           z == TLSRoute(h, b)
           q == FromTLS(z)
           c == TLSBuilder(h, q)
<1>2. /\ b.sni = IF Blank(p.sni) THEN h ELSE Trim(p.sni)
      /\ b.kind = TLSKind(p.kind)
  BY <1>1
<1>3. BuildsTLS(b) /\ b.kind \in TLSKinds BY <1>2 DEF AcceptsTLS
<1>4. Trim(b.sni) = b.sni /\ ~ Blank(b.sni) BY <1>2, <1>3, TrimTwice DEF BuildsTLS
<1> HIDE DEF b
<1>5. /\ z = [hostname |-> h, sni |-> b.sni, cert |-> b.cert, key |-> b.key, kind |-> b.kind,
              backend |-> IF Blank(b.host) THEN NoBackend ELSE [host |-> b.host, port |-> b.port]]
      /\ z.hostname = h /\ z.sni = b.sni /\ z.cert = b.cert /\ z.key = b.key /\ z.kind = b.kind
      /\ z.backend = IF Blank(b.host) THEN NoBackend ELSE [host |-> b.host, port |-> b.port]
  BY DEF TLSRoute
<1> HIDE DEF z
<1>6. /\ DOMAIN q = TLSNames
      /\ q.sni = b.sni /\ q.cert = b.cert /\ q.key = b.key /\ q.kind = b.kind
      /\ q.host = z.backend.host /\ q.port = z.backend.port
  BY <1>5 DEF FromTLS, TLSNames
<1> HIDE DEF q
<1>7. /\ c.sni = IF Blank(q.sni) THEN h ELSE Trim(q.sni)
      /\ c.kind = TLSKind(q.kind)
      /\ c.cert = q.cert /\ c.key = q.key /\ c.host = q.host /\ c.port = q.port
  BY <1>1, <1>6
<1> HIDE DEF c
<1>8. TLSKind(b.kind) = b.kind BY <1>3 DEF TLSKind, TLSKinds
<1>9. c.sni = b.sni /\ c.kind = b.kind /\ c.cert = b.cert /\ c.key = b.key
  BY <1>4, <1>6, <1>7, <1>8
<1>10. NoBackend.host = Empty /\ NoBackend.port = 0 BY DEF NoBackend
<1>11. \/ /\ Blank(b.host) /\ b.port = 0 /\ z.backend = NoBackend
          /\ Blank(c.host) /\ c.port = 0
       \/ /\ ~ Blank(b.host) /\ b.port # 0 /\ z.backend = [host |-> b.host, port |-> b.port]
          /\ c.host = b.host /\ c.port = b.port
  BY <1>3, <1>5, <1>6, <1>7, <1>10, TrimEmpty DEF BuildsTLS
<1>12. BuildsTLS(c) BY <1>3, <1>9, <1>11 DEF BuildsTLS
<1>13. AcceptsTLS(h, q) BY <1>3, <1>6, <1>8, <1>12 DEF AcceptsTLS, c
<1>14. TLSRoute(h, c) = z
  <2>1. (IF Blank(c.host) THEN NoBackend ELSE [host |-> c.host, port |-> c.port]) = z.backend
    BY <1>11
  <2> QED BY <2>1, <1>5, <1>9 DEF TLSRoute
<1>15. ServableTLS(z)
  <2>1. \A x, y : [host |-> x, port |-> y].host = x /\ [host |-> x, port |-> y].port = y
    OBVIOUS
  <2> QED BY <2>1, <1>3, <1>4, <1>5, <1>10, <1>11, TrimEmpty DEF ServableTLS, BuildsTLS
<1> QED BY <1>5, <1>6, <1>13, <1>14, <1>15 DEF c, q, z, b

----------------------------------------------------------------------------
\* What the console makes of sequences.

\* What the console filters is a sequence again, and the same one if nothing is taken out.
LEMMA WithoutSeq ==
    ASSUME NEW s, IsSeq(s), NEW x
    PROVE  /\ IsSeq(Without(s, x))
           /\ (\A i \in 1..Len(s) : s[i] # x) => Without(s, x) = s
<1> DEFINE kept == {i \in 1..Len(s) : s[i] # x}
           nth(n) == CHOOSE i \in kept : Cardinality({j \in kept : j <= i}) = n
<1>1. Len(s) \in Nat /\ s = [i \in 1..Len(s) |-> s[i]] BY SeqFacts
<1>2. IsFiniteSet(kept)
  <2>1. IsFiniteSet(1..Len(s)) BY <1>1, FS_Interval
  <2>2. kept \subseteq 1..Len(s) OBVIOUS
  <2> QED BY <2>1, <2>2, FS_Subset
<1>3. Cardinality(kept) \in Nat BY <1>2, FS_CardinalityType
<1>4. PICK n : n = Cardinality(kept) OBVIOUS
<1>5. Without(s, x) = [i \in 1..n |-> s[nth(i)]] BY <1>4 DEF Without
<1>6. IsSeq(Without(s, x)) /\ Len(Without(s, x)) = n
  <2>1. PICK w : w = Without(s, x) OBVIOUS
  <2>2. w = [i \in 1..n |-> w[i]] BY <1>5, <2>1
  <2>3. IsSeq(w) /\ Len(w) = n BY <1>3, <1>4, <2>2, SeqOfFunction
  <2> QED BY <2>1, <2>3
<1>7. ASSUME \A i \in 1..Len(s) : s[i] # x
      PROVE  Without(s, x) = s
  <2>1. kept = 1..Len(s) BY <1>7
  <2>2. n = Len(s)
    <3>1. Cardinality(1..Len(s)) = Len(s) BY <1>1, FS_Interval
    <3> QED BY <1>4, <2>1, <3>1
  <2>3. ASSUME NEW m \in 1..Len(s) PROVE nth(m) = m
    <3>1. \A i \in 1..Len(s) : Cardinality({j \in kept : j <= i}) = i
      <4> TAKE i \in 1..Len(s)
      <4>1. {j \in kept : j <= i} = 1..i BY <1>1, <2>1
      <4>2. Cardinality(1..i) = i BY <1>1, FS_Interval
      <4> QED BY <4>1, <4>2
    <3> HIDE DEF kept
    <3>2. m \in kept /\ Cardinality({j \in kept : j <= m}) = m BY <2>1, <3>1
    <3>3. nth(m) \in kept /\ Cardinality({j \in kept : j <= nth(m)}) = m BY <3>2
    <3> QED BY <2>1, <3>1, <3>3
  <2> HIDE DEF nth, kept
  <2> QED BY <1>1, <1>5, <2>2, <2>3
<1> QED BY <1>6, <1>7

----------------------------------------------------------------------------
\* Records.

TrimmedRecord(z) ==
    [z EXCEPT !.name = Trim(z.name), !.hosts = [h \in DOMAIN z.hosts |-> Trim(z.hosts[h])],
              !.values = [i \in 1..Len(z.values) |-> Trim(z.values[i])]]

\* A record that went to the page and came back untouched is stored without the spaces.
LEMMA RecordKept ==
    ASSUME NEW p, Accepts(p), IsSeq(p.values), NEW z, z = Build(p)
    PROVE  Build(DNSItem(PayloadOfRecord(z))) = TrimmedRecord(z)
<1> DEFINE b == Builder[p.type]
           q == PayloadOfRecord(z)
           values == [i \in 1..Len(z.values) |-> Trim(z.values[i])]
           d == DNSItem(q)
<1>1. p.type \in RecordType BY DEF Accepts
<1>2. b.hosts \subseteq Hosts /\ DOMAIN b.numbers \subseteq Numbers /\ b.ip \subseteq IPv4 \cup IPv6
  BY <1>1, BuilderFields
<1>3. /\ z = [type |-> z.type, name |-> z.name, ttl |-> z.ttl, hosts |-> z.hosts,
              numbers |-> z.numbers, ip |-> z.ip, values |-> z.values]
      /\ z.type = p.type /\ z.name = p.name /\ z.ttl = OrDefault(p.ttl, DefaultTTL)
      /\ z.hosts = [h \in b.hosts |-> p.hosts[h]]
      /\ z.numbers = [n \in DOMAIN b.numbers |-> OrDefault(p.numbers[n], b.numbers[n])]
      /\ z.ip = IF b.ip = {} THEN NoAddress ELSE ParseIP(p.address)
      /\ z.values = IF b.texts THEN p.values ELSE <<>>
  BY DEF Build
<1>4. /\ DOMAIN q = {"type", "name", "ttl", "hosts", "numbers", "address", "values"}
      /\ q.type = z.type /\ q.name = z.name /\ q.ttl = z.ttl /\ q.values = z.values
      /\ q.hosts = [h \in Hosts |-> IF h \in DOMAIN z.hosts THEN z.hosts[h] ELSE Empty]
      /\ q.numbers = [n \in Numbers |-> IF n \in DOMAIN z.numbers THEN z.numbers[n] ELSE 0]
      /\ q.address = IF z.ip = NoAddress THEN Empty ELSE FormatIP(z.ip)
  BY DEF PayloadOfRecord
<1> HIDE DEF b, q
<1>5. /\ d.type = q.type /\ d.name = Trim(q.name) /\ d.ttl = q.ttl /\ d.numbers = q.numbers
      /\ d.address = Trim(q.address)
      /\ d.hosts = [h \in DOMAIN q.hosts |-> Trim(q.hosts[h])]
      /\ d.values = Without([i \in 1..Len(q.values) |-> Trim(q.values[i])], Empty)
  BY <1>4 DEF DNSItem
<1> HIDE DEF d
<1>6. Builder[d.type] = b BY <1>3, <1>4, <1>5 DEF b
<1>7. OrDefault(d.ttl, DefaultTTL) = z.ttl BY <1>3, <1>4, <1>5, OrDefaultTwice
<1>8. [h \in b.hosts |-> d.hosts[h]] = [h \in DOMAIN z.hosts |-> Trim(z.hosts[h])]
  BY <1>2, <1>3, <1>4, <1>5
<1>9. [n \in DOMAIN b.numbers |-> OrDefault(d.numbers[n], b.numbers[n])] = z.numbers
  <2>1. \A n \in DOMAIN b.numbers : d.numbers[n] = OrDefault(p.numbers[n], b.numbers[n])
    BY <1>2, <1>3, <1>4, <1>5
  <2>2. \A n \in DOMAIN b.numbers : OrDefault(d.numbers[n], b.numbers[n]) = d.numbers[n]
    BY <2>1, OrDefaultTwice
  <2> QED BY <1>3, <2>1, <2>2
<1>10. (IF b.ip = {} THEN NoAddress ELSE ParseIP(d.address)) = z.ip
  <2>1. CASE b.ip = {} BY <2>1, <1>3
  <2>2. CASE b.ip # {}
    <3>1. ParseIP(p.address) \in b.ip BY <2>2 DEF Accepts, b
    <3>2. z.ip \in IPv4 \cup IPv6 /\ z.ip # NoAddress BY <2>2, <3>1, <1>2, <1>3, AddressAssumption
    <3>3. d.address = Trim(FormatIP(z.ip)) BY <3>2, <1>4, <1>5
    <3>4. ParseIP(d.address) = z.ip BY <3>2, <3>3, AddressAssumption
    <3> QED BY <2>2, <3>4
  <2> QED BY <2>1, <2>2
<1>11. (IF b.texts THEN d.values ELSE <<>>) = values
  <2>1. CASE b.texts
    <3>1. z.values = p.values BY <2>1, <1>3
    <3>2. Len(z.values) \in Nat BY <3>1, SeqFacts
    <3>3. values = [i \in 1..Len(z.values) |-> values[i]] OBVIOUS
    <3>4. \A i \in 1..Len(z.values) : values[i] = Trim(z.values[i]) OBVIOUS
    <3> HIDE DEF values
    <3>5. IsSeq(values) /\ Len(values) = Len(z.values) BY <3>2, <3>3, SeqOfFunction
    <3>6. \A i \in 1..Len(z.values) : ~ Blank(z.values[i]) BY <2>1, <3>1 DEF Accepts, b
    <3>7. \A i \in 1..Len(values) : values[i] # Empty BY <3>4, <3>5, <3>6 DEF Blank
    <3>8. Without(values, Empty) = values BY <3>5, <3>7, WithoutSeq
    <3>9. d.values = Without(values, Empty) BY <1>4, <1>5 DEF values
    <3> QED BY <2>1, <3>8, <3>9
  <2>2. CASE ~ b.texts
    <3>1. z.values = <<>> BY <2>2, <1>3
    <3>2. values = <<>> BY <3>1
    <3> QED BY <2>2, <3>2
  <2> QED BY <2>1, <2>2
<1>12. d.type = z.type /\ d.name = Trim(z.name) BY <1>4, <1>5
<1>13. PICK hosts : hosts = [h \in DOMAIN z.hosts |-> Trim(z.hosts[h])] OBVIOUS
<1> HIDE DEF values
<1>14. Build(d) = [type |-> z.type, name |-> Trim(z.name), ttl |-> z.ttl, hosts |-> hosts,
                   numbers |-> z.numbers, ip |-> z.ip, values |-> values]
  BY <1>6, <1>7, <1>8, <1>9, <1>10, <1>11, <1>12, <1>13 DEF Build
<1>15. [z EXCEPT !.name = Trim(z.name), !.hosts = hosts, !.values = values]
         = [type |-> z.type, name |-> Trim(z.name), ttl |-> z.ttl, hosts |-> hosts,
            numbers |-> z.numbers, ip |-> z.ip, values |-> values]
  <2>1. PICK name : name = Trim(z.name) OBVIOUS
  <2>2. DOMAIN z = {"type", "name", "ttl", "hosts", "numbers", "ip", "values"} BY <1>3
  <2>3. PICK y : y = [z EXCEPT !.name = name, !.hosts = hosts, !.values = values] OBVIOUS
  <2>4. y = [i \in {"type", "name", "ttl", "hosts", "numbers", "ip", "values"} |-> y[i]]
    BY <2>2, <2>3
  <2>5. /\ y.type = z.type /\ y.name = name /\ y.ttl = z.ttl /\ y.hosts = hosts
        /\ y.numbers = z.numbers /\ y.ip = z.ip /\ y.values = values
    BY <2>2, <2>3
  <2>6. y = [type |-> z.type, name |-> name, ttl |-> z.ttl, hosts |-> hosts,
             numbers |-> z.numbers, ip |-> z.ip, values |-> values]
    BY <2>4, <2>5
  <2> QED BY <2>1, <2>3, <2>6
<1> QED BY <1>13, <1>14, <1>15 DEF d, q, values, TrimmedRecord

----------------------------------------------------------------------------
\* Policies.

\* The pairs of a match, none of them blank, all stay.
LEMMA KeyValuesKept ==
    ASSUME NEW items, IsSeq(items)
    PROVE  /\ IsSeq(KeyValues(items))
           /\ KeyValuesGiven(items) => Len(KeyValues(items)) = Len(items)
<1> DEFINE none == [key |-> Empty, value |-> Empty]
           trimmed == [i \in 1..Len(items) |-> [key |-> Trim(items[i].key), value |-> Trim(items[i].value)]]
<1>1. Len(items) \in Nat BY SeqFacts
<1>2. KeyValues(items) = Without(trimmed, none) BY DEF KeyValues
<1>3. trimmed = [i \in 1..Len(items) |-> trimmed[i]] OBVIOUS
<1>4. \A i \in 1..Len(items) : trimmed[i].key = Trim(items[i].key) OBVIOUS
<1>5. none.key = Empty OBVIOUS
<1> HIDE DEF trimmed, none
<1>6. IsSeq(trimmed) /\ Len(trimmed) = Len(items) BY <1>1, <1>3, SeqOfFunction
<1>7. IsSeq(KeyValues(items)) BY <1>2, <1>6, WithoutSeq
<1>8. ASSUME KeyValuesGiven(items) PROVE Len(KeyValues(items)) = Len(items)
  <2>1. \A i \in 1..Len(trimmed) : trimmed[i] # none
    BY <1>4, <1>5, <1>6, <1>8 DEF KeyValuesGiven, Blank
  <2> QED BY <1>2, <1>6, <2>1, WithoutSeq
<1> QED BY <1>7, <1>8

TrimmedPolicy(z) ==
    [z EXCEPT !.fix = Empty,
              !.match = IF z.match.by = "pathname" THEN z.match
                        ELSE [by |-> z.match.by, items |-> KeyValues(z.match.items)]]

\* A policy that went to the page and came back untouched has lost its fixed content, and is
\* the same but for spaces.
LEMMA PolicyKept ==
    ASSUME NEW p, TakesPolicy(p), BuildsPolicy(PolicyBuilder(p)), IsSeq(p.query), IsSeq(p.header),
           NEW z, z = Policy(PolicyBuilder(p))
    PROVE  Policy(PolicyBuilder(HTTPItem(PolicyPayload(FromPolicy(z)), FALSE))) = TrimmedPolicy(z)
<1> DEFINE b == PolicyBuilder(p)
           q == PolicyPayload(FromPolicy(z))
           d == HTTPItem(q, FALSE)
           c == PolicyBuilder(d)
           path == ~ Blank(p.pathname)
           query == ~ path /\ p.query # <<>>
           match == IF z.match.by = "pathname" THEN z.match
                    ELSE [by |-> z.match.by, items |-> KeyValues(z.match.items)]
<1>1. /\ b.backend = Trim(p.backend) /\ b.fix = p.fix /\ b.raw = p.raw
      /\ b.kind = IF path /\ p.kind # "" THEN p.kind ELSE "exact"
      /\ b.pathname = Trim(p.pathname)
      /\ b.query = IF query THEN p.query ELSE <<>>
      /\ b.header = IF path \/ query THEN <<>> ELSE p.header
  BY DEF PolicyBuilder
<1>2. /\ q.backend = z.backend /\ q.fix = z.fix /\ q.raw = z.raw
      /\ q.pathname = IF z.match.by = "pathname" THEN z.match.pathname ELSE Empty
      /\ q.kind = IF q.pathname = Empty THEN ""
                  ELSE IF z.match.by = "pathname" THEN z.match.kind ELSE "exact"
      /\ q.query = IF z.match.by = "query" THEN z.match.items ELSE <<>>
      /\ q.header = IF z.match.by = "header" THEN z.match.items ELSE <<>>
  BY PolicyBack
<1>3. DOMAIN q = {"backend", "fix", "raw", "kind", "pathname", "query", "header"}
  BY DEF PolicyPayload, FromPolicy
<1>4. /\ z = [backend |-> z.backend, fix |-> z.fix, raw |-> z.raw, match |-> z.match]
      /\ z.backend = b.backend /\ z.fix = b.fix /\ z.raw = b.raw
      /\ b.pathname # Empty => z.match = [by |-> "pathname", kind |-> b.kind, pathname |-> b.pathname]
      /\ b.pathname = Empty /\ b.query # <<>> => z.match = [by |-> "query", items |-> b.query]
      /\ b.pathname = Empty /\ b.query = <<>> => z.match = [by |-> "header", items |-> b.header]
  BY DEF Policy
<1>5. /\ b.backend # Empty \/ b.fix # Empty
      /\ \/ b.pathname # Empty
         \/ b.pathname = Empty /\ b.query # <<>> /\ KeyValuesGiven(b.query)
         \/ b.pathname = Empty /\ b.query = <<>> /\ b.header # <<>> /\ KeyValuesGiven(b.header)
  BY DEF BuildsPolicy
<1> HIDE DEF b, q
<1>6. /\ d.backend = Trim(q.backend) /\ d.fix = Empty /\ d.raw = q.raw /\ d.kind = q.kind
      /\ d.pathname = Trim(q.pathname) /\ d.query = KeyValues(q.query)
      /\ d.header = KeyValues(q.header)
  BY <1>3 DEF HTTPItem
<1> HIDE DEF d
<1>7. /\ c.backend = Trim(d.backend) /\ c.fix = d.fix /\ c.raw = d.raw
      /\ c.kind = IF ~ Blank(d.pathname) /\ d.kind # "" THEN d.kind ELSE "exact"
      /\ c.pathname = Trim(d.pathname)
      /\ c.query = IF Blank(d.pathname) /\ d.query # <<>> THEN d.query ELSE <<>>
      /\ c.header = IF ~ Blank(d.pathname) \/ d.query # <<>> THEN <<>> ELSE d.header
  BY DEF PolicyBuilder
<1>8. /\ c.pathname # Empty =>
            Policy(c).match = [by |-> "pathname", kind |-> c.kind, pathname |-> c.pathname]
      /\ c.pathname = Empty /\ c.query # <<>> => Policy(c).match = [by |-> "query", items |-> c.query]
      /\ c.pathname = Empty /\ c.query = <<>> => Policy(c).match = [by |-> "header", items |-> c.header]
      /\ Policy(c) = [backend |-> c.backend, fix |-> c.fix, raw |-> c.raw, match |-> Policy(c).match]
  BY DEF Policy
<1> HIDE DEF c
<1>9. Trim(b.backend) = b.backend /\ Trim(b.pathname) = b.pathname BY <1>1, TrimTwice
<1>10. c.backend = z.backend /\ c.fix = Empty /\ c.raw = z.raw
  <2>1. d.backend = z.backend BY <1>2, <1>4, <1>6, <1>9
  <2>2. c.backend = z.backend BY <2>1, <1>4, <1>7, <1>9
  <2>3. c.fix = Empty BY <1>6, <1>7
  <2> QED BY <2>2, <2>3, <1>2, <1>6, <1>7
<1>11. Policy(c).match = match
  <2>1. CASE b.pathname # Empty
    <3>1. path BY <2>1, <1>1 DEF Blank
    <3>2. b.kind # "" BY <3>1, <1>1 DEF TakesPolicy, PathnameKinds
    <3>3. /\ z.match = [by |-> "pathname", kind |-> b.kind, pathname |-> b.pathname]
          /\ z.match.by = "pathname" /\ z.match.kind = b.kind /\ z.match.pathname = b.pathname
      BY <2>1, <1>4
    <3>4. q.pathname = b.pathname /\ q.kind = b.kind BY <3>3, <2>1, <1>2
    <3>5. d.pathname = b.pathname /\ d.kind = b.kind /\ ~ Blank(d.pathname)
      BY <3>4, <2>1, <1>6, <1>9 DEF Blank
    <3>6. c.pathname = b.pathname /\ c.kind = b.kind BY <3>2, <3>5, <1>7, <1>9
    <3> QED BY <3>3, <3>6, <2>1, <1>8
  <2>2. ASSUME b.pathname = Empty, b.query # <<>>
        PROVE  Policy(c).match = match
    <3>1. /\ z.match = [by |-> "query", items |-> b.query]
          /\ z.match.by = "query" /\ z.match.items = b.query
      BY <2>2, <1>4
    <3>2. q.pathname = Empty /\ q.query = b.query BY <3>1, <1>2
    <3>3. d.pathname = Empty /\ Blank(d.pathname) /\ d.query = KeyValues(b.query)
      BY <3>2, <1>6, TrimEmpty
    <3>4. IsSeq(b.query) /\ KeyValuesGiven(b.query) BY <2>2, <1>1, <1>5
    <3>5. KeyValues(b.query) # <<>> BY <3>4, <2>2, KeyValuesKept, SeqFacts
    <3>6. c.pathname = Empty /\ c.query = KeyValues(b.query) BY <3>3, <3>5, <1>7, TrimEmpty
    <3>7. Policy(c).match = [by |-> "query", items |-> KeyValues(b.query)]
      BY <3>5, <3>6, <1>8
    <3> QED BY <3>1, <3>7
  <2>3. ASSUME b.pathname = Empty, b.query = <<>>
        PROVE  Policy(c).match = match
    <3>1. /\ z.match = [by |-> "header", items |-> b.header]
          /\ z.match.by = "header" /\ z.match.items = b.header
      BY <2>3, <1>4
    <3>2. q.pathname = Empty /\ q.query = <<>> /\ q.header = b.header BY <3>1, <1>2
    <3>3. KeyValues(<<>>) = <<>>
      <4>1. KeyValuesGiven(<<>>) BY SeqNone DEF KeyValuesGiven
      <4>2. IsSeq(KeyValues(<<>>)) /\ Len(KeyValues(<<>>)) = 0 BY <4>1, SeqNone, KeyValuesKept
      <4>3. \A s : IsSeq(s) /\ Len(s) = 0 => s = <<>> BY DEF IsSeq
      <4> QED BY <4>2, <4>3
    <3>4. d.pathname = Empty /\ Blank(d.pathname) /\ d.query = <<>> /\ d.header = KeyValues(b.header)
      BY <3>2, <3>3, <1>6, TrimEmpty
    <3>5. c.pathname = Empty /\ c.query = <<>> /\ c.header = KeyValues(b.header)
      BY <3>4, <1>7, TrimEmpty
    <3>6. Policy(c).match = [by |-> "header", items |-> KeyValues(b.header)]
      BY <3>5, <1>8
    <3> QED BY <3>1, <3>6
  <2> QED BY <2>1, <2>2, <2>3
<1> HIDE DEF match
<1>12. [z EXCEPT !.fix = Empty, !.match = match]
        = [backend |-> z.backend, fix |-> Empty, raw |-> z.raw, match |-> match]
  <2>1. PICK m : z = [backend |-> z.backend, fix |-> z.fix, raw |-> z.raw, match |-> m] BY <1>4
  <2>2. PICK y : y = [z EXCEPT !.fix = Empty] OBVIOUS
  <2>3. y = [backend |-> z.backend, fix |-> Empty, raw |-> z.raw, match |-> m] BY <2>1, <2>2
  <2>4. [z EXCEPT !.fix = Empty, !.match = match] = [y EXCEPT !.match = match] BY <2>2
  <2> QED BY <2>3, <2>4
<1> QED BY <1>8, <1>10, <1>11, <1>12 DEF c, d, q, match, TrimmedPolicy

----------------------------------------------------------------------------
\* TLS routes.

TrimmedRoute(z, g) ==
    [z EXCEPT !.hostname = Trim(g), !.sni = Trim(g), !.cert = Trim(z.cert), !.key = Trim(z.key),
              !.backend.host = Trim(z.backend.host)]

\* A TLS route that went to the page and came back untouched, the same, under the page's name.
LEMMA TLSKept ==
    ASSUME NEW h, NEW p, DOMAIN p = TLSNames, AcceptsTLS(h, p),
           NEW z, z = TLSRoute(h, TLSBuilder(h, p)),
           NEW g, NEW s, NEW q, q = [FromTLS(z) EXCEPT !.sni = s]
    PROVE  TLSRoute(Trim(g), TLSBuilder(Trim(g), TLSItem(q, g))) = TrimmedRoute(z, g)
<1>1. ASSUME NEW r, NEW f, DOMAIN r = TLSNames
      PROVE  LET b == TLSBuilder(f, r)
             IN  /\ b.sni = IF Blank(r.sni) THEN f ELSE Trim(r.sni)
                 /\ b.kind = TLSKind(r.kind)
                 /\ b.cert = r.cert /\ b.key = r.key /\ b.host = r.host /\ b.port = r.port
  BY <1>1 DEF TLSBuilder, TLSNames
<1> DEFINE b == TLSBuilder(h, p)
           d == TLSItem(q, g)
           c == TLSBuilder(Trim(g), d)
<1>2. BuildsTLS(b) /\ b.kind \in TLSKinds BY <1>1 DEF AcceptsTLS
<1>3. /\ z = [hostname |-> z.hostname, sni |-> z.sni, cert |-> z.cert, key |-> z.key, kind |-> z.kind,
              backend |-> z.backend]
      /\ z.kind = b.kind
      /\ z.backend = IF Blank(b.host) THEN NoBackend ELSE [host |-> b.host, port |-> b.port]
  BY DEF TLSRoute
<1>4. PICK f : f = FromTLS(z) OBVIOUS
<1>5. /\ DOMAIN f = TLSNames
      /\ f.cert = z.cert /\ f.key = z.key /\ f.kind = z.kind
      /\ f.host = z.backend.host /\ f.port = z.backend.port
  BY <1>4 DEF FromTLS, TLSNames
<1>6. /\ DOMAIN q = TLSNames
      /\ q.cert = z.cert /\ q.key = z.key /\ q.kind = z.kind
      /\ q.host = z.backend.host /\ q.port = z.backend.port
  BY <1>4, <1>5 DEF TLSNames
<1> HIDE DEF b
<1>7. /\ DOMAIN d = TLSNames
      /\ d.sni = Trim(g) /\ d.cert = Trim(z.cert) /\ d.key = Trim(z.key) /\ d.kind = z.kind
      /\ d.host = Trim(z.backend.host) /\ d.port = z.backend.port
  BY <1>6 DEF TLSItem, TLSNames
<1> HIDE DEF d
<1>8. /\ c.sni = IF Blank(d.sni) THEN Trim(g) ELSE Trim(d.sni)
      /\ c.kind = TLSKind(d.kind)
      /\ c.cert = d.cert /\ c.key = d.key /\ c.host = d.host /\ c.port = d.port
  BY <1>1, <1>7
<1> HIDE DEF c
<1>9. c.sni = Trim(g) /\ c.kind = z.kind
  <2>1. TLSKind(b.kind) = b.kind BY <1>2 DEF TLSKind, TLSKinds
  <2>2. Trim(Trim(g)) = Trim(g) BY TrimTwice
  <2>3. c.sni = Trim(g) BY <2>2, <1>7, <1>8
  <2> QED BY <2>1, <2>3, <1>3, <1>7, <1>8
<1>10. NoBackend.host = Empty /\ NoBackend.port = 0 BY DEF NoBackend
<1>11. PICK backend : backend = [z.backend EXCEPT !.host = Trim(z.backend.host)] OBVIOUS
<1>12. (IF Blank(c.host) THEN NoBackend ELSE [host |-> c.host, port |-> c.port]) = backend
  <2>1. CASE Blank(b.host)
    <3>1. z.backend = NoBackend BY <2>1, <1>3
    <3>2. c.host = Empty /\ Blank(c.host) BY <3>1, <1>7, <1>8, <1>10, TrimEmpty
    <3>3. backend = NoBackend BY <3>1, <1>10, <1>11, TrimEmpty DEF NoBackend
    <3> QED BY <3>2, <3>3
  <2>2. CASE ~ Blank(b.host)
    <3>1. z.backend = [host |-> b.host, port |-> b.port] BY <2>2, <1>3
    <3>2. z.backend.host = b.host /\ z.backend.port = b.port BY <3>1
    <3>3. c.host = Trim(b.host) /\ c.port = b.port /\ ~ Blank(c.host)
      BY <3>2, <2>2, <1>7, <1>8, TrimTwice
    <3>4. backend = [host |-> Trim(b.host), port |-> b.port] BY <3>1, <3>2, <1>11
    <3> QED BY <3>3, <3>4
  <2> QED BY <2>1, <2>2
<1>13. TLSRoute(Trim(g), c) = [hostname |-> Trim(g), sni |-> Trim(g), cert |-> Trim(z.cert),
                               key |-> Trim(z.key), kind |-> z.kind, backend |-> backend]
  BY <1>7, <1>8, <1>9, <1>12 DEF TLSRoute
<1>14. [z EXCEPT !.hostname = Trim(g), !.sni = Trim(g), !.cert = Trim(z.cert),
                 !.key = Trim(z.key), !.backend.host = Trim(z.backend.host)]
         = [hostname |-> Trim(g), sni |-> Trim(g), cert |-> Trim(z.cert),
            key |-> Trim(z.key), kind |-> z.kind, backend |-> backend]
  <2>1. PICK t, cert, key : t = Trim(g) /\ cert = Trim(z.cert) /\ key = Trim(z.key) OBVIOUS
  <2>2. PICK y : y = [z EXCEPT !.hostname = t, !.sni = t, !.cert = cert,
                               !.key = key, !.backend.host = Trim(z.backend.host)]
    OBVIOUS
  <2>3. DOMAIN z = {"hostname", "sni", "cert", "key", "kind", "backend"} BY <1>3
  <2>4. y = [i \in {"hostname", "sni", "cert", "key", "kind", "backend"} |-> y[i]] BY <2>2, <2>3
  <2>5. /\ y.hostname = t /\ y.sni = t /\ y.cert = cert /\ y.key = key /\ y.kind = z.kind
        /\ y.backend = backend
    BY <1>11, <2>2, <2>3
  <2>6. y = [hostname |-> t, sni |-> t, cert |-> cert, key |-> key, kind |-> z.kind,
             backend |-> backend]
    BY <2>4, <2>5
  <2> QED BY <2>1, <2>2, <2>6
<1> QED BY <1>13, <1>14 DEF c, d, TrimmedRoute

----------------------------------------------------------------------------
\* Resources of any kind, item by item.

HasValues(p) == "values" \in DOMAIN p /\ IsSeq(p.values)
HasPairs(p) == {"query", "header"} \subseteq DOMAIN p /\ IsSeq(p.query) /\ IsSeq(p.header)

IsItemPayload(p) ==
    CASE kind = "dns" -> HasValues(p)
      [] kind = "http" -> HasPairs(p)
      [] kind = "tls" -> DOMAIN p = TLSNames

IsPayload(p) ==
    IF kind = "tls" THEN IsItemPayload(p)
    ELSE IsSeq(p) /\ \A i \in 1..Len(p) : IsItemPayload(p[i])

AcceptedItem(h, p) ==
    CASE kind = "dns" -> Accepts(p)
      [] kind = "http" -> TakesPolicy(p) /\ BuildsPolicy(PolicyBuilder(p))
      [] kind = "tls" -> AcceptsTLS(h, p)

BuiltItem(h, p) ==
    CASE kind = "dns" -> Build(p)
      [] kind = "http" -> Policy(PolicyBuilder(p))
      [] kind = "tls" -> TLSRoute(h, TLSBuilder(h, p))

ItemPayload(z) ==
    CASE kind = "dns" -> PayloadOfRecord(z)
      [] kind = "http" -> PolicyPayload(FromPolicy(z))
      [] kind = "tls" -> FromTLS(z)

\* An item of an object.
IsItem(z) == \E h, p : IsItemPayload(p) /\ AcceptedItem(h, p) /\ z = BuiltItem(h, p)

LEMMA ItemPayloadSound ==
    ASSUME kind \in {"dns", "http", "tls"}, NEW z, IsItem(z)
    PROVE  IsItemPayload(ItemPayload(z))
<1>1. PICK h, p : IsItemPayload(p) /\ AcceptedItem(h, p) /\ z = BuiltItem(h, p) BY DEF IsItem
<1>2. CASE kind = "dns"
  <2>1. IsSeq(p.values) /\ z = Build(p) BY <1>1, <1>2 DEF IsItemPayload, BuiltItem, HasValues
  <2>2. z.values = p.values \/ z.values = <<>> BY <2>1 DEF Build
  <2>3. IsSeq(z.values) BY <2>1, <2>2, SeqNone
  <2>4. HasValues(PayloadOfRecord(z)) BY <2>3 DEF PayloadOfRecord, HasValues
  <2> QED BY <1>2, <2>4 DEF IsItemPayload, ItemPayload
<1>3. CASE kind = "http"
  <2>1. IsSeq(p.query) /\ IsSeq(p.header) /\ z = Policy(PolicyBuilder(p))
    BY <1>1, <1>3 DEF IsItemPayload, BuiltItem, HasPairs
  <2>2. PICK b : b = PolicyBuilder(p) OBVIOUS
  <2>3. IsSeq(b.query) /\ IsSeq(b.header) BY <2>1, <2>2, SeqNone DEF PolicyBuilder
  <2>4. z.match.by # "pathname" => z.match.items \in {b.query, b.header} BY <2>1, <2>2 DEF Policy
  <2>5. PICK q : q = PolicyPayload(FromPolicy(z)) OBVIOUS
  <2>6. /\ q.query = IF z.match.by = "query" THEN z.match.items ELSE <<>>
        /\ q.header = IF z.match.by = "header" THEN z.match.items ELSE <<>>
    BY <2>5, PolicyBack
  <2>7. IsSeq(q.query) /\ IsSeq(q.header) BY <2>3, <2>4, <2>6, SeqNone
  <2>8. {"query", "header"} \subseteq DOMAIN q BY <2>5 DEF PolicyPayload, FromPolicy
  <2> QED BY <1>3, <2>5, <2>7, <2>8 DEF IsItemPayload, ItemPayload, HasPairs
<1>4. CASE kind = "tls"
  <2>1. DOMAIN FromTLS(z) = TLSNames BY DEF FromTLS, TLSNames
  <2> QED BY <1>4, <2>1 DEF IsItemPayload, ItemPayload
<1> QED BY <1>2, <1>3, <1>4

\* A zone has the records of its payload first, and lists nothing but values.
LEMMA CompletedItems ==
    ASSUME NEW h, NEW now, NEW payload, IsSeq(payload)
    PROVE  LET all == Completed(h, now, payload)
           IN  /\ IsSeq(all) /\ Len(payload) <= Len(all)
               /\ \A i \in 1..Len(payload) : all[i] = payload[i]
               /\ (\A i \in 1..Len(payload) : HasValues(payload[i]))
                    => \A i \in 1..Len(all) : HasValues(all[i])
<1> DEFINE soa == IF Has(payload, "soa") THEN <<>> ELSE <<DefaultSOA(h, now)>>
           ns == IF Has(payload, "ns") THEN <<>> ELSE <<DefaultNS(h)>>
           one == payload \o soa
           all == one \o ns
<1>1. HasValues(DefaultSOA(h, now)) /\ HasValues(DefaultNS(h))
  BY SeqNone DEF DefaultSOA, DefaultNS, Given, HasValues
<1>2. IsSeq(soa) /\ \A i \in 1..Len(soa) : HasValues(soa[i])
  BY <1>1, SeqOne, SeqNone
<1>3. IsSeq(ns) /\ \A i \in 1..Len(ns) : HasValues(ns[i])
  BY <1>1, SeqOne, SeqNone
<1>4. Completed(h, now, payload) = all BY DEF Completed
<1> HIDE DEF soa, ns
<1>5. /\ IsSeq(one) /\ Len(one) = Len(payload) + Len(soa)
      /\ \A i \in 1..Len(payload) : one[i] = payload[i]
      /\ \A i \in 1..Len(one) : \/ i \in 1..Len(payload) /\ one[i] = payload[i]
                                \/ i - Len(payload) \in 1..Len(soa) /\ one[i] = soa[i - Len(payload)]
  BY <1>2, SeqConcat
<1> HIDE DEF one
<1>6. /\ IsSeq(all) /\ Len(all) = Len(one) + Len(ns)
      /\ \A i \in 1..Len(one) : all[i] = one[i]
      /\ \A i \in 1..Len(ns) : all[Len(one) + i] = ns[i]
      /\ \A i \in 1..Len(all) : \/ i \in 1..Len(one) /\ all[i] = one[i]
                                \/ i - Len(one) \in 1..Len(ns) /\ all[i] = ns[i - Len(one)]
  BY <1>3, <1>5, SeqConcat
<1> HIDE DEF all
<1>7. Len(payload) \in Nat /\ Len(soa) \in Nat /\ Len(ns) \in Nat BY <1>2, <1>3, SeqFacts
<1>8. \A i \in 1..Len(payload) : all[i] = payload[i] BY <1>5, <1>6, <1>7
<1>9. ASSUME \A i \in 1..Len(payload) : HasValues(payload[i]), NEW i \in 1..Len(all)
      PROVE  HasValues(all[i])
  <2>1. \A j \in 1..Len(one) : HasValues(one[j]) BY <1>2, <1>5, <1>9
  <2> QED BY <2>1, <1>3, <1>6
<1>10. Len(payload) <= Len(all) BY <1>5, <1>6, <1>7
<1> QED BY <1>4, <1>6, <1>8, <1>9, <1>10

\* The items of the object made of a payload, in its order.
LEMMA MadeItems ==
    ASSUME kind \in {"dns", "http", "tls"}, NEW h, NEW now, NEW p, IsPayload(p)
    PROVE  LET items == Items(Made(h, now, p))
           IN  /\ IsSeq(items)
               /\ kind = "tls" => Len(items) = 1 /\ items[1] = BuiltItem(h, p)
               /\ kind # "tls" => /\ Len(p) <= Len(items)
                                  /\ \A i \in 1..Len(p) : items[i] = BuiltItem(h, p[i])
<1> DEFINE items == Items(Made(h, now, p))
<1>1. CASE kind = "dns"
  <2> DEFINE all == Completed(h, now, p)
  <2>1. IsSeq(all) /\ Len(p) <= Len(all) /\ \A i \in 1..Len(p) : all[i] = p[i]
    BY <1>1, CompletedItems DEF IsPayload
  <2>2. items = [i \in 1..Len(all) |-> Build(all[i])]
    BY <1>1 DEF Items, Made, ZoneOf, WriteZone
  <2> HIDE DEF all, items
  <2>3. Len(all) \in Nat /\ Len(p) \in Nat BY <1>1, <2>1, SeqFacts DEF IsPayload
  <2>4. items = [i \in 1..Len(all) |-> items[i]] BY <2>2
  <2>5. IsSeq(items) /\ Len(items) = Len(all) BY <2>3, <2>4, SeqOfFunction
  <2>6. \A i \in 1..Len(p) : items[i] = Build(p[i]) BY <2>1, <2>2, <2>3
  <2>7. \A q : BuiltItem(h, q) = Build(q) BY <1>1 DEF BuiltItem
  <2> QED BY <1>1, <2>1, <2>5, <2>6, <2>7 DEF items
<1>2. CASE kind = "http"
  <2>1. IsSeq(p) BY <1>2 DEF IsPayload
  <2>2. items = [i \in 1..Len(p) |-> Policy(PolicyBuilder(p[i]))]
    BY <1>2 DEF Items, Made, HTTPRoute
  <2> HIDE DEF items
  <2>3. Len(p) \in Nat BY <2>1, SeqFacts
  <2>4. items = [i \in 1..Len(p) |-> items[i]] BY <2>2
  <2>5. IsSeq(items) /\ Len(items) = Len(p) BY <2>3, <2>4, SeqOfFunction
  <2>6. \A i \in 1..Len(p) : items[i] = BuiltItem(h, p[i]) BY <1>2, <2>2 DEF BuiltItem
  <2> QED BY <1>2, <2>3, <2>5, <2>6 DEF items
<1>3. CASE kind = "tls"
  <2>1. items = <<BuiltItem(h, p)>> BY <1>3 DEF Items, Made, BuiltItem
  <2> QED BY <1>3, <2>1, SeqOne
<1> QED BY <1>1, <1>2, <1>3

\* What is answered of an object is its items' payloads, and its items are built of accepted ones.
LEMMA AnswerItems ==
    ASSUME kind \in {"dns", "http", "tls"}, NEW h \in Text, NEW now, NEW p, IsPayload(p), Accepted(h, p)
    PROVE  LET z == Made(h, now, p)
               items == Items(z)
           IN  /\ \A i \in 1..Len(items) : IsItem(items[i])
               /\ kind = "tls" => Answer(z) = ItemPayload(items[1])
               /\ kind # "tls" => /\ IsSeq(Answer(z)) /\ Len(Answer(z)) = Len(items)
                                  /\ \A i \in 1..Len(items) : Answer(z)[i] = ItemPayload(items[i])
<1> DEFINE z == Made(h, now, p)
           items == Items(z)
<1>1. IsSeq(items) BY MadeItems
<1>2. Len(items) \in Nat BY <1>1, SeqFacts
<1>3. CASE kind = "dns"
  <2> DEFINE all == Completed(h, now, p)
  <2>1. /\ IsSeq(p) /\ (\A i \in 1..Len(p) : HasValues(p[i])) /\ AcceptsZone(p)
    BY <1>3 DEF IsPayload, IsItemPayload, Accepted
  <2>2. \A i \in 1..Len(all) : HasValues(all[i]) BY <2>1, CompletedItems
  <2>3. IsSeq(all) /\ AcceptsZone(all) BY <2>1, ZoneRecords
  <2>4. items = [i \in 1..Len(all) |-> Build(all[i])]
    BY <1>3 DEF Items, Made, ZoneOf, WriteZone
  <2>5. Answer(z) = [i \in 1..Len(items) |-> PayloadOfRecord(items[i])]
    BY <1>3 DEF Items, Answer, PayloadOf
  <2> HIDE DEF all, items
  <2>6. Len(all) \in Nat BY <2>3, SeqFacts
  <2>7. items = [i \in 1..Len(all) |-> items[i]] BY <2>4
  <2>8. Len(items) = Len(all) BY <2>6, <2>7, SeqOfFunction
  <2>9. ASSUME NEW i \in 1..Len(items) PROVE IsItem(items[i])
    <3>1. HasValues(all[i]) /\ Accepts(all[i]) /\ items[i] = Build(all[i])
      BY <2>2, <2>3, <2>4, <2>8 DEF AcceptsZone
    <3>2. IsItemPayload(all[i]) /\ AcceptedItem(h, all[i]) /\ items[i] = BuiltItem(h, all[i])
      BY <1>3, <3>1 DEF IsItemPayload, AcceptedItem, BuiltItem
    <3> QED BY <3>2 DEF IsItem
  <2> HIDE DEF z
  <2>10. PICK a : a = Answer(z) OBVIOUS
  <2>11. a = [i \in 1..Len(items) |-> a[i]] BY <2>5, <2>10
  <2>12. IsSeq(a) /\ Len(a) = Len(items) BY <1>2, <2>11, SeqOfFunction
  <2>13. \A i \in 1..Len(items) : a[i] = ItemPayload(items[i])
    BY <1>3, <2>5, <2>10 DEF ItemPayload
  <2> QED BY <1>3, <2>9, <2>10, <2>12, <2>13 DEF items, z
<1>4. CASE kind = "http"
  <2>1. IsSeq(p) /\ AcceptsHTTP(p) /\ \A i \in 1..Len(p) : IsItemPayload(p[i])
    BY <1>4 DEF IsPayload, Accepted
  <2>2. items = [i \in 1..Len(p) |-> Policy(PolicyBuilder(p[i]))]
    BY <1>4 DEF Items, Made, HTTPRoute
  <2>3. Answer(z) = [i \in 1..Len(items) |-> PolicyPayload(FromPolicy(items[i]))]
    BY <1>4 DEF Items, Answer, HTTPPayload
  <2> HIDE DEF items
  <2>4. Len(p) \in Nat BY <2>1, SeqFacts
  <2>5. items = [i \in 1..Len(p) |-> items[i]] BY <2>2
  <2>6. Len(items) = Len(p) BY <2>4, <2>5, SeqOfFunction
  <2>7. ASSUME NEW i \in 1..Len(items) PROVE IsItem(items[i])
    <3>1. IsItemPayload(p[i]) /\ TakesPolicy(p[i]) /\ BuildsPolicy(PolicyBuilder(p[i]))
      BY <2>1, <2>6 DEF AcceptsHTTP
    <3>2. items[i] = Policy(PolicyBuilder(p[i])) BY <2>2, <2>6
    <3>3. AcceptedItem(h, p[i]) /\ items[i] = BuiltItem(h, p[i])
      BY <1>4, <3>1, <3>2 DEF AcceptedItem, BuiltItem
    <3> QED BY <3>1, <3>3 DEF IsItem
  <2> HIDE DEF z
  <2>8. PICK a : a = Answer(z) OBVIOUS
  <2>9. a = [i \in 1..Len(items) |-> a[i]] BY <2>3, <2>8
  <2>10. IsSeq(a) /\ Len(a) = Len(items) BY <1>2, <2>9, SeqOfFunction
  <2>11. \A i \in 1..Len(items) : a[i] = ItemPayload(items[i])
    BY <1>4, <2>3, <2>8 DEF ItemPayload
  <2> QED BY <1>4, <2>7, <2>8, <2>10, <2>11 DEF items, z
<1>5. CASE kind = "tls"
  <2>1. z = BuiltItem(h, p) /\ items = <<z>> BY <1>5 DEF Items, Made, BuiltItem
  <2>2. IsItemPayload(p) /\ AcceptedItem(h, p) BY <1>5 DEF IsPayload, Accepted, AcceptedItem
  <2>3. IsItem(z) BY <2>1, <2>2 DEF IsItem
  <2>4. Answer(z) = ItemPayload(z) BY <1>5 DEF Answer, ItemPayload
  <2> HIDE DEF items, z
  <2>5. Len(items) = 1 /\ items[1] = z BY <2>1, SeqOne
  <2>6. \A i \in 1..Len(items) : IsItem(items[i]) BY <2>3, <2>5
  <2> QED BY <1>5, <2>4, <2>5, <2>6 DEF items, z
<1> QED BY <1>3, <1>4, <1>5

----------------------------------------------------------------------------
\* A draft in the page.

\* The page puts its hostname for the SNI.
SameButSNI(p, q) == \E sni : p = [q EXCEPT !.sni = sni]

\* It was loaded and the user did not touch it.
Shows(d) ==
    /\ d.use = FALSE /\ IsItem(d.was)
    /\ kind # "tls" => d.item = ItemPayload(d.was)
    /\ kind = "tls" => SameButSNI(d.item, ItemPayload(d.was))

IsDraft(d) == IsItemPayload(d.item) /\ (d.was # None => Shows(d))

FlushedItem(d, hostname) ==
    CASE kind = "dns" -> DNSItem(d.item)
      [] kind = "http" -> HTTPItem(d.item, d.use)
      [] kind = "tls" -> TLSItem(d.item, hostname)

LEMMA DraftKept ==
    ASSUME kind \in {"dns", "http", "tls"}, NEW d, Shows(d), NEW g
    PROVE  BuiltItem(Trim(g), FlushedItem(d, g)) = ThroughConsole(d.was, g)
<1>1. PICK h, p : IsItemPayload(p) /\ AcceptedItem(h, p) /\ d.was = BuiltItem(h, p)
  BY DEF Shows, IsItem
<1>2. PICK z : z = d.was OBVIOUS
<1>3. CASE kind = "dns"
  <2>1. IsSeq(p.values) /\ Accepts(p) /\ z = Build(p)
    BY <1>1, <1>2, <1>3 DEF IsItemPayload, AcceptedItem, BuiltItem, HasValues
  <2>2. d.item = PayloadOfRecord(z) BY <1>2, <1>3 DEF Shows, ItemPayload
  <2>3. ThroughConsole(z, g) = TrimmedRecord(z) BY <1>3 DEF ThroughConsole, TrimmedRecord
  <2>4. Build(DNSItem(PayloadOfRecord(z))) = ThroughConsole(z, g) BY <2>1, <2>3, RecordKept
  <2> QED BY <1>2, <1>3, <2>2, <2>4 DEF BuiltItem, FlushedItem
<1>4. CASE kind = "http"
  <2>1. /\ IsSeq(p.query) /\ IsSeq(p.header) /\ TakesPolicy(p) /\ BuildsPolicy(PolicyBuilder(p))
        /\ z = Policy(PolicyBuilder(p))
    BY <1>1, <1>2, <1>4 DEF IsItemPayload, AcceptedItem, BuiltItem, HasPairs
  <2>2. d.item = PolicyPayload(FromPolicy(z)) /\ d.use = FALSE BY <1>2, <1>4 DEF Shows, ItemPayload
  <2>3. ThroughConsole(z, g) = TrimmedPolicy(z) BY <1>4 DEF ThroughConsole, TrimmedPolicy
  <2>4. Policy(PolicyBuilder(HTTPItem(PolicyPayload(FromPolicy(z)), FALSE))) = ThroughConsole(z, g)
    BY <2>1, <2>3, PolicyKept
  <2>5. FlushedItem(d, g) = HTTPItem(PolicyPayload(FromPolicy(z)), FALSE)
    BY <1>4, <2>2 DEF FlushedItem
  <2> QED BY <1>2, <1>4, <2>4, <2>5 DEF BuiltItem
<1>5. CASE kind = "tls"
  <2>1. DOMAIN p = TLSNames /\ AcceptsTLS(h, p) /\ z = TLSRoute(h, TLSBuilder(h, p))
    BY <1>1, <1>2, <1>5 DEF IsItemPayload, AcceptedItem, BuiltItem
  <2>2. PICK sni : d.item = [FromTLS(z) EXCEPT !.sni = sni]
    BY <1>2, <1>5 DEF Shows, ItemPayload, SameButSNI
  <2>3. ThroughConsole(z, g) = TrimmedRoute(z, g) BY <1>5 DEF ThroughConsole, TrimmedRoute
  <2>4. PICK q : q = [FromTLS(z) EXCEPT !.sni = sni] OBVIOUS
  <2>5. TLSRoute(Trim(g), TLSBuilder(Trim(g), TLSItem(q, g))) = ThroughConsole(z, g)
    BY <2>1, <2>3, <2>4, TLSKept
  <2>6. FlushedItem(d, g) = TLSItem(q, g) BY <1>5, <2>2, <2>4 DEF FlushedItem
  <2> QED BY <1>2, <1>5, <2>5, <2>6 DEF BuiltItem
<1> QED BY <1>3, <1>4, <1>5

\* The drafts of a page, and the payload of their flush.
IsDrafts(drafts) ==
    /\ IsSeq(drafts) /\ (kind = "tls" => Len(drafts) = 1)
    /\ \A i \in 1..Len(drafts) : IsDraft(drafts[i])

LEMMA FlushedDraft ==
    ASSUME kind \in {"dns", "http", "tls"}, NEW d, IsItemPayload(d.item), NEW g
    PROVE  IsItemPayload(FlushedItem(d, g))
<1> DEFINE q == d.item
<1>1. CASE kind = "dns"
  <2>1. "values" \in DOMAIN q /\ IsSeq(q.values) BY <1>1 DEF IsItemPayload, HasValues
  <2>2. PICK s : s = [i \in 1..Len(q.values) |-> Trim(q.values[i])] OBVIOUS
  <2>3. Len(q.values) \in Nat /\ s = [i \in 1..Len(q.values) |-> s[i]] BY <2>1, <2>2, SeqFacts
  <2>4. IsSeq(Without(s, Empty)) BY <2>3, SeqOfFunction, WithoutSeq
  <2>5. "values" \in DOMAIN DNSItem(q) /\ DNSItem(q).values = Without(s, Empty)
    BY <2>1, <2>2 DEF DNSItem
  <2> QED BY <1>1, <2>4, <2>5 DEF IsItemPayload, FlushedItem, HasValues
<1>2. CASE kind = "http"
  <2>1. {"query", "header"} \subseteq DOMAIN q /\ IsSeq(q.query) /\ IsSeq(q.header)
    BY <1>2 DEF IsItemPayload, HasPairs
  <2>2. IsSeq(KeyValues(q.query)) /\ IsSeq(KeyValues(q.header)) BY <2>1, KeyValuesKept
  <2>3. PICK f : f = HTTPItem(q, d.use) OBVIOUS
  <2>4. /\ {"query", "header"} \subseteq DOMAIN f
        /\ f.query = KeyValues(q.query) /\ f.header = KeyValues(q.header)
    BY <2>1, <2>3 DEF HTTPItem
  <2> QED BY <1>2, <2>2, <2>3, <2>4 DEF IsItemPayload, FlushedItem, HasPairs
<1>3. CASE kind = "tls"
  <2>1. DOMAIN TLSItem(q, g) = DOMAIN q BY DEF TLSItem
  <2> QED BY <1>3, <2>1 DEF IsItemPayload, FlushedItem
<1> QED BY <1>1, <1>2, <1>3

LEMMA FlushedPayload ==
    ASSUME kind \in {"dns", "http", "tls"}, NEW drafts, IsDrafts(drafts), NEW g
    PROVE  LET p == Flushed(drafts, g)
           IN  /\ IsPayload(p)
               /\ kind = "tls" => p = FlushedItem(drafts[1], g)
               /\ kind # "tls" => /\ Len(p) = Len(drafts)
                                  /\ \A i \in 1..Len(drafts) : p[i] = FlushedItem(drafts[i], g)
<1> DEFINE p == Flushed(drafts, g)
<1>1. Len(drafts) \in Nat BY SeqFacts DEF IsDrafts
<1>2. \A i \in 1..Len(drafts) : IsItemPayload(FlushedItem(drafts[i], g))
  BY FlushedDraft DEF IsDrafts, IsDraft
<1>3. CASE kind = "tls"
  <2>1. p = FlushedItem(drafts[1], g) BY <1>3 DEF Flushed, FlushedItem
  <2>2. 1 \in 1..Len(drafts) BY <1>3 DEF IsDrafts
  <2> QED BY <1>2, <1>3, <2>1, <2>2 DEF IsPayload
<1>4. CASE kind # "tls"
  <2>1. p = [i \in 1..Len(drafts) |-> FlushedItem(drafts[i], g)]
    <3>1. CASE kind = "dns" BY <3>1 DEF Flushed, FlushedItem
    <3>2. CASE kind = "http" BY <3>2 DEF Flushed, FlushedItem
    <3> QED BY <3>1, <3>2, <1>4
  <2> HIDE DEF p
  <2>2. p = [i \in 1..Len(drafts) |-> p[i]] BY <2>1
  <2>3. IsSeq(p) /\ Len(p) = Len(drafts) BY <1>1, <2>2, SeqOfFunction
  <2>4. \A i \in 1..Len(drafts) : p[i] = FlushedItem(drafts[i], g) BY <2>1
  <2>5. IsPayload(p) BY <1>2, <1>4, <2>3, <2>4 DEF IsPayload
  <2> QED BY <1>4, <2>3, <2>4, <2>5 DEF p
<1> QED BY <1>3, <1>4

\* The object a PUT makes has every stored item the page kept for it; a policy among them
\* has a backend.
KeepsLoaded(r) ==
    \A z \in r.kept :
        /\ kind = "http" => ~ Blank(z.backend)
        /\ \A now : InObject(ThroughConsole(z, r.hostname), MadeNow(r, now))

LEMMA FlushKeepsLoaded ==
    ASSUME kind \in {"dns", "http", "tls"}, NEW drafts, IsDrafts(drafts), NEW r,
           \A i \in 1..Len(drafts) : Valid(drafts[i]),
           r.payload = Flushed(drafts, r.hostname),
           r.kept = {drafts[i].was : i \in 1..Len(drafts)} \ {None}
    PROVE  KeepsLoaded(r)
<1> SUFFICES ASSUME NEW z \in r.kept, NEW now
             PROVE  /\ kind = "http" => ~ Blank(z.backend)
                    /\ InObject(ThroughConsole(z, r.hostname), MadeNow(r, now))
  BY DEF KeepsLoaded
<1> DEFINE g == r.hostname
           p == r.payload
           items == Items(MadeNow(r, now))
<1>1. PICK i \in 1..Len(drafts) : z = drafts[i].was /\ z # None OBVIOUS
<1>2. Len(drafts) \in Nat BY SeqFacts DEF IsDrafts
<1>3. Shows(drafts[i]) BY <1>1 DEF IsDrafts, IsDraft
<1>4. BuiltItem(Trim(g), FlushedItem(drafts[i], g)) = ThroughConsole(z, g)
  BY <1>1, <1>3, DraftKept
<1>5. /\ IsPayload(p)
      /\ kind = "tls" => p = FlushedItem(drafts[1], g)
      /\ kind # "tls" => /\ Len(p) = Len(drafts)
                         /\ \A j \in 1..Len(drafts) : p[j] = FlushedItem(drafts[j], g)
  BY FlushedPayload
<1>6. /\ IsSeq(items)
      /\ kind = "tls" => Len(items) = 1 /\ items[1] = BuiltItem(Trim(g), p)
      /\ kind # "tls" => /\ Len(p) <= Len(items)
                         /\ \A j \in 1..Len(p) : items[j] = BuiltItem(Trim(g), p[j])
  BY <1>5, MadeItems DEF MadeNow
<1>7. Len(items) \in Nat BY <1>6, SeqFacts
<1>8. ASSUME kind = "http" PROVE ~ Blank(z.backend)
  <2>1. drafts[i].use = FALSE /\ drafts[i].item = PolicyPayload(FromPolicy(z))
    BY <1>1, <1>3, <1>8 DEF Shows, ItemPayload
  <2>2. PolicyPayload(FromPolicy(z)).backend = z.backend BY PolicyBack
  <2>3. ~ Blank(drafts[i].item.backend) BY <2>1, <1>1, <1>8 DEF Valid
  <2> QED BY <2>1, <2>2, <2>3
<1> HIDE DEF items, p, g
<1>9. CASE kind = "tls"
  <2>1. Len(drafts) = 1 BY <1>9 DEF IsDrafts
  <2>2. i = 1 BY <2>1
  <2>3. BuiltItem(Trim(g), FlushedItem(drafts[1], g)) = ThroughConsole(z, g) BY <2>2, <1>4
  <2>4. Len(items) = 1 /\ items[1] = BuiltItem(Trim(g), p) /\ p = FlushedItem(drafts[1], g)
    BY <1>5, <1>6, <1>9
  <2>5. 1 \in 1..Len(items) /\ items[1] = ThroughConsole(z, g) BY <2>3, <2>4
  <2> QED BY <1>9, <2>5 DEF InObject, items, g
<1>10. CASE kind # "tls"
  <2>1. i \in 1..Len(items) /\ items[i] = ThroughConsole(z, g)
    BY <1>1, <1>2, <1>4, <1>5, <1>6, <1>7, <1>10
  <2> QED BY <1>8, <2>1 DEF InObject, items, g
<1> QED BY <1>9, <1>10

----------------------------------------------------------------------------
\* Resources of any kind.

Servable(z) ==
    CASE kind = "dns" -> ServableZone(z)
      [] kind = "http" -> ServableRoute(z)
      [] kind = "tls" -> ServableTLS(z)

\* A hostname that was cut from a request.
IsHostname(h) == h \in Text /\ Trim(h) = h /\ ~ Blank(h)

LEMMA ResourceSound ==
    ASSUME kind \in {"dns", "http", "tls"}, NEW h, IsHostname(h), NEW now, NEW p,
           IsPayload(p), Accepted(h, p)
    PROVE  LET z == Made(h, now, p)
           IN  /\ Servable(z)
               /\ IsPayload(Answer(z))
               /\ \A g, later : (kind # "dns" => g = z.hostname) =>
                    Accepted(g, Answer(z)) /\ Made(g, later, Answer(z)) = z
<1>0. IsPayload(Answer(Made(h, now, p)))
  <2> DEFINE z == Made(h, now, p)
             items == Items(z)
  <2>1. h \in Text BY DEF IsHostname
  <2>2. /\ \A i \in 1..Len(items) : IsItem(items[i])
        /\ kind = "tls" => Answer(z) = ItemPayload(items[1])
        /\ kind # "tls" => /\ IsSeq(Answer(z)) /\ Len(Answer(z)) = Len(items)
                           /\ \A i \in 1..Len(items) : Answer(z)[i] = ItemPayload(items[i])
    BY <2>1, AnswerItems
  <2>3. kind = "tls" => Len(items) = 1 BY MadeItems
  <2>4. \A i \in 1..Len(items) : IsItemPayload(ItemPayload(items[i])) BY <2>2, ItemPayloadSound
  <2> HIDE DEF items, z
  <2>5. IsPayload(Answer(z)) BY <2>2, <2>3, <2>4 DEF IsPayload
  <2> QED BY <2>5 DEF z
<1>1. CASE kind = "dns"
  <2>1. IsSeq(p) /\ AcceptsZone(p) BY <1>1 DEF IsPayload, Accepted
  <2>2. /\ ServableZone(ZoneOf(h, now, p))
        /\ IsSeq(PayloadOf(ZoneOf(h, now, p))) /\ AcceptsZone(PayloadOf(ZoneOf(h, now, p)))
        /\ \A g, later : ZoneOf(g, later, PayloadOf(ZoneOf(h, now, p))) = ZoneOf(h, now, p)
    BY <2>1, ZoneSound DEF IsHostname
  <2>3. /\ \A g, later, r : Made(g, later, r) = ZoneOf(g, later, r)
        /\ \A z : Answer(z) = PayloadOf(z)
        /\ \A g, r : Accepted(g, r) <=> AcceptsZone(r)
        /\ \A z : Servable(z) <=> ServableZone(z)
    BY <1>1 DEF Made, Answer, Accepted, Servable
  <2> QED BY <1>0, <1>1, <2>2, <2>3
<1>2. CASE kind = "http"
  <2>1. IsSeq(p) /\ AcceptsHTTP(p) /\ ~ Blank(h) BY <1>2 DEF IsPayload, Accepted, IsHostname
  <2>2. /\ HTTPRoute(h, p).hostname = h /\ ServableRoute(HTTPRoute(h, p))
        /\ IsSeq(HTTPPayload(HTTPRoute(h, p))) /\ AcceptsHTTP(HTTPPayload(HTTPRoute(h, p)))
        /\ HTTPRoute(h, HTTPPayload(HTTPRoute(h, p))) = HTTPRoute(h, p)
    BY <2>1, HTTPSound
  <2>3. /\ \A g, later, r : Made(g, later, r) = HTTPRoute(g, r)
        /\ \A z : Answer(z) = HTTPPayload(z)
        /\ \A g, r : Accepted(g, r) <=> AcceptsHTTP(r)
        /\ \A z : Servable(z) <=> ServableRoute(z)
    BY <1>2 DEF Made, Answer, Accepted, Servable
  <2> QED BY <1>0, <1>2, <2>2, <2>3
<1>3. CASE kind = "tls"
  <2>1. DOMAIN p = TLSNames /\ AcceptsTLS(h, p) /\ ~ Blank(h) /\ Trim(h) = h
    BY <1>3 DEF IsPayload, IsItemPayload, Accepted, IsHostname
  <2> DEFINE z == TLSRoute(h, TLSBuilder(h, p))
  <2>2. /\ z.hostname = h /\ ServableTLS(z)
        /\ DOMAIN FromTLS(z) = TLSNames /\ AcceptsTLS(h, FromTLS(z))
        /\ TLSRoute(h, TLSBuilder(h, FromTLS(z))) = z
    BY <2>1, TLSSound
  <2>3. /\ \A g, later, r : Made(g, later, r) = TLSRoute(g, TLSBuilder(g, r))
        /\ \A y : Answer(y) = FromTLS(y)
        /\ \A g, r : Accepted(g, r) <=> AcceptsTLS(g, r)
        /\ \A y : Servable(y) <=> ServableTLS(y)
    BY <1>3 DEF Made, Answer, Accepted, Servable
  <2> HIDE DEF z
  <2>4. Made(h, now, p) = z BY <2>3 DEF z
  <2> QED BY <1>0, <1>3, <2>2, <2>3, <2>4
<1> QED BY <1>1, <1>2, <1>3

----------------------------------------------------------------------------
\* The master's process.

\* Connections are taken only until the stopper begins, and after Shutdown nothing is active
\* unless it gave up.
ShutdownInOrder ==
    /\ http = "serving" => stopper = "waiting"
    /\ main = "starting" => stopper = "none"
    /\ timedOut => stopper \in {"draining", "done"}
    /\ ~ timedOut /\ stopper \in {"draining", "done"} => \A c \in Client : ~ Active(c)

ServersInv == ServersTyped /\ ShutdownInOrder /\ NoRequestCut

LEMMA ServersInitial == Init => ServersInv
BY DEF Init, ServersInit, ServersInv, ServersTyped, ShutdownInOrder, NoRequestCut, Active

ConnStates == {"idle", "sent", "running", "storing", "answered", "refused", "cut"}

\* A client or handler moves one connection, which becomes active only where http serves.
ConnMoves(c) ==
    /\ c \in Client
    /\ UNCHANGED processVars
    /\ \E x \in ConnStates \ {"cut"} :
        /\ x \in {"running", "storing"} => Active(c) \/ http = "serving"
        /\ conn' = [conn EXCEPT ![c] = x]

LEMMA MovesKeepServers ==
    ASSUME ServersInv, NEW c, ConnMoves(c), stream' \in [Agent -> {"none", "open"}]
    PROVE  ServersInv'
BY DEF ServersInv, ServersTyped, ShutdownInOrder, NoRequestCut, Active, ConnMoves, ConnStates,
       processVars

LEMMA ServersStutter ==
    ASSUME ServersInv, UNCHANGED serverVars
    PROVE  ServersInv'
BY DEF ServersInv, ServersTyped, ShutdownInOrder, NoRequestCut, Active, serverVars, processVars

LEMMA ServerKeepsServers ==
    ASSUME ServersInv, Server
    PROVE  ServersInv'
<1> USE DEF ServersInv, ServersTyped, ShutdownInOrder, NoRequestCut, Active
<1>1. CASE StartGroup BY <1>1 DEF StartGroup
<1>2. CASE Return BY <1>2 DEF Return
<1>3. CASE BindHTTP BY <1>3 DEF BindHTTP
<1>4. CASE ReturnHTTP BY <1>4 DEF ReturnHTTP
<1>5. CASE ServeGRPC BY <1>5 DEF ServeGRPC
<1>6. CASE ReturnGRPC BY <1>6 DEF ReturnGRPC
<1>7. CASE BeginShutdown BY <1>7 DEF BeginShutdown
<1>8. CASE EndShutdown BY <1>8 DEF EndShutdown
<1>9. CASE EndDrain BY <1>9 DEF EndDrain
<1>10. CASE Signal BY <1>10 DEF Signal
<1>11. CASE ListenFails BY <1>11 DEF ListenFails
<1>12. CASE HTTPFails BY <1>12 DEF HTTPFails
<1>13. CASE GRPCFails BY <1>13 DEF GRPCFails
<1>14. ASSUME NEW a \in Agent, Subscribe(a) PROVE ServersInv'
  BY <1>14 DEF Subscribe, processVars
<1>15. ASSUME NEW a \in Agent, Leave(a) PROVE ServersInv'
  BY <1>15 DEF Leave, processVars
<1> QED
  BY <1>1, <1>2, <1>3, <1>4, <1>5, <1>6, <1>7, <1>8, <1>9, <1>10, <1>11, <1>12, <1>13, <1>14, <1>15
  DEF Server, GoroutineStep

\* What the process does to connections: those nobody has taken are refused, and those being
\* handled are all cut at once.
LEMMA ServerConns ==
    ASSUME ServersInv, Server
    PROVE  /\ UNCHANGED <<kind, store, request, reply, page, edits, puts, faults>>
           /\ \A c \in Client : \/ conn'[c] = conn[c]
                                \/ /\ conn[c] \in {"sent", "running", "storing"}
                                   /\ conn'[c] \in {"refused", "cut"}
           /\ \/ \A c \in Client : conn'[c] = "storing" <=> conn[c] = "storing"
              \/ \A c \in Client : conn'[c] # "storing"
<1>1. UNCHANGED <<kind, store, request, reply, page, edits, puts, faults>>
  BY DEF Server, apiVars, pageVars
<1>2. conn \in [Client -> ConnStates] BY DEF ServersInv, ServersTyped, ConnStates
<1>3. \/ conn' = conn
      \/ conn' = [c \in Client |-> IF Active(c) THEN "cut" ELSE conn[c]]
      \/ conn' = [c \in Client |-> IF conn[c] = "sent" THEN "refused" ELSE conn[c]]
  BY DEF Server, GoroutineStep, StartGroup, Return, BindHTTP, ReturnHTTP, ServeGRPC, ReturnGRPC,
         BeginShutdown, EndShutdown, EndDrain, Signal, ListenFails, HTTPFails, GRPCFails,
         Subscribe, Leave
<1> QED BY <1>1, <1>2, <1>3 DEF Active

----------------------------------------------------------------------------
\* Requests, the page and the store.

PutRequest(r) ==
    /\ DOMAIN r = {"method", "hostname", "payload", "alone", "kept"}
    /\ r.method = "PUT" /\ r.hostname \in Hostnames /\ IsPayload(r.payload)
    /\ KeepsLoaded(r)

GetRequest(r) ==
    DOMAIN r = {"method", "hostname"} /\ r.method = "GET" /\ r.hostname \in Hostnames

\* What builders make of an accepted payload.
IsMade(z) ==
    \E h, p, now : IsHostname(h) /\ IsPayload(p) /\ Accepted(h, p) /\ z = Made(h, now, p)

\* The answer to a GET that found an object.
IsAnswer(a) == IsMade(a.object) /\ a.body = Answer(a.object)

RequestsInv ==
    /\ request = [c \in Client |-> request[c]] /\ reply = [c \in Client |-> reply[c]]
    /\ \A c \in Client :
        /\ conn[c] = "idle" <=> request[c] = NoRequest
        /\ conn[c] # "idle" => PutRequest(request[c]) \/ GetRequest(request[c])
        /\ conn[c] = "storing" => PutRequest(request[c]) /\ PutAccepted(request[c])
        /\ reply[c] # NoReply <=> conn[c] = "answered"
        /\ Succeeded(c) /\ GetRequest(request[c]) => IsAnswer(reply[c])

\* Two PUTs of one object know of each other.
TogetherInv ==
    \A c, d \in Client :
        c # d /\ conn[c] = "storing" /\ conn[d] = "storing"
            /\ Key(request[c].hostname) = Key(request[d].hostname) => ~ request[c].alone

PageInv ==
    /\ DOMAIN page = {"hostname", "dirty", "busy", "items"}
    /\ page.hostname \in Hostnames /\ page.dirty \in BOOLEAN
    /\ page.busy \in {"none", "loading", "flushing"}
    /\ page.busy = "none" <=> request[Page] = NoRequest
    /\ page.busy = "loading" => GetRequest(request[Page])
    /\ page.busy = "flushing" => PutRequest(request[Page])
    /\ IsDrafts(page.items)

\* An object that can be decoded is what builders made.
StoreInv ==
    /\ DOMAIN store = Keys
    /\ \A k \in Keys : Storing(k) # {} /\ (\A c \in Storing(k) : request[c].alone) => store[k] = Torn
    /\ \A k \in Keys : Decodable(k) => IsMade(store[k])

CountsInv ==
    kind \in Kinds /\ puts \in 0..MaxPuts /\ edits \in 0..MaxEdits /\ faults \in 0..MaxFaults

Inv == ServersInv /\ RequestsInv /\ TogetherInv /\ PageInv /\ StoreInv /\ CountsInv

LEMMA KindIs == CountsInv => kind \in {"dns", "http", "tls"}
BY ManagementAssumption DEF CountsInv

LEMMA Two == Client = {Page, Script} /\ Page # Script /\ Page \in Client /\ Script \in Client
BY ManagementAssumption

LEMMA HostnameFacts == \A h \in Hostnames : h \in Text /\ Key(h) \in Keys /\ (~ Blank(h) => IsHostname(Trim(h)))
<1> SUFFICES ASSUME NEW h \in Hostnames
             PROVE  h \in Text /\ Key(h) \in Keys /\ (~ Blank(h) => IsHostname(Trim(h)))
  OBVIOUS
<1>1. h \in Text BY ManagementAssumption
<1>2. Trim(h) \in Text BY <1>1 DEF Trim, Text
<1> QED BY <1>1, <1>2, TrimTwice DEF Keys, IsHostname

\* Kind never changes, and what is said of payloads and objects depends on nothing else.
LEMMA KindKept ==
    ASSUME kind' = kind
    PROVE  /\ \A h, p : Accepted(h, p)' <=> Accepted(h, p)
           /\ \A h, now, p : Made(h, now, p)' = Made(h, now, p)
           /\ \A p : IsPayload(p)' <=> IsPayload(p)
           /\ \A r : PutRequest(r)' <=> PutRequest(r)
           /\ \A r : PutAccepted(r)' <=> PutAccepted(r)
           /\ \A z : IsMade(z)' <=> IsMade(z)
           /\ \A a : IsAnswer(a)' <=> IsAnswer(a)
           /\ \A drafts : IsDrafts(drafts)' <=> IsDrafts(drafts)
<1>1. /\ \A h, p : Accepted(h, p)' <=> Accepted(h, p)
      /\ \A h, now, p : Made(h, now, p)' = Made(h, now, p)
      /\ \A z : Answer(z)' = Answer(z) /\ Items(z)' = Items(z)
  BY DEF Accepted, Made, Answer, Items
<1>2. /\ \A p : IsItemPayload(p)' <=> IsItemPayload(p)
      /\ \A h, p : AcceptedItem(h, p)' <=> AcceptedItem(h, p)
      /\ \A h, p : BuiltItem(h, p)' = BuiltItem(h, p)
      /\ \A z : ItemPayload(z)' = ItemPayload(z)
      /\ \A z, h : ThroughConsole(z, h)' = ThroughConsole(z, h)
  BY DEF IsItemPayload, AcceptedItem, BuiltItem, ItemPayload, ThroughConsole
<1>3. \A p : IsPayload(p)' <=> IsPayload(p) BY <1>2 DEF IsPayload
<1>4. \A z : IsItem(z)' <=> IsItem(z) BY <1>2 DEF IsItem
<1>5. \A d : IsDraft(d)' <=> IsDraft(d) BY <1>2, <1>4 DEF IsDraft, Shows
<1>6. \A drafts : IsDrafts(drafts)' <=> IsDrafts(drafts) BY <1>5 DEF IsDrafts
<1>7. \A r : KeepsLoaded(r)' <=> KeepsLoaded(r)
  <2>1. \A z, object : InObject(z, object)' <=> InObject(z, object) BY <1>1 DEF InObject
  <2> QED BY <1>1, <1>2, <2>1 DEF KeepsLoaded, MadeNow
<1>8. \A r : PutRequest(r)' <=> PutRequest(r) BY <1>3, <1>7 DEF PutRequest
<1>9. \A z : IsMade(z)' <=> IsMade(z) BY <1>1, <1>3 DEF IsMade
<1>10. \A r : PutAccepted(r)' <=> PutAccepted(r) BY <1>1 DEF PutAccepted
<1>11. \A a : IsAnswer(a)' <=> IsAnswer(a) BY <1>1, <1>9 DEF IsAnswer
<1> QED BY <1>1, <1>3, <1>6, <1>8, <1>9, <1>10, <1>11

\* Steps that write nothing.
LEMMA StoreKept ==
    ASSUME StoreInv, TogetherInv, UNCHANGED <<kind, store>>,
           \A c \in Client : conn'[c] = "storing" => conn[c] = "storing" /\ request'[c] = request[c],
           \/ \A c \in Client : conn[c] = "storing" => conn'[c] = "storing"
           \/ \A c \in Client : conn'[c] # "storing"
    PROVE  StoreInv' /\ TogetherInv'
<1>1. TogetherInv' BY DEF TogetherInv
<1>2. ASSUME NEW k \in Keys, Storing(k)' # {}, \A c \in Storing(k)' : request'[c].alone
      PROVE  store'[k] = Torn
  <2>1. Storing(k)' = Storing(k) BY <1>2 DEF Storing
  <2>2. \A c \in Storing(k) : request[c].alone BY <1>2, <2>1 DEF Storing
  <2> QED BY <1>2, <2>1, <2>2 DEF StoreInv
<1>3. ASSUME NEW k \in Keys, Decodable(k)'
      PROVE  IsMade(store[k])'
  <2>1. Decodable(k) /\ store'[k] = store[k] BY <1>3 DEF Decodable
  <2> QED BY <2>1, KindKept DEF StoreInv
<1>4. (DOMAIN store = Keys)' BY DEF StoreInv
<1> QED BY <1>1, <1>2, <1>3, <1>4 DEF StoreInv

LEMMA ServerKeepsRest ==
    ASSUME Inv, Server
    PROVE  RequestsInv' /\ TogetherInv' /\ PageInv' /\ StoreInv' /\ CountsInv'
<1> USE DEF Inv
<1>1. UNCHANGED <<kind, store, request, reply, page, edits, puts, faults>> BY ServerConns
<1>2. \A c \in Client : \/ conn'[c] = conn[c]
                        \/ /\ conn[c] \in {"sent", "running", "storing"}
                           /\ conn'[c] \in {"refused", "cut"}
  BY ServerConns
<1>3. \/ \A c \in Client : conn'[c] = "storing" <=> conn[c] = "storing"
      \/ \A c \in Client : conn'[c] # "storing"
  BY ServerConns
<1>4. StoreInv' /\ TogetherInv' BY <1>1, <1>2, <1>3, StoreKept
<1>5. CountsInv' BY <1>1 DEF CountsInv
<1>6. PageInv' BY <1>1, KindKept DEF PageInv, GetRequest
<1>7. RequestsInv'
  <2>1. ASSUME NEW c \in Client
        PROVE  /\ conn'[c] = "idle" <=> request[c] = NoRequest
               /\ conn'[c] # "idle" => PutRequest(request[c]) \/ GetRequest(request[c])
               /\ conn'[c] = "storing" => PutRequest(request[c]) /\ PutAccepted(request[c])
               /\ reply[c] # NoReply <=> conn'[c] = "answered"
               /\ Succeeded(c)' /\ GetRequest(request[c]) => IsAnswer(reply[c])
    <3>1. \/ conn'[c] = conn[c]
          \/ conn[c] \in {"sent", "running", "storing"} /\ conn'[c] \in {"refused", "cut"}
      BY <1>2
    <3>2. Succeeded(c)' => Succeeded(c) BY <3>1, <1>1 DEF Succeeded
    <3> QED BY <3>1, <3>2 DEF RequestsInv
  <2> QED BY <2>1, <1>1, KindKept DEF RequestsInv, GetRequest
<1> QED BY <1>4, <1>5, <1>6, <1>7

\* A client's connection moves with its request and reply; the store and the page stay.
LEMMA RequestMoves ==
    ASSUME Inv, NEW c \in Client, NEW x, NEW r, NEW a, kind' = kind,
           conn' = [conn EXCEPT ![c] = x],
           request' = [request EXCEPT ![c] = r], reply' = [reply EXCEPT ![c] = a],
           x = "idle" <=> r = NoRequest,
           x # "idle" => PutRequest(r) \/ GetRequest(r),
           x = "storing" => PutRequest(r) /\ PutAccepted(r),
           a # NoReply <=> x = "answered",
           a # NoReply /\ a.status = 200 /\ GetRequest(r) => IsAnswer(a)
    PROVE  RequestsInv'
<1> USE DEF Inv
<1>1. conn \in [Client -> ConnStates] BY DEF ServersInv, ServersTyped, ConnStates
<1>2. conn'[c] = x /\ request'[c] = r /\ reply'[c] = a
  BY <1>1 DEF RequestsInv
<1>3. \A d \in Client \ {c} : conn'[d] = conn[d] /\ request'[d] = request[d] /\ reply'[d] = reply[d]
  BY <1>1 DEF RequestsInv
<1>4. request' = [d \in Client |-> request'[d]] /\ reply' = [d \in Client |-> reply'[d]]
  BY DEF RequestsInv
<1>5. ASSUME NEW d \in Client
      PROVE  /\ conn'[d] = "idle" <=> request'[d] = NoRequest
             /\ conn'[d] # "idle" => PutRequest(request'[d]) \/ GetRequest(request'[d])
             /\ conn'[d] = "storing" => PutRequest(request'[d]) /\ PutAccepted(request'[d])
             /\ reply'[d] # NoReply <=> conn'[d] = "answered"
             /\ Succeeded(d)' /\ GetRequest(request'[d]) => IsAnswer(reply'[d])
  <2>1. CASE d = c BY <2>1, <1>2 DEF Succeeded
  <2>2. CASE d # c
    <3>1. Succeeded(d)' <=> Succeeded(d) BY <2>2, <1>3 DEF Succeeded
    <3> QED BY <2>2, <3>1, <1>3 DEF RequestsInv
  <2> QED BY <2>1, <2>2
<1> QED BY <1>4, <1>5, KindKept DEF RequestsInv, GetRequest

\* The page and the bounds do not look at the connections.
LEMMA PageKept ==
    ASSUME PageInv, UNCHANGED <<kind, page>>,
           request'[Page] = NoRequest <=> request[Page] = NoRequest,
           GetRequest(request[Page]) => GetRequest(request'[Page]),
           PutRequest(request[Page]) => PutRequest(request'[Page])
    PROVE  PageInv'
BY KindKept DEF PageInv, GetRequest

LEMMA MethodsDiffer ==
    /\ \A r : PutRequest(r) => ~ GetRequest(r) /\ r # NoRequest /\ r.method = "PUT"
    /\ \A r : GetRequest(r) => r # NoRequest /\ r.method = "GET"
BY DEF PutRequest, GetRequest, NoRequest

\* What a handler answers.
LEMMA Responds ==
    ASSUME Inv, NEW c \in Client, NEW a, Active(c), Respond(c, a),
           a # NoReply, a.status = 200 /\ GetRequest(request[c]) => IsAnswer(a),
           UNCHANGED <<processVars, stream, kind, request, page, edits>>
    PROVE  ServersInv' /\ RequestsInv' /\ PageInv'
<1> USE DEF Inv
<1>1. ConnMoves(c) BY DEF ConnMoves, ConnStates, Respond
<1>2. ServersInv' BY <1>1, MovesKeepServers DEF ServersInv, ServersTyped
<1>3. request' = [request EXCEPT ![c] = request[c]] BY DEF RequestsInv
<1>4. conn[c] # "idle" BY DEF Active
<1>5. PutRequest(request[c]) \/ GetRequest(request[c]) BY <1>4 DEF RequestsInv
<1>6. request[c] # NoRequest BY <1>5, MethodsDiffer
<1>7. RequestsInv'
  <2> DEFINE r == request[c]
  <2>1. request' = [request EXCEPT ![c] = r] BY <1>3
  <2>2. (PutRequest(r) \/ GetRequest(r)) /\ r # NoRequest BY <1>5, <1>6
  <2>3. a # NoReply /\ a.status = 200 /\ GetRequest(r) => IsAnswer(a) OBVIOUS
  <2>4. conn' = [conn EXCEPT ![c] = "answered"] /\ reply' = [reply EXCEPT ![c] = a] BY DEF Respond
  <2> HIDE DEF r
  <2> QED BY <2>1, <2>2, <2>3, <2>4, RequestMoves
<1>8. PageInv' BY PageKept
<1> QED BY <1>2, <1>7, <1>8

\* Answers that are no success have no body.
LEMMA StatusIs ==
    ASSUME NEW code
    PROVE  Status(code) # NoReply /\ Status(code).status = code
BY DEF Status, NoReply

LEMMA ReceiveKeeps ==
    ASSUME Inv, NEW c \in Client, Receive(c)
    PROVE  Inv'
<1> USE DEF Inv
<1>1. /\ http = "serving" /\ conn[c] = "sent" /\ conn' = [conn EXCEPT ![c] = "running"]
      /\ UNCHANGED <<processVars, stream, kind, store, request, reply, page, edits, puts, faults>>
  BY DEF Receive, Accept, apiVars, pageVars
<1>2. ConnMoves(c) BY <1>1 DEF ConnMoves, ConnStates
<1>3. ServersInv' BY <1>1, <1>2, MovesKeepServers DEF ServersInv, ServersTyped
<1>4. \A d \in Client : conn'[d] = IF d = c THEN "running" ELSE conn[d]
  BY <1>1 DEF ServersInv, ServersTyped
<1>5. RequestsInv'
  <2>1. ASSUME NEW d \in Client
        PROVE  /\ conn'[d] = "idle" <=> conn[d] = "idle"
               /\ conn'[d] = "storing" <=> conn[d] = "storing"
               /\ conn'[d] = "answered" <=> conn[d] = "answered"
    BY <1>1, <1>4
  <2>2. \A d \in Client : Succeeded(d)' <=> Succeeded(d) BY <1>1, <2>1 DEF Succeeded
  <2> QED BY <1>1, <2>1, <2>2, KindKept DEF RequestsInv, GetRequest
<1>6. StoreInv' /\ TogetherInv' BY <1>1, <1>4, StoreKept
<1>7. PageInv' BY <1>1, PageKept
<1>8. CountsInv' BY <1>1 DEF CountsInv
<1> QED BY <1>3, <1>5, <1>6, <1>7, <1>8

LEMMA HandleGetKeeps ==
    ASSUME Inv, NEW c \in Client, HandleGet(c)
    PROVE  Inv'
<1> USE DEF Inv
<1> DEFINE r == request[c]
           k == Key(r.hostname)
           a == CASE Blank(r.hostname) -> Status(400)
                  [] ~ Blank(r.hostname) /\ store[k] = Absent -> Status(404)
                  [] ~ Blank(r.hostname) /\ store[k] = Torn -> Status(400)
                  [] OTHER -> [status |-> 200, body |-> Answer(store[k]), object |-> store[k]]
<1>1. /\ conn[c] = "running" /\ r.method = "GET" /\ Respond(c, a)
      /\ UNCHANGED <<processVars, stream, kind, store, request, page, edits, puts, faults>>
  BY DEF HandleGet, pageVars
<1>2. GetRequest(r) BY <1>1, MethodsDiffer DEF RequestsInv
<1>3. k \in Keys BY <1>2, HostnameFacts DEF GetRequest
<1>4. a # NoReply /\ (a.status = 200 => IsAnswer(a))
  <2>1. CASE a = Status(400) \/ a = Status(404) BY <2>1, StatusIs
  <2>2. CASE ~ (a = Status(400) \/ a = Status(404))
    <3>1. Decodable(k) /\ a = [status |-> 200, body |-> Answer(store[k]), object |-> store[k]]
      BY <2>2 DEF Decodable
    <3>2. PICK h, p, now : IsHostname(h) /\ IsPayload(p) /\ Accepted(h, p) /\ store[k] = Made(h, now, p)
      BY <1>3, <3>1 DEF StoreInv, IsMade
    <3>3. IsMade(store[k]) BY <3>2 DEF IsMade
    <3>4. a.body = Answer(store[k]) /\ a.object = store[k] /\ a.status = 200 BY <3>1
    <3>5. a # NoReply BY <3>4 DEF NoReply
    <3> QED BY <3>3, <3>4, <3>5 DEF IsAnswer
  <2> QED BY <2>1, <2>2
<1> HIDE DEF a
<1>5. ServersInv' /\ RequestsInv' /\ PageInv' BY <1>1, <1>4, Responds DEF Active
<1>6. \A d \in Client : conn'[d] = IF d = c THEN "answered" ELSE conn[d]
  BY <1>1 DEF Respond, ServersInv, ServersTyped
<1>7. StoreInv' /\ TogetherInv' BY <1>1, <1>6, StoreKept
<1>8. CountsInv' BY <1>1 DEF CountsInv
<1> QED BY <1>5, <1>7, <1>8

\* A PUT that ends before anything is written.
LEMMA PutDropped ==
    ASSUME Inv, NEW c \in Client, conn[c] = "running", Respond(c, Status(400)),
           UNCHANGED <<processVars, stream, kind, store, request, page, edits>>
    PROVE  ServersInv' /\ RequestsInv' /\ TogetherInv' /\ PageInv' /\ StoreInv'
<1> USE DEF Inv
<1>1. PICK a : a = Status(400) OBVIOUS
<1>2. a # NoReply /\ a.status # 200 BY <1>1, StatusIs
<1>3. ServersInv' /\ RequestsInv' /\ PageInv' BY <1>1, <1>2, Responds DEF Active
<1>4. \A d \in Client : conn'[d] = IF d = c THEN "answered" ELSE conn[d]
  BY DEF Respond, ServersInv, ServersTyped
<1>5. StoreInv' /\ TogetherInv' BY <1>4, StoreKept
<1> QED BY <1>3, <1>5

LEMMA RefusePutKeeps ==
    ASSUME Inv, NEW c \in Client, RefusePut(c)
    PROVE  Inv'
<1>1. /\ conn[c] = "running" /\ Respond(c, Status(400))
      /\ UNCHANGED <<processVars, stream, kind, store, request, page, edits, puts, faults>>
  BY DEF RefusePut, pageVars
<1>2. CountsInv' BY <1>1 DEF Inv, CountsInv
<1> QED BY <1>1, <1>2, PutDropped DEF Inv

LEMMA FailPutKeeps ==
    ASSUME Inv, NEW c \in Client, FailPut(c)
    PROVE  Inv'
<1>1. /\ conn[c] = "running" /\ Respond(c, Status(400))
      /\ UNCHANGED <<processVars, stream, kind, store, request, page, edits, puts>>
  BY DEF FailPut, pageVars
<1>2. CountsInv' BY <1>1, ManagementAssumption DEF Inv, CountsInv, FailPut
<1> QED BY <1>1, <1>2, PutDropped DEF Inv

\* Steps that write one object.
LEMMA StoreWritten ==
    ASSUME StoreInv, NEW k \in Keys, NEW object, kind' = kind, store' = [store EXCEPT ![k] = object],
           \A j \in Keys \ {k} : /\ Storing(j)' = Storing(j)
                                 /\ \A c \in Storing(j) : request'[c] = request[c],
           Storing(k)' # {} /\ (\A c \in Storing(k)' : request'[c].alone) => object = Torn,
           object \notin {Absent, Torn} => IsMade(object)
    PROVE  StoreInv'
<1>1. DOMAIN store' = Keys /\ store'[k] = object /\ \A j \in Keys \ {k} : store'[j] = store[j]
  BY DEF StoreInv
<1>2. ASSUME NEW j \in Keys, Storing(j)' # {}, \A c \in Storing(j)' : request'[c].alone
      PROVE  store'[j] = Torn
  <2>1. CASE j = k BY <2>1, <1>1, <1>2
  <2>2. CASE j # k
    <3>1. Storing(j)' = Storing(j) /\ \A c \in Storing(j) : request'[c] = request[c] BY <2>2
    <3>2. Storing(j) # {} /\ \A c \in Storing(j) : request[c].alone BY <3>1, <1>2
    <3> QED BY <3>2, <2>2, <1>1 DEF StoreInv
  <2> QED BY <2>1, <2>2
<1>3. ASSUME NEW j \in Keys, Decodable(j)'
      PROVE  IsMade(store[j])'
  <2>1. CASE j = k BY <2>1, <1>1, <1>3, KindKept DEF Decodable
  <2>2. CASE j # k
    <3>1. Decodable(j) /\ store'[j] = store[j] BY <2>2, <1>1, <1>3 DEF Decodable
    <3> QED BY <3>1, KindKept DEF StoreInv
  <2> QED BY <2>1, <2>2
<1> QED BY <1>1, <1>2, <1>3 DEF StoreInv

LEMMA StartStoreKeeps ==
    ASSUME Inv, NEW c \in Client, StartStore(c)
    PROVE  Inv'
<1> USE DEF Inv
<1> DEFINE k == Key(request[c].hostname)
           both == Storing(k) \cup {c}
<1>1. /\ conn[c] = "running" /\ request[c].method = "PUT" /\ PutAccepted(request[c])
      /\ store' = [store EXCEPT ![k] = Torn]
      /\ conn' = [conn EXCEPT ![c] = "storing"]
      /\ request' = [d \in Client |-> IF both # {c} /\ d \in both
                                      THEN [request[d] EXCEPT !.alone = FALSE] ELSE request[d]]
      /\ UNCHANGED <<processVars, stream, kind, reply, page, edits, puts, faults>>
  BY DEF StartStore, pageVars
<1>2. PutRequest(request[c]) BY <1>1, MethodsDiffer DEF RequestsInv
<1>3. \A d \in both : PutRequest(request[d]) /\ d \in Client BY <1>2 DEF RequestsInv, Storing
<1>4. \A d \in Client : conn'[d] = IF d = c THEN "storing" ELSE conn[d]
  BY <1>1 DEF ServersInv, ServersTyped
<1>5. ASSUME NEW d \in Client
      PROVE  /\ d \notin both => request'[d] = request[d]
             /\ request'[d].hostname = request[d].hostname
             /\ request'[d].payload = request[d].payload
             /\ request'[d].method = request[d].method
             /\ request'[d].kept = request[d].kept
             /\ DOMAIN request'[d] = DOMAIN request[d]
             /\ both # {c} /\ d \in both => request'[d].alone = FALSE
             /\ both = {c} => request'[d] = request[d]
  <2>1. CASE both # {c} /\ d \in both
    <3>1. request'[d] = [request[d] EXCEPT !.alone = FALSE] BY <2>1, <1>1
    <3>2. DOMAIN request[d] = {"method", "hostname", "payload", "alone", "kept"}
      BY <2>1, <1>3 DEF PutRequest
    <3> QED BY <2>1, <3>1, <3>2
  <2>2. CASE ~ (both # {c} /\ d \in both)
    <3>1. request'[d] = request[d] BY <2>2, <1>1
    <3> QED BY <2>2, <3>1
  <2> QED BY <2>1, <2>2
<1>6. ConnMoves(c) BY <1>1 DEF ConnMoves, ConnStates, Active
<1>7. ServersInv' BY <1>1, <1>6, MovesKeepServers DEF ServersInv, ServersTyped
<1>8. \A d \in Client :
        /\ PutRequest(request'[d]) <=> PutRequest(request[d])
        /\ GetRequest(request'[d]) <=> GetRequest(request[d])
        /\ PutAccepted(request'[d]) <=> PutAccepted(request[d])
        /\ request'[d] = NoRequest <=> request[d] = NoRequest
  <2> TAKE d \in Client
  <2>1. CASE d \notin both BY <2>1, <1>5
  <2>2. CASE d \in both
    <3>1. PutRequest(request[d]) /\ PutRequest(request'[d])
      BY <2>2, <1>3, <1>5 DEF PutRequest, KeepsLoaded, MadeNow
    <3>2. PutAccepted(request'[d]) <=> PutAccepted(request[d]) BY <1>5 DEF PutAccepted
    <3> QED BY <3>1, <3>2, MethodsDiffer
  <2> QED BY <2>1, <2>2
<1>9. RequestsInv'
  <2>1. request' = [d \in Client |-> request'[d]] /\ reply' = [d \in Client |-> reply'[d]]
    BY <1>1 DEF RequestsInv
  <2>2. ASSUME NEW d \in Client
        PROVE  /\ conn'[d] = "idle" <=> request'[d] = NoRequest
               /\ conn'[d] # "idle" => PutRequest(request'[d]) \/ GetRequest(request'[d])
               /\ conn'[d] = "storing" => PutRequest(request'[d]) /\ PutAccepted(request'[d])
               /\ reply'[d] # NoReply <=> conn'[d] = "answered"
               /\ Succeeded(d)' /\ GetRequest(request'[d]) => IsAnswer(reply'[d])
    <3>1. Succeeded(d)' => Succeeded(d) BY <1>1, <1>4 DEF Succeeded
    <3>2. CASE d = c
      <4>1. conn'[d] = "storing" /\ conn[d] = "running" BY <3>2, <1>1, <1>4
      <4>2. PutRequest(request'[d]) /\ PutAccepted(request'[d]) /\ ~ Succeeded(d)'
        BY <3>2, <4>1, <1>1, <1>2, <1>8 DEF Succeeded
      <4> QED BY <4>1, <4>2, <1>1, MethodsDiffer DEF RequestsInv
    <3>3. CASE d # c BY <3>1, <3>3, <1>1, <1>4, <1>8 DEF RequestsInv
    <3> QED BY <3>2, <3>3
  <2> QED BY <2>1, <2>2, <1>1, KindKept DEF RequestsInv, GetRequest
<1>10. k \in Keys BY <1>2, HostnameFacts DEF PutRequest
<1>11. Storing(k)' = both
  BY <1>4, <1>5 DEF Storing
<1>12. \A j \in Keys \ {k} : Storing(j)' = Storing(j) /\ \A d \in Storing(j) : request'[d] = request[d]
  <2> TAKE j \in Keys \ {k}
  <2>1. Storing(j)' = Storing(j) BY <1>1, <1>4, <1>5 DEF Storing
  <2>2. \A d \in Storing(j) : d \notin both BY <1>1 DEF Storing
  <2> QED BY <2>1, <2>2, <1>5 DEF Storing
<1>13. StoreInv'
  <2> HIDE DEF k, both
  <2> QED BY <1>1, <1>10, <1>12, StoreWritten
<1>14. TogetherInv'
  <2> SUFFICES ASSUME NEW d \in Client, NEW e \in Client, d # e,
                      conn'[d] = "storing", conn'[e] = "storing",
                      Key(request'[d].hostname) = Key(request'[e].hostname)
               PROVE  ~ request'[d].alone
    BY DEF TogetherInv
  <2>1. Key(request[d].hostname) = Key(request[e].hostname) BY <1>5
  <2>2. CASE d \in both
    <3>1. e \in both BY <2>1, <2>2, <1>4 DEF Storing
    <3>2. both # {c} BY <2>2, <3>1
    <3> QED BY <2>2, <3>2, <1>5
  <2>3. CASE d \notin both
    <3>1. d # c /\ e \notin both BY <2>1, <2>3, <1>4 DEF Storing
    <3>2. conn[d] = "storing" /\ conn[e] = "storing" BY <3>1, <1>4
    <3> QED BY <2>1, <2>3, <3>2, <1>5 DEF TogetherInv
  <2> QED BY <2>2, <2>3
<1>15. PageInv' BY <1>1, <1>8, Two, PageKept
<1>16. CountsInv' BY <1>1 DEF CountsInv
<1> QED BY <1>7, <1>9, <1>13, <1>14, <1>15, <1>16

\* What the write of a PUT may leave.
LeftBy(c, now) == {MadeNow(request[c], now), Torn}

\* The end of a PUT, whatever it leaves.
LEMMA StoreEnds ==
    ASSUME Inv, NEW c \in Client, NEW now, NEW object \in LeftBy(c, now), NEW code,
           conn[c] = "storing",
           store' = [store EXCEPT ![Key(request[c].hostname)] = object],
           Respond(c, Status(code)),
           UNCHANGED <<processVars, stream, kind, request, page, edits>>
    PROVE  ServersInv' /\ RequestsInv' /\ TogetherInv' /\ PageInv' /\ StoreInv'
<1> USE DEF Inv
<1>1. PutRequest(request[c]) /\ PutAccepted(request[c]) BY DEF RequestsInv
<1>2. ServersInv' /\ RequestsInv' /\ PageInv'
  <2>1. PICK a : a = Status(code) OBVIOUS
  <2>2. a # NoReply BY <2>1, StatusIs
  <2>3. ~ GetRequest(request[c]) BY <1>1, MethodsDiffer
  <2> QED BY <2>1, <2>2, <2>3, Responds DEF Active
<1>3. \A d \in Client : conn'[d] = IF d = c THEN "answered" ELSE conn[d]
  BY DEF Respond, ServersInv, ServersTyped
<1>4. TogetherInv' BY <1>3 DEF TogetherInv
<1>5. StoreInv'
  <2>0. PICK k : k = Key(request[c].hostname) OBVIOUS
  <2>1. k \in Keys BY <1>1, <2>0, HostnameFacts DEF PutRequest
  <2>2. \A j : Storing(j)' = Storing(j) \ {c} BY <1>3 DEF Storing
  <2>3. \A j \in Keys \ {k} : Storing(j)' = Storing(j) /\ \A d \in Storing(j) : request'[d] = request[d]
    BY <2>0, <2>2 DEF Storing
  <2>4. ~ (Storing(k)' # {} /\ \A d \in Storing(k)' : request'[d].alone)
    <3> SUFFICES ASSUME NEW d \in Storing(k)' PROVE ~ request'[d].alone
      OBVIOUS
    <3>1. d \in Storing(k) /\ d # c BY <2>2
    <3> QED BY <3>1, <2>0 DEF TogetherInv, Storing
  <2>5. object \notin {Absent, Torn} =>
          IsMade(object)
    <3>1. IsHostname(Trim(request[c].hostname)) /\ Accepted(Trim(request[c].hostname), request[c].payload)
      BY <1>1, HostnameFacts DEF PutRequest, PutAccepted
    <3>2. IsPayload(request[c].payload) BY <1>1 DEF PutRequest
    <3> QED BY <3>1, <3>2 DEF LeftBy, MadeNow, IsMade
  <2>6. Storing(k)' # {} /\ (\A d \in Storing(k)' : request'[d].alone) => object = Torn
    BY <2>4
  <2>7. store' = [store EXCEPT ![k] = object] /\ kind' = kind /\ StoreInv BY <2>0
  <2> QED BY <2>1, <2>3, <2>5, <2>6, <2>7, StoreWritten
<1> QED BY <1>2, <1>4, <1>5

LEMMA FinishStoreKeeps ==
    ASSUME Inv, NEW c \in Client, NEW now \in Times, FinishStore(c, now)
    PROVE  Inv'
<1>1. /\ conn[c] = "storing" /\ Respond(c, Status(200))
      /\ UNCHANGED <<processVars, stream, kind, request, page, edits>>
      /\ puts' = puts /\ faults' = faults
  BY DEF FinishStore, pageVars
<1>2. PICK object \in LeftBy(c, now) :
        store' = [store EXCEPT ![Key(request[c].hostname)] = object]
  BY DEF FinishStore, LeftBy
<1>3. ServersInv' /\ RequestsInv' /\ TogetherInv' /\ PageInv' /\ StoreInv'
  BY <1>1, <1>2, StoreEnds
<1>4. CountsInv' BY <1>1 DEF Inv, CountsInv
<1> QED BY <1>3, <1>4 DEF Inv

LEMMA FailStoreKeeps ==
    ASSUME Inv, NEW c \in Client, NEW now \in Times, FailStore(c, now)
    PROVE  Inv'
<1>1. /\ conn[c] = "storing" /\ Respond(c, Status(400))
      /\ UNCHANGED <<processVars, stream, kind, request, page, edits>>
      /\ puts' = puts
  BY DEF FailStore, pageVars
<1>2. PICK object \in LeftBy(c, now) :
        store' = [store EXCEPT ![Key(request[c].hostname)] = object]
  BY DEF FailStore, LeftBy
<1>3. ServersInv' /\ RequestsInv' /\ TogetherInv' /\ PageInv' /\ StoreInv'
  BY <1>1, <1>2, StoreEnds
<1>4. CountsInv' BY <1>1, ManagementAssumption DEF Inv, CountsInv, FailStore
<1> QED BY <1>3, <1>4 DEF Inv

----------------------------------------------------------------------------
\* The clients.

LEMMA Sends ==
    ASSUME Inv, NEW c \in Client, NEW r, PutRequest(r) \/ GetRequest(r), conn[c] = "idle" \/ Over(c),
           Send(c, r), UNCHANGED <<processVars, stream, kind, store>>
    PROVE  /\ ServersInv' /\ RequestsInv' /\ StoreInv' /\ TogetherInv'
           /\ request'[c] = r /\ \A d \in Client \ {c} : request'[d] = request[d]
<1> USE DEF Inv
<1>1. PICK x : x = IF http = "serving" THEN "sent" ELSE "refused" OBVIOUS
<1>2. /\ x \in {"sent", "refused"} /\ conn' = [conn EXCEPT ![c] = x]
      /\ request' = [request EXCEPT ![c] = r] /\ reply' = [reply EXCEPT ![c] = NoReply]
  BY <1>1 DEF Send
<1>3. r # NoRequest BY MethodsDiffer
<1>4. ServersInv'
  <2>1. ConnMoves(c) BY <1>2 DEF ConnMoves, ConnStates
  <2> QED BY <2>1, MovesKeepServers DEF ServersInv, ServersTyped
<1>5. RequestsInv' BY <1>2, <1>3, RequestMoves
<1>6. request'[c] = r /\ \A d \in Client \ {c} : request'[d] = request[d]
  BY <1>2 DEF RequestsInv
<1>7. \A d \in Client : conn'[d] = IF d = c THEN x ELSE conn[d]
  BY <1>2 DEF ServersInv, ServersTyped
<1>8. StoreInv' /\ TogetherInv'
  <2>1. \A d \in Client : conn'[d] = "storing" => conn[d] = "storing" /\ request'[d] = request[d]
    BY <1>2, <1>6, <1>7
  <2>2. \A d \in Client : conn[d] = "storing" => conn'[d] = "storing" BY <1>7 DEF Over
  <2> QED BY <2>1, <2>2, StoreKept
<1> QED BY <1>4, <1>5, <1>6, <1>8

LEMMA Forgets ==
    ASSUME Inv, NEW c \in Client, Over(c), Forget(c), UNCHANGED <<processVars, stream, kind, store>>
    PROVE  /\ ServersInv' /\ RequestsInv' /\ StoreInv' /\ TogetherInv'
           /\ request'[c] = NoRequest
<1> USE DEF Inv
<1>1. /\ conn' = [conn EXCEPT ![c] = "idle"] /\ request' = [request EXCEPT ![c] = NoRequest]
      /\ reply' = [reply EXCEPT ![c] = NoReply]
  BY DEF Forget
<1>2. ServersInv'
  <2>1. ConnMoves(c) BY <1>1 DEF ConnMoves, ConnStates
  <2> QED BY <2>1, MovesKeepServers DEF ServersInv, ServersTyped
<1>3. RequestsInv' BY <1>1, RequestMoves
<1>4. request'[c] = NoRequest /\ \A d \in Client \ {c} : request'[d] = request[d]
  BY <1>1 DEF RequestsInv
<1>5. \A d \in Client : conn'[d] = IF d = c THEN "idle" ELSE conn[d]
  BY <1>1 DEF ServersInv, ServersTyped
<1>6. StoreInv' /\ TogetherInv'
  <2>1. \A d \in Client : conn'[d] = "storing" => conn[d] = "storing" /\ request'[d] = request[d]
    BY <1>4, <1>5
  <2>2. \A d \in Client : conn[d] = "storing" => conn'[d] = "storing" BY <1>5 DEF Over
  <2> QED BY <2>1, <2>2, StoreKept
<1> QED BY <1>2, <1>3, <1>4, <1>6

\* What a script puts and a user drafts has the form of the kind.
LEMMA PayloadsOfKind ==
    ASSUME CountsInv
    PROVE  /\ \A p \in ScriptPayloads[kind] : IsPayload(p)
           /\ \A draft \in Drafts[kind] : IsDraft(draft)
<1>1. kind \in Kinds /\ kind \in {"dns", "http", "tls"} BY KindIs DEF CountsInv
<1>2. \A p \in ItemOfKind[kind] : IsItemPayload(p)
  <2>1. CASE kind = "dns"
    <3>1. \A p \in Payloads : HasValues(p) BY DEF Payloads, HasValues, IsSeq
    <3> QED BY <2>1, <3>1 DEF ItemOfKind, IsItemPayload
  <2>2. CASE kind = "http"
    <3>1. \A p \in PolicyFields : HasPairs(p) BY DEF PolicyFields, HasPairs, IsSeq
    <3> QED BY <2>2, <3>1 DEF ItemOfKind, IsItemPayload
  <2>3. CASE kind = "tls"
    <3>1. \A p \in TLSFields : DOMAIN p = TLSNames BY DEF TLSFields, TLSNames
    <3> QED BY <2>3, <3>1 DEF ItemOfKind, IsItemPayload
  <2> QED BY <1>1, <2>1, <2>2, <2>3
<1>3. \A p \in ScriptPayloads[kind] : IsPayload(p)
  <2> SUFFICES ASSUME NEW p \in ScriptPayloads[kind] PROVE IsPayload(p)
    OBVIOUS
  <2>1. p \in PayloadOfKind[kind] BY <1>1, PayloadAssumption
  <2>2. CASE kind = "tls"
    <3>1. p \in ItemOfKind[kind] BY <2>1, <2>2 DEF PayloadOfKind, ItemOfKind
    <3> QED BY <2>2, <3>1, <1>2 DEF IsPayload
  <2>3. CASE kind # "tls"
    <3>1. PayloadOfKind[kind] = Seq(ItemOfKind[kind])
      BY <2>3, <1>1 DEF PayloadOfKind, ItemOfKind
    <3>2. IsSeq(p) /\ \A i \in 1..Len(p) : p[i] \in ItemOfKind[kind]
      BY <2>1, <3>1 DEF IsSeq
    <3> QED BY <2>3, <3>2, <1>2 DEF IsPayload
  <2> QED BY <2>2, <2>3
<1>4. ASSUME NEW draft \in Drafts[kind] PROVE IsDraft(draft)
  <2>1. draft.item \in ItemOfKind[kind] /\ draft.was = None BY <1>1, PayloadAssumption
  <2> QED BY <2>1, <1>2 DEF IsDraft
<1> QED BY <1>3, <1>4

LEMMA PutKeeps ==
    ASSUME Inv, NEW hostname \in Hostnames, NEW p \in ScriptPayloads[kind], Put(hostname, p)
    PROVE  Inv'
<1> USE DEF Inv
<1> DEFINE r == [method |-> "PUT", hostname |-> hostname, payload |-> p, alone |-> TRUE, kept |-> {}]
<1>1. /\ puts < MaxPuts /\ puts' = puts + 1
      /\ conn[Script] = "idle" \/ Over(Script)
      /\ Send(Script, r)
      /\ UNCHANGED <<processVars, stream, kind, store, page, edits, faults>>
  BY DEF Put, pageVars
<1>2. PutRequest(r) BY PayloadsOfKind DEF PutRequest, KeepsLoaded
<1> HIDE DEF r
<1>3. /\ ServersInv' /\ RequestsInv' /\ StoreInv' /\ TogetherInv'
      /\ \A d \in Client \ {Script} : request'[d] = request[d]
  BY <1>1, <1>2, Two, Sends
<1>4. PageInv' BY <1>1, <1>3, Two, PageKept
<1>5. CountsInv' BY <1>1, ManagementAssumption DEF CountsInv
<1> QED BY <1>3, <1>4, <1>5

\* A page that waits for nothing has no connection.
LEMMA PageIdle ==
    ASSUME Inv, page.busy = "none"
    PROVE  conn[Page] = "idle"
BY Two DEF Inv, PageInv, RequestsInv

LEMMA LoadKeeps ==
    ASSUME Inv, Load
    PROVE  Inv'
<1> USE DEF Inv
<1> DEFINE r == [method |-> "GET", hostname |-> page.hostname]
<1>1. /\ page.busy = "none" /\ Send(Page, r)
      /\ page' = [page EXCEPT !.busy = "loading"]
      /\ UNCHANGED <<processVars, stream, kind, store, edits, puts, faults>>
  BY DEF Load
<1>2. GetRequest(r) BY DEF GetRequest, PageInv
<1> HIDE DEF r
<1>3. ServersInv' /\ RequestsInv' /\ StoreInv' /\ TogetherInv' /\ request'[Page] = r
  BY <1>1, <1>2, Two, PageIdle, Sends
<1>4. PageInv' BY <1>1, <1>2, <1>3, KindKept, MethodsDiffer DEF PageInv, GetRequest
<1>5. CountsInv' BY <1>1 DEF CountsInv
<1> QED BY <1>3, <1>4, <1>5

LEMMA FlushKeeps ==
    ASSUME Inv, Flush
    PROVE  Inv'
<1> USE DEF Inv
<1> DEFINE p == Flushed(page.items, page.hostname)
           old == {page.items[i].was : i \in 1..Len(page.items)} \ {None}
           r == [method |-> "PUT", hostname |-> page.hostname, payload |-> p, alone |-> TRUE, kept |-> old]
<1>1. /\ page.busy = "none" /\ Send(Page, r)
      /\ page' = [page EXCEPT !.busy = "flushing"]
      /\ UNCHANGED <<processVars, stream, kind, store, edits, puts, faults>>
  BY DEF Flush
<1>2. IsPayload(p) BY KindIs, FlushedPayload DEF PageInv
<1>3. PutRequest(r)
  <2>1. r.payload = p /\ r.hostname = page.hostname /\ r.kept = old OBVIOUS
  <2>2. KeepsLoaded(r)
    <3>1. IsDrafts(page.items) /\ \A i \in 1..Len(page.items) : Valid(page.items[i])
      BY DEF PageInv, Flush
    <3> QED BY <2>1, <3>1, KindIs, FlushKeepsLoaded
  <2> HIDE DEF p, old
  <2> QED BY <1>2, <2>2 DEF PutRequest, PageInv
<1> HIDE DEF r
<1>4. ServersInv' /\ RequestsInv' /\ StoreInv' /\ TogetherInv' /\ request'[Page] = r
  BY <1>1, <1>3, Two, PageIdle, Sends
<1>5. PageInv' BY <1>1, <1>3, <1>4, KindKept, MethodsDiffer DEF PageInv
<1>6. CountsInv' BY <1>1 DEF CountsInv
<1> QED BY <1>4, <1>5, <1>6

LEMMA FlushOverKeeps ==
    ASSUME Inv, FlushOver
    PROVE  Inv'
<1> USE DEF Inv
<1>1. PICK dirty \in BOOLEAN : page' = [page EXCEPT !.busy = "none", !.dirty = dirty]
  <2>1. (page.dirty /\ ~ Succeeded(Page)) \in BOOLEAN OBVIOUS
  <2>2. page' = [page EXCEPT !.busy = "none", !.dirty = page.dirty /\ ~ Succeeded(Page)]
    BY DEF FlushOver
  <2> QED BY <2>1, <2>2
<1>2. Over(Page) /\ Forget(Page) /\ UNCHANGED <<processVars, stream, kind, store, edits, puts, faults>>
  BY DEF FlushOver
<1>3. ServersInv' /\ RequestsInv' /\ StoreInv' /\ TogetherInv' /\ request'[Page] = NoRequest
  BY <1>2, Two, Forgets
<1>4. PageInv' BY <1>1, <1>2, <1>3, KindKept DEF PageInv
<1>5. CountsInv' BY <1>2 DEF CountsInv
<1> QED BY <1>3, <1>4, <1>5

\* What the page makes of an answer.
LEMMA LoadedItems ==
    ASSUME Inv, page.busy = "loading", Succeeded(Page), NEW items,
           LET body   == reply[Page].body
               shown  == IF kind = "tls" THEN <<[body EXCEPT !.sni = Trim(request[Page].hostname)]>> ELSE body
           IN  items = [i \in 1..Len(shown) |->
                          [item |-> shown[i], use |-> FALSE, was |-> Items(reply[Page].object)[i]]]
    PROVE  IsDrafts(items)
<1> USE DEF Inv
<1> DEFINE body  == reply[Page].body
           shown == IF kind = "tls" THEN <<[body EXCEPT !.sni = Trim(request[Page].hostname)]>> ELSE body
<1>1. GetRequest(request[Page]) BY DEF PageInv
<1>2. PICK z : z = reply[Page].object OBVIOUS
<1>3. IsMade(z) /\ body = Answer(z) BY <1>1, <1>2, Two DEF RequestsInv, IsAnswer
<1>4. PICK h, p, now : IsHostname(h) /\ IsPayload(p) /\ Accepted(h, p) /\ z = Made(h, now, p)
  BY <1>3 DEF IsMade
<1>5. /\ IsSeq(Items(z)) /\ \A i \in 1..Len(Items(z)) : IsItem(Items(z)[i])
      /\ kind = "tls" => Len(Items(z)) = 1 /\ body = ItemPayload(Items(z)[1])
      /\ kind # "tls" => /\ IsSeq(body) /\ Len(body) = Len(Items(z))
                         /\ \A i \in 1..Len(Items(z)) : body[i] = ItemPayload(Items(z)[i])
  BY <1>3, <1>4, KindIs, MadeItems, AnswerItems DEF IsHostname
<1>6. \A i \in 1..Len(Items(z)) : IsItemPayload(ItemPayload(Items(z)[i]))
  BY <1>5, KindIs, ItemPayloadSound
<1>7. /\ IsSeq(shown) /\ Len(shown) = Len(Items(z))
      /\ \A i \in 1..Len(shown) :
            /\ IsItemPayload(shown[i])
            /\ kind # "tls" => shown[i] = ItemPayload(Items(z)[i])
            /\ kind = "tls" => SameButSNI(shown[i], ItemPayload(Items(z)[i]))
  <2>1. CASE kind = "tls"
    <3>1. PICK sni : sni = Trim(request[Page].hostname) OBVIOUS
    <3>2. PICK x : x = [body EXCEPT !.sni = sni] OBVIOUS
    <3>3. shown = <<x>> BY <2>1, <3>1, <3>2
    <3>4. IsSeq(shown) /\ Len(shown) = 1 /\ shown[1] = x BY <3>3, SeqOne
    <3>5. DOMAIN body = TLSNames BY <2>1, <1>5, <1>6 DEF IsItemPayload
    <3>6. IsItemPayload(x) BY <2>1, <3>2, <3>5 DEF IsItemPayload
    <3>7. SameButSNI(x, body) BY <3>2 DEF SameButSNI
    <3> HIDE DEF shown, body
    <3> QED BY <2>1, <3>4, <3>6, <3>7, <1>5
  <2>2. CASE kind # "tls"
    <3>1. shown = body BY <2>2
    <3> HIDE DEF shown, body
    <3> QED BY <2>2, <3>1, <1>5, <1>6
  <2> QED BY <2>1, <2>2
<1>8. items = [i \in 1..Len(shown) |-> [item |-> shown[i], use |-> FALSE, was |-> Items(z)[i]]]
  BY <1>2
<1> HIDE DEF shown, body
<1>9. Len(shown) \in Nat BY <1>7, SeqFacts
<1>10. items = [i \in 1..Len(shown) |-> items[i]] BY <1>8
<1>11. IsSeq(items) /\ Len(items) = Len(shown) BY <1>9, <1>10, SeqOfFunction
<1>12. ASSUME NEW i \in 1..Len(items)
       PROVE  IsDraft(items[i])
  <2>1. PICK d : d = items[i] OBVIOUS
  <2>2. d.item = shown[i] /\ d.use = FALSE /\ d.was = Items(z)[i] BY <2>1, <1>8, <1>11
  <2>3. IsItem(d.was) /\ IsItemPayload(d.item) BY <2>2, <1>5, <1>7, <1>11
  <2>4. /\ kind # "tls" => d.item = ItemPayload(d.was)
        /\ kind = "tls" => SameButSNI(d.item, ItemPayload(d.was))
    BY <2>2, <1>7, <1>11
  <2> QED BY <2>1, <2>2, <2>3, <2>4 DEF IsDraft, Shows
<1> QED BY <1>5, <1>7, <1>11, <1>12 DEF IsDrafts

LEMMA LoadedKeeps ==
    ASSUME Inv, Loaded
    PROVE  Inv'
<1> USE DEF Inv
<1>1. /\ page.busy = "loading" /\ Over(Page) /\ Forget(Page)
      /\ UNCHANGED <<processVars, stream, kind, store, edits, puts, faults>>
  BY DEF Loaded
<1>2. PICK items, dirty :
        /\ page' = [page EXCEPT !.items = items, !.dirty = dirty, !.busy = "none"]
        /\ dirty \in BOOLEAN
        /\ IsDrafts(items)
  <2>1. CASE Succeeded(Page)
    <3> DEFINE body   == reply[Page].body
               shown  == IF kind = "tls" THEN <<[body EXCEPT !.sni = Trim(request[Page].hostname)]>> ELSE body
               drafts == [i \in 1..Len(shown) |->
                            [item |-> shown[i], use |-> FALSE, was |-> Items(reply[Page].object)[i]]]
    <3>1. page' = [page EXCEPT !.items = drafts, !.dirty = FALSE, !.busy = "none"]
      BY <2>1 DEF Loaded
    <3>2. PICK items : items = drafts OBVIOUS
    <3>3. IsDrafts(items)
      BY <1>1, <2>1, <3>2, LoadedItems
    <3> HIDE DEF drafts
    <3> QED BY <3>1, <3>2, <3>3
  <2>2. CASE ~ Succeeded(Page)
    <3>1. page' = [page EXCEPT !.busy = "none"] BY <2>2 DEF Loaded
    <3>2. \A x, i, d : /\ DOMAIN x = {"hostname", "dirty", "busy", "items"}
                       /\ x = [page EXCEPT !.busy = "none"] /\ i = page.items /\ d = page.dirty
                       => x = [page EXCEPT !.items = i, !.dirty = d, !.busy = "none"]
      BY DEF PageInv
    <3>3. DOMAIN page' = {"hostname", "dirty", "busy", "items"} BY <3>1 DEF PageInv
    <3>4. page' = [page EXCEPT !.items = page.items, !.dirty = page.dirty, !.busy = "none"]
      BY <3>1, <3>2, <3>3
    <3> QED BY <3>4 DEF PageInv
  <2> QED BY <2>1, <2>2
<1>3. ServersInv' /\ RequestsInv' /\ StoreInv' /\ TogetherInv' /\ request'[Page] = NoRequest
  BY <1>1, Two, Forgets
<1>4. PageInv' BY <1>1, <1>2, <1>3, KindKept DEF PageInv
<1>5. CountsInv' BY <1>1 DEF CountsInv
<1> QED BY <1>3, <1>4, <1>5

\* The user.
LEMMA EditKeeps ==
    ASSUME Inv, NEW items, EditPage(items), IsDrafts(items)
    PROVE  Inv'
<1> USE DEF Inv
<1>1. /\ edits < MaxEdits /\ edits' = edits + 1
      /\ page' = [page EXCEPT !.items = items, !.dirty = TRUE]
      /\ UNCHANGED <<serverVars, kind, store, request, reply, puts, faults>>
  BY DEF EditPage, apiVars
<1>2. ServersInv' BY <1>1, ServersStutter
<1>3. conn' = conn /\ request' = request /\ reply' = reply BY <1>1 DEF serverVars
<1>4. RequestsInv' BY <1>1, <1>3, KindKept DEF RequestsInv, Succeeded, GetRequest
<1>5. StoreInv' /\ TogetherInv' BY <1>1, <1>3, StoreKept
<1>6. PageInv' BY <1>1, KindKept DEF PageInv, GetRequest
<1>7. CountsInv' BY <1>1, ManagementAssumption DEF CountsInv
<1> QED BY <1>2, <1>4, <1>5, <1>6, <1>7

LEMMA SeqPart ==
    ASSUME NEW s, IsSeq(s), NEW i \in Nat, NEW j \in Nat, 1 <= i, i <= j + 1, j <= Len(s)
    PROVE  /\ IsSeq(SubSeq(s, i, j))
           /\ \A m \in 1..Len(SubSeq(s, i, j)) : \E n \in 1..Len(s) : SubSeq(s, i, j)[m] = s[n]
<1>1. PICK S : s \in Seq(S) BY DEF IsSeq
<1>2. SubSeq(s, i, j) \in Seq(S) BY <1>1
<1>3. ASSUME NEW m \in 1..Len(SubSeq(s, i, j))
      PROVE  \E n \in 1..Len(s) : SubSeq(s, i, j)[m] = s[n]
  <2>1. Len(s) \in Nat /\ i \in Int /\ j \in Int BY <1>1
  <2>2. Len(SubSeq(s, i, j)) = j - i + 1 BY <1>1, <2>1
  <2>3. i + m - 1 \in 1..Len(s) BY <2>1, <2>2
  <2>4. SubSeq(s, i, j)[m] = s[i + m - 1] BY <1>1, <2>1, <2>2
  <2> QED BY <2>3, <2>4
<1> QED BY <1>2, <1>3 DEF IsSeq

LEMMA AddItemKeeps ==
    ASSUME Inv, NEW draft \in Drafts[kind], AddItem(draft)
    PROVE  Inv'
<1>1. PICK items : items = <<draft>> \o page.items OBVIOUS
<1>2. kind # "tls" /\ EditPage(items) BY <1>1 DEF AddItem
<1>3. IsDraft(draft) BY PayloadsOfKind DEF Inv
<1>4. IsDrafts(page.items) BY DEF Inv, PageInv
<1>5. IsSeq(<<draft>>) /\ Len(<<draft>>) = 1 /\ <<draft>>[1] = draft BY SeqOne
<1>6. PICK old : old = page.items OBVIOUS
<1>7. /\ IsSeq(items)
      /\ \A i \in 1..Len(items) : \/ i \in 1..Len(<<draft>>) /\ items[i] = <<draft>>[i]
                                  \/ i - Len(<<draft>>) \in 1..Len(old) /\ items[i] = old[i - Len(<<draft>>)]
  <2>1. IsSeq(old) BY <1>4, <1>6 DEF IsDrafts
  <2> QED BY <1>1, <1>5, <1>6, <2>1, SeqConcat
<1>8. \A i \in 1..Len(items) : IsDraft(items[i])
  BY <1>3, <1>4, <1>5, <1>6, <1>7 DEF IsDrafts
<1>9. IsDrafts(items) BY <1>2, <1>7, <1>8 DEF IsDrafts
<1> QED BY <1>2, <1>9, EditKeeps

LEMMA ChangeItemKeeps ==
    ASSUME Inv, NEW draft \in Drafts[kind], NEW i \in 1..Len(page.items), ChangeItem(i, draft)
    PROVE  Inv'
<1> USE DEF Inv
<1>1. PICK items : items = [page.items EXCEPT ![i] = draft] OBVIOUS
<1>2. EditPage(items) BY <1>1 DEF ChangeItem
<1>3. Len(page.items) \in Nat /\ DOMAIN page.items = 1..Len(page.items) BY SeqFacts DEF PageInv, IsDrafts
<1>4. /\ items = [j \in 1..Len(page.items) |-> items[j]]
      /\ \A j \in 1..Len(page.items) : items[j] = draft \/ items[j] = page.items[j]
  BY <1>1, <1>3
<1>5. IsSeq(items) /\ Len(items) = Len(page.items) BY <1>3, <1>4, SeqOfFunction
<1>6. \A j \in 1..Len(items) : IsDraft(items[j])
  BY <1>4, <1>5, PayloadsOfKind DEF PageInv, IsDrafts
<1>7. IsDrafts(items) BY <1>5, <1>6 DEF PageInv, IsDrafts
<1> QED BY <1>2, <1>7, EditKeeps

LEMMA RemoveItemKeeps ==
    ASSUME Inv, NEW i \in 1..Len(page.items), RemoveItem(i)
    PROVE  Inv'
<1> USE DEF Inv
<1>1. Len(page.items) \in Nat /\ IsSeq(page.items) BY SeqFacts DEF PageInv, IsDrafts
<1>2. PICK s : s = page.items OBVIOUS
<1>3. PICK t, u : t = SubSeq(s, 1, i - 1) /\ u = SubSeq(s, i + 1, Len(s)) OBVIOUS
<1>4. /\ IsSeq(t) /\ \A m \in 1..Len(t) : \E n \in 1..Len(s) : t[m] = s[n]
      /\ IsSeq(u) /\ \A m \in 1..Len(u) : \E n \in 1..Len(s) : u[m] = s[n]
  <2>1. IsSeq(s) /\ Len(s) \in Nat /\ i \in 1..Len(s) BY <1>1, <1>2
  <2>2. PICK before, after : before = i - 1 /\ after = i + 1 OBVIOUS
  <2>3. /\ before \in Nat /\ 1 <= before + 1 /\ before <= Len(s)
        /\ after \in Nat /\ 1 <= after /\ after <= Len(s) + 1
    BY <2>1, <2>2
  <2>4. /\ IsSeq(SubSeq(s, 1, before))
        /\ \A m \in 1..Len(SubSeq(s, 1, before)) : \E n \in 1..Len(s) : SubSeq(s, 1, before)[m] = s[n]
    BY <2>1, <2>3, SeqPart
  <2>5. /\ IsSeq(SubSeq(s, after, Len(s)))
        /\ \A m \in 1..Len(SubSeq(s, after, Len(s))) : \E n \in 1..Len(s) : SubSeq(s, after, Len(s))[m] = s[n]
    BY <2>1, <2>3, SeqPart
  <2> QED BY <1>3, <2>2, <2>4, <2>5
<1>5. PICK items : items = t \o u OBVIOUS
<1>6. /\ IsSeq(items)
      /\ \A m \in 1..Len(items) : \/ m \in 1..Len(t) /\ items[m] = t[m]
                                  \/ m - Len(t) \in 1..Len(u) /\ items[m] = u[m - Len(t)]
  BY <1>4, <1>5, SeqConcat
<1>7. \A n \in 1..Len(s) : IsDraft(s[n]) BY <1>2 DEF PageInv, IsDrafts
<1>8. \A m \in 1..Len(items) : IsDraft(items[m])
  <2>1. \A m \in 1..Len(t) : IsDraft(t[m]) BY <1>4, <1>7
  <2>2. \A m \in 1..Len(u) : IsDraft(u[m]) BY <1>4, <1>7
  <2> QED BY <2>1, <2>2, <1>6
<1>9. kind # "tls" /\ EditPage(items) BY <1>2, <1>3, <1>5 DEF RemoveItem
<1>10. IsDrafts(items) BY <1>6, <1>8, <1>9 DEF IsDrafts
<1> QED BY <1>9, <1>10, EditKeeps

LEMMA TypeHostnameKeeps ==
    ASSUME Inv, NEW h \in Hostnames, TypeHostname(h)
    PROVE  Inv'
<1> USE DEF Inv
<1>1. /\ edits < MaxEdits /\ edits' = edits + 1
      /\ page' = [page EXCEPT !.hostname = h]
      /\ UNCHANGED <<serverVars, kind, store, request, reply, puts, faults>>
  BY DEF TypeHostname, apiVars
<1>2. ServersInv' BY <1>1, ServersStutter
<1>3. conn' = conn /\ request' = request /\ reply' = reply BY <1>1 DEF serverVars
<1>4. RequestsInv' BY <1>1, <1>3, KindKept DEF RequestsInv, Succeeded, GetRequest
<1>5. StoreInv' /\ TogetherInv' BY <1>1, <1>3, StoreKept
<1>6. PageInv' BY <1>1, KindKept DEF PageInv, GetRequest
<1>7. CountsInv' BY <1>1, ManagementAssumption DEF CountsInv
<1> QED BY <1>2, <1>4, <1>5, <1>6, <1>7

LEMMA StutterKeeps ==
    ASSUME Inv, UNCHANGED vars
    PROVE  Inv'
<1> USE DEF Inv
<1>1. UNCHANGED <<serverVars, kind, store, request, reply, page, puts, edits, faults>> BY DEF vars
<1>2. ServersInv' BY <1>1, ServersStutter
<1>3. conn' = conn /\ request' = request /\ reply' = reply BY <1>1 DEF serverVars
<1>4. RequestsInv' BY <1>1, <1>3, KindKept DEF RequestsInv, Succeeded, GetRequest
<1>5. StoreInv' /\ TogetherInv' BY <1>1, <1>3, StoreKept
<1>6. PageInv' BY <1>1, KindKept DEF PageInv, GetRequest
<1>7. CountsInv' BY <1>1 DEF CountsInv
<1> QED BY <1>2, <1>4, <1>5, <1>6, <1>7

----------------------------------------------------------------------------
\* The specification.

LEMMA InitInv == Init => Inv
<1> SUFFICES ASSUME Init PROVE Inv
  OBVIOUS
<1> USE DEF Init
<1>1. ServersInv BY ServersInitial
<1>2. \A c \in Client : conn[c] = "idle" /\ request[c] = NoRequest /\ reply[c] = NoReply
  BY DEF ServersInit
<1>3. RequestsInv BY <1>2 DEF RequestsInv, Succeeded
<1>4. TogetherInv BY <1>2 DEF TogetherInv
<1>5. CountsInv BY ManagementAssumption DEF CountsInv
<1>6. PageInv
  <2>1. PICK items : items = IF kind = "tls" THEN <<[item |-> NewTLS, use |-> FALSE, was |-> None]>> ELSE <<>>
    OBVIOUS
  <2>2. IsDrafts(items)
    <3>1. CASE kind = "tls"
      <4>1. PICK d : d = [item |-> NewTLS, use |-> FALSE, was |-> None] OBVIOUS
      <4>2. d.item = NewTLS /\ d.was = None BY <4>1
      <4>3. DOMAIN d.item = TLSNames BY <4>2 DEF NewTLS, TLSNames
      <4>4. IsDraft(d) BY <3>1, <4>2, <4>3 DEF IsDraft, IsItemPayload
      <4>5. IsSeq(items) /\ Len(items) = 1 /\ items[1] = d BY <2>1, <3>1, <4>1, SeqOne
      <4> QED BY <4>4, <4>5 DEF IsDrafts
    <3>2. CASE kind # "tls" BY <2>1, <3>2, SeqNone DEF IsDrafts
    <3> QED BY <3>1, <3>2
  <2>3. page \in [hostname : Hostnames, dirty : {FALSE}, busy : {"none"}, items : {items}] BY <2>1
  <2> QED BY <2>2, <2>3, <1>2, Two DEF PageInv
<1>7. StoreInv
  <2>1. \A k \in Keys : Storing(k) = {} /\ ~ Decodable(k) BY <1>2 DEF Storing, Decodable
  <2> QED BY <2>1 DEF StoreInv
<1> QED BY <1>1, <1>3, <1>4, <1>5, <1>6, <1>7 DEF Inv

LEMMA NextInv ==
    ASSUME Inv, [Next]_vars
    PROVE  Inv'
<1>1. CASE Server
  <2>1. ServersInv' BY <1>1, ServerKeepsServers DEF Inv
  <2> QED BY <1>1, <2>1, ServerKeepsRest DEF Inv
<1>2. CASE Handler
  <2>1. PICK c \in Client :
          \/ Receive(c) \/ HandleGet(c) \/ RefusePut(c) \/ FailPut(c) \/ StartStore(c)
          \/ \E now \in Times : FinishStore(c, now) \/ FailStore(c, now)
    BY <1>2 DEF Handler
  <2> QED BY <2>1, ReceiveKeeps, HandleGetKeeps, RefusePutKeeps, FailPutKeeps, StartStoreKeeps,
             FinishStoreKeeps, FailStoreKeeps
<1>3. CASE User
  BY <1>3, LoadKeeps, LoadedKeeps, FlushKeeps, FlushOverKeeps, AddItemKeeps, ChangeItemKeeps,
     RemoveItemKeeps, TypeHostnameKeeps DEF User
<1>4. ASSUME NEW hostname \in Hostnames, NEW payload \in ScriptPayloads[kind], Put(hostname, payload)
      PROVE  Inv'
  BY <1>4, PutKeeps
<1>5. CASE UNCHANGED vars BY <1>5, StutterKeeps
<1> QED BY <1>1, <1>2, <1>3, <1>4, <1>5 DEF Next

LEMMA Invariance == Spec => []Inv
BY InitInv, NextInv, PTL DEF Spec

\* A page that has loaded or is flushing waits for its own request, an object is torn while
\* one client alone writes it (LocalFS.Put truncates before it writes), and a reply is there
\* exactly when its request was answered, however requests, faults and the end of the process
\* interleave.
THEOREM ManagementTyping == Spec => []TypeOK
<1>1. Inv => TypeOK
  <2> SUFFICES ASSUME Inv PROVE TypeOK
    OBVIOUS
  <2>1. \A c \in Client : conn[c] = "storing" => request[c].method = "PUT"
    BY MethodsDiffer DEF Inv, RequestsInv
  <2>2. page.busy = "flushing" => request[Page].method = "PUT"
    BY MethodsDiffer DEF Inv, PageInv
  <2>3. kind = "tls" => Len(page.items) = 1 BY DEF Inv, PageInv, IsDrafts
  <2> QED BY <2>1, <2>2, <2>3 DEF Inv, ServersInv, RequestsInv, PageInv, StoreInv, CountsInv, TypeOK
<1> QED BY <1>1, Invariance, PTL

\* The object of a hostname is servable whenever it can be decoded: the builders of the
\* management API let nothing through that the agents' engines could not use, whoever puts
\* what, two clients at once included.
THEOREM ManagementServable == Spec => []StoredServable
<1>1. Inv => StoredServable
  <2> SUFFICES ASSUME Inv, NEW k \in Keys, Decodable(k) PROVE Servable(store[k])
    BY DEF StoredServable, Servable
  <2>1. PICK h, p, now : IsHostname(h) /\ IsPayload(p) /\ Accepted(h, p) /\ store[k] = Made(h, now, p)
    BY DEF Inv, StoreInv, IsMade
  <2> QED BY <2>1, KindIs, ResourceSound DEF Inv
<1> QED BY <1>1, Invariance, PTL

\* What a GET answers of an object can be PUT back, at any later time, and makes the same
\* object again.
THEOREM ManagementPutBack == Spec => []PutBackSame
<1>1. Inv => PutBackSame
  <2> SUFFICES ASSUME Inv, NEW k \in Keys, Decodable(k), NEW h \in Hostnames,
                      kind # "dns" => Trim(h) = store[k].hostname
               PROVE  /\ Accepted(Trim(h), Answer(store[k]))
                      /\ \A now \in Times : Made(Trim(h), now, Answer(store[k])) = store[k]
    BY DEF PutBackSame
  <2>1. PICK g, p, now : IsHostname(g) /\ IsPayload(p) /\ Accepted(g, p) /\ store[k] = Made(g, now, p)
    BY DEF Inv, StoreInv, IsMade
  <2> QED BY <2>1, KindIs, ResourceSound DEF Inv
<1> QED BY <1>1, Invariance, PTL

\* No request is cut off while Shutdown still waits for it: the handlers are over before the
\* process ends, whichever goroutine fails first and whenever the signal comes.
THEOREM ManagementNoCut == Spec => []NoRequestCut
<1>1. Inv => NoRequestCut BY DEF Inv, ServersInv
<1> QED BY <1>1, Invariance, PTL

----------------------------------------------------------------------------
\* What a flush keeps.

\* Only the end of its own PUT answers a page that is being stored.
LEMMA FlushAnswered ==
    ASSUME Inv, [Next]_vars, conn[Page] = "storing", conn'[Page] = "answered"
    PROVE  \E now \in Times : FinishStore(Page, now) \/ FailStore(Page, now)
<1> USE DEF Inv
<1>1. conn \in [Client -> ConnStates] BY DEF ServersInv, ServersTyped, ConnStates
<1>2. \A x : conn' = [conn EXCEPT ![Script] = x] => conn'[Page] = conn[Page] BY <1>1, Two
<1>3. CASE Server BY <1>3, Two, ServerConns
<1>4. CASE Handler
  <2>1. PICK c \in Client :
          \/ Receive(c) \/ HandleGet(c) \/ RefusePut(c) \/ FailPut(c) \/ StartStore(c)
          \/ \E now \in Times : FinishStore(c, now) \/ FailStore(c, now)
    BY <1>4 DEF Handler
  <2>2. \E x : conn' = [conn EXCEPT ![c] = x]
    BY <2>1 DEF Receive, Accept, HandleGet, RefusePut, FailPut, StartStore, FinishStore, FailStore, Respond
  <2>3. c = Page BY <2>2, <1>2, Two
  <2>4. ~ (Receive(c) \/ HandleGet(c) \/ RefusePut(c) \/ FailPut(c) \/ StartStore(c))
    BY <2>3 DEF Receive, Accept, HandleGet, RefusePut, FailPut, StartStore
  <2> QED BY <2>1, <2>3, <2>4
<1>5. CASE User
  <2>1. page.busy # "none" /\ ~ Over(Page)
    BY PageIdle DEF Over
  <2>2. ~ (Load \/ Loaded \/ Flush \/ FlushOver) BY <2>1 DEF Load, Loaded, Flush, FlushOver
  <2>3. ASSUME NEW items, EditPage(items) PROVE FALSE
    BY <2>3 DEF EditPage, serverVars
  <2>4. ASSUME NEW h, TypeHostname(h) PROVE FALSE
    BY <2>4 DEF TypeHostname, serverVars
  <2>5. ASSUME NEW draft, AddItem(draft) \/ \E i \in 1..Len(page.items) : ChangeItem(i, draft)
        PROVE  FALSE
    BY <2>3, <2>5 DEF AddItem, ChangeItem
  <2>6. ASSUME NEW i, RemoveItem(i) PROVE FALSE
    BY <2>3, <2>6 DEF RemoveItem
  <2> QED BY <1>5, <2>2, <2>4, <2>5, <2>6 DEF User
<1>6. ASSUME NEW hostname \in Hostnames, NEW payload \in ScriptPayloads[kind], Put(hostname, payload)
      PROVE  FALSE
  BY <1>2, <1>6 DEF Put, Send
<1>7. CASE UNCHANGED vars BY <1>7 DEF vars, serverVars
<1> QED BY <1>3, <1>4, <1>5, <1>6, <1>7 DEF Next

\* A flush that nobody else's PUT crossed takes from the items that were loaded and left alone
\* spaces, fixed contents (http.ts:23) and, for TLS, the hostname and the SNI (tls.tsx:27), and
\* nothing else, whatever the user did to the others; no policy is left with nothing.
THEOREM ManagementFlushKeeps == Spec => FlushKeepsTheRest
<1>1. ASSUME Inv, [Next]_vars, conn[Page] = "storing", conn'[Page] = "answered",
             reply'[Page].status = 200, request[Page].alone,
             NEW z \in request[Page].kept
      PROVE  /\ kind = "http" => ~ Blank(z.backend)
             /\ InObject(ThroughConsole(z, request[Page].hostname),
                         store'[Key(request[Page].hostname)])
  <2> USE DEF Inv
  <2>1. PICK now \in Times : FinishStore(Page, now) \/ FailStore(Page, now) BY <1>1, FlushAnswered
  <2>2. reply'[Page].status = 200 /\ reply = [c \in Client |-> reply[c]]
    BY <1>1 DEF RequestsInv
  <2>3. ~ FailStore(Page, now)
    <3>1. FailStore(Page, now) => reply'[Page] = Status(400)
      BY <2>2, Two DEF FailStore, Respond
    <3> QED BY <2>2, <3>1, StatusIs
  <2>4. store' = [store EXCEPT ![Key(request[Page].hostname)] = MadeNow(request[Page], now)]
    BY <1>1, <2>1, <2>3 DEF FinishStore
  <2>5. PutRequest(request[Page]) BY <1>1, Two DEF RequestsInv
  <2>6. Key(request[Page].hostname) \in Keys BY <2>5, HostnameFacts DEF PutRequest
  <2>7. store'[Key(request[Page].hostname)] = MadeNow(request[Page], now)
    <3>1. PICK k, object : k = Key(request[Page].hostname) /\ object = MadeNow(request[Page], now)
      OBVIOUS
    <3>2. DOMAIN store = Keys BY <1>1 DEF StoreInv
    <3>3. store'[k] = object BY <2>4, <2>6, <3>1, <3>2
    <3> QED BY <3>1, <3>3
  <2>8. /\ kind = "http" => ~ Blank(z.backend)
        /\ InObject(ThroughConsole(z, request[Page].hostname), MadeNow(request[Page], now))
    BY <1>1, <2>5 DEF PutRequest, KeepsLoaded
  <2> QED BY <2>7, <2>8
<1>2. ASSUME Inv, [Next]_vars
      PROVE  [ conn[Page] = "storing" /\ conn'[Page] = "answered" /\ reply'[Page].status = 200
                 /\ request[Page].alone
               => \A z \in request[Page].kept :
                   /\ kind = "http" => ~ Blank(z.backend)
                   /\ InObject(ThroughConsole(z, request[Page].hostname),
                               store'[Key(request[Page].hostname)]) ]_vars
  BY <1>1, <1>2
<1> QED BY <1>2, Invariance, PTL DEF Spec, FlushKeepsTheRest

=============================================================================
