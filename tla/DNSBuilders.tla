---------------------------- MODULE DNSBuilders ----------------------------
(***************************************************************************)
(* DNS records from the JSON of the management API to a zone file and back *)
(* (operator/master/manage.go, DNS/builder, writeTo of DNS/zone.go).       *)
(* There is one builder per type of record; each is described here by the  *)
(* fields it asks for, and the operators after them are the code the       *)
(* builders have in common.                                                *)
(***************************************************************************)
EXTENDS Texts, Integers

CONSTANTS
    IPv4, IPv6,       \* addresses
    NoAddress,        \* what ParseIP makes of anything else
    ParseIP(_),       \* net.ParseIP: the address a text is
    FormatIP(_)       \* IP.String: the text of an address

\* An address reads back as itself, and its text has no spaces around it.  (An IPv4 address
\* mapped into IPv6 is an IPv4 address.)
ASSUME AddressAssumption ==
    /\ IPv4 # {} /\ IPv6 # {} /\ IPv4 \cap IPv6 = {} /\ NoAddress \notin IPv4 \cup IPv6
    /\ \A ip \in IPv4 \cup IPv6 :
        FormatIP(ip) \in Text /\ ParseIP(FormatIP(ip)) = ip /\ Trim(FormatIP(ip)) = FormatIP(ip)

----------------------------------------------------------------------------
\* The builders.  hosts: the texts a record of the type must have; numbers: its numbers
\* with their defaults; ip: the addresses it takes; texts: whether it has values.
Plain == [hosts |-> {}, numbers |-> <<>>, ip |-> {}, texts |-> FALSE]

A == [Plain EXCEPT !.ip = IPv4]
AAAA == [Plain EXCEPT !.ip = IPv6]
CNAME == [Plain EXCEPT !.hosts = {"host"}]
MX == [Plain EXCEPT !.hosts = {"exchange"}, !.numbers = [preference |-> 0]]
NS == [Plain EXCEPT !.hosts = {"host"}]
PTR == [Plain EXCEPT !.hosts = {"host"}]
SOA == [Plain EXCEPT !.hosts = {"mname", "rname"},
                     !.numbers = [serial |-> 1, refresh |-> 3600, retry |-> 600,
                                  expire |-> 1209600, minimum |-> 300]]
TXT == [Plain EXCEPT !.texts = TRUE]

Builder == [a |-> A, aaaa |-> AAAA, cname |-> CNAME, mx |-> MX,
            ns |-> NS, ptr |-> PTR, soa |-> SOA, txt |-> TXT]

RecordType == DOMAIN Builder
Hosts == UNION {Builder[t].hosts : t \in RecordType}
Numbers == UNION {DOMAIN Builder[t].numbers : t \in RecordType}

DefaultTTL == 604800

----------------------------------------------------------------------------
\* A record as JSON has it: fields a type does not use are there all the same, and a field
\* that is left out reads as empty or 0.  A type may be anything.
Payloads ==
    [type : STRING, name : Text, ttl : Nat, hosts : [Hosts -> Text], numbers : [Numbers -> Nat],
     address : Text, values : Seq(Text)]

\* 0 stands for a number that is left out.
OrDefault(n, default) == IF n = 0 THEN default ELSE n

\* dnsRecordBuilderFromPayload knows the type, and Build finds what it asks for.
Accepts(p) ==
    /\ p.type \in RecordType
    /\ LET b == Builder[p.type]
       IN  /\ ~ Blank(p.name) /\ \A h \in b.hosts : ~ Blank(p.hosts[h])
           /\ b.ip # {} => ParseIP(p.address) \in b.ip
           /\ b.texts => p.values # <<>> /\ \A i \in 1..Len(p.values) : ~ Blank(p.values[i])

\* Texts are stored as they came.
Build(p) ==
    LET b == Builder[p.type]
    IN  [type    |-> p.type,
         name    |-> p.name,
         ttl     |-> OrDefault(p.ttl, DefaultTTL),
         hosts   |-> [h \in b.hosts |-> p.hosts[h]],
         numbers |-> [n \in DOMAIN b.numbers |-> OrDefault(p.numbers[n], b.numbers[n])],
         ip      |-> IF b.ip = {} THEN NoAddress ELSE ParseIP(p.address),
         values  |-> IF b.texts THEN p.values ELSE <<>>]

\* Mistake: the time to live is left to its default.
BugPayloadOfRecord(r) ==
    [type    |-> r.type,
     name    |-> r.name,
     ttl     |-> 0,
     hosts   |-> [h \in Hosts |-> IF h \in DOMAIN r.hosts THEN r.hosts[h] ELSE Empty],
     numbers |-> [n \in Numbers |-> IF n \in DOMAIN r.numbers THEN r.numbers[n] ELSE 0],
     address |-> IF r.ip = NoAddress THEN Empty ELSE FormatIP(r.ip),
     values  |-> r.values]

\* dnsRecordPayloadFromZone.
PayloadOfRecord(r) ==
    [type    |-> r.type,
     name    |-> r.name,
     ttl     |-> r.ttl,
     hosts   |-> [h \in Hosts |-> IF h \in DOMAIN r.hosts THEN r.hosts[h] ELSE Empty],
     numbers |-> [n \in Numbers |-> IF n \in DOMAIN r.numbers THEN r.numbers[n] ELSE 0],
     address |-> IF r.ip = NoAddress THEN Empty ELSE FormatIP(r.ip),
     values  |-> r.values]

----------------------------------------------------------------------------
\* Zone files.

\* A payload for records nobody gave.
Given(type, name, hosts, numbers) ==
    [type |-> type, name |-> name, ttl |-> 0,
     hosts |-> [h \in Hosts |-> IF h \in DOMAIN hosts THEN hosts[h] ELSE Empty],
     numbers |-> [n \in Numbers |-> IF n \in DOMAIN numbers THEN numbers[n] ELSE 0],
     address |-> Empty, values |-> <<>>]

\* The serial is the time of the PUT; the other numbers are SOA's defaults.
DefaultSOA(hostname, now) ==
    LET zone == Absolute(hostname)
    IN  Given("soa", zone, [mname |-> Under("ns1", zone), rname |-> Under("hostmaster", zone)],
              [serial |-> now])

DefaultNS(hostname) ==
    LET zone == Absolute(hostname)
    IN  Given("ns", zone, [host |-> Under("ns1", zone)], <<>>)

Has(payload, type) == \E i \in 1..Len(payload) : payload[i].type = type

\* dnsPayloadToBin: a zone has a SOA and a NS record.
Completed(hostname, now, payload) ==
    payload \o (IF Has(payload, "soa") THEN <<>> ELSE <<DefaultSOA(hostname, now)>>)
            \o (IF Has(payload, "ns") THEN <<>> ELSE <<DefaultNS(hostname)>>)

AcceptsZone(payload) == \A i \in 1..Len(payload) : Accepts(payload[i])

\* writeTo: the records, and per type where they are, by which the engine finds them.
WriteZone(records) ==
    [records |-> records,
     indexes |-> [t \in RecordType |-> {i \in 1..Len(records) : records[i].type = t}]]

ZoneOf(hostname, now, payload) ==
    LET all == Completed(hostname, now, payload)
    IN  WriteZone([i \in 1..Len(all) |-> Build(all[i])])

\* dnsPayloadFromBin.
PayloadOf(zone) == [i \in 1..Len(zone.records) |-> PayloadOfRecord(zone.records[i])]

=============================================================================
