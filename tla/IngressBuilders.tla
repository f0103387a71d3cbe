-------------------------- MODULE IngressBuilders --------------------------
(***************************************************************************)
(* HTTP and TLS routes from the JSON of the management API to a zone and   *)
(* back: the payload (operator/master/manage.go), the builder (ingress/    *)
(* builder), the zone in the store, the builder read from it, the payload. *)
(***************************************************************************)
EXTENDS Texts, Integers

KeyValue == [key : Text, value : Text]

----------------------------------------------------------------------------
\* HTTP.  A builder has room for all three ways to select requests; a policy has one.
PathnameKinds == {"exact", "prefix", "regex"}

PolicyFields ==
    [backend : Text, kind : STRING, pathname : Text,
     query : Seq(KeyValue), header : Seq(KeyValue), fix : Text, raw : BOOLEAN]

\* httpRouteFromPayload: the kind must be one it knows, if there is a pathname ...
TakesPolicy(p) ==
    \/ ~ Blank(p.pathname) /\ p.kind \in PathnameKinds \cup {""}
    \/ Blank(p.pathname) /\ (p.query # <<>> \/ p.header # <<>>)

\* ... and pathname goes before query before header: the others are cleared.
PolicyBuilder(p) ==
    LET path  == ~ Blank(p.pathname)
        query == ~ path /\ p.query # <<>>
    IN  [backend  |-> Trim(p.backend),
         kind     |-> IF path /\ p.kind # "" THEN p.kind ELSE "exact",
         pathname |-> Trim(p.pathname),
         query    |-> IF query THEN p.query ELSE <<>>,
         header   |-> IF path \/ query THEN <<>> ELSE p.header,
         fix      |-> p.fix,
         raw      |-> p.raw]

\* setKeyValues.
KeyValuesGiven(items) ==
    \A i \in 1..Len(items) : ~ Blank(items[i].key) /\ ~ Blank(items[i].value)

\* Mistake: a policy that answers nothing.
BugBuildsPolicy(b) ==
    \/ b.pathname # Empty
    \/ b.pathname = Empty /\ b.query # <<>> /\ KeyValuesGiven(b.query)
    \/ b.pathname = Empty /\ b.query = <<>> /\ b.header # <<>> /\ KeyValuesGiven(b.header)

\* HTTPPolicyBuilder.Build: what it refuses ...
BuildsPolicy(b) ==
    /\ b.backend # Empty \/ b.fix # Empty
    /\ \/ b.pathname # Empty
       \/ b.pathname = Empty /\ b.query # <<>> /\ KeyValuesGiven(b.query)
       \/ b.pathname = Empty /\ b.query = <<>> /\ b.header # <<>> /\ KeyValuesGiven(b.header)

\* ... and what it makes.
Policy(b) ==
    [backend |-> b.backend, fix |-> b.fix, raw |-> b.raw,
     match |-> CASE b.pathname # Empty ->
                        [by |-> "pathname", kind |-> b.kind, pathname |-> b.pathname]
                 [] b.pathname = Empty /\ b.query # <<>> -> [by |-> "query", items |-> b.query]
                 [] OTHER -> [by |-> "header", items |-> b.header]]

\* HTTPPolicyBuilder.From.
FromPolicy(z) ==
    LET m == z.match
    IN  [backend |-> z.backend, fix |-> z.fix, raw |-> z.raw,
         kind |-> IF m.by = "pathname" THEN m.kind ELSE "exact",
         pathname |-> IF m.by = "pathname" THEN m.pathname ELSE Empty,
         query |-> IF m.by = "query" THEN m.items ELSE <<>>,
         header |-> IF m.by = "header" THEN m.items ELSE <<>>]

\* httpPayloadFromBuilder: the kind only beside a pathname.
PolicyPayload(b) ==
    [b EXCEPT !.kind = IF b.pathname = Empty THEN "" ELSE @]

AcceptsHTTP(payload) ==
    \A i \in 1..Len(payload) :
        TakesPolicy(payload[i]) /\ BuildsPolicy(PolicyBuilder(payload[i]))

HTTPRoute(hostname, payload) ==
    [hostname |-> hostname,
     policies |-> [i \in 1..Len(payload) |-> Policy(PolicyBuilder(payload[i]))]]

HTTPPayload(route) ==
    [i \in 1..Len(route.policies) |-> PolicyPayload(FromPolicy(route.policies[i]))]

----------------------------------------------------------------------------
\* TLS.  Port 0 is no port.
TLSKinds == {"https", "tlsPassthrough", "tlsTerminate"}

TLSFields ==
    [sni : Text, cert : Text, key : Text, kind : STRING, host : Text, port : Nat]

NoBackend == [host |-> Empty, port |-> 0]

\* parseTLSKind: no kind is https.
TLSKind(kind) == IF kind = "" THEN "https" ELSE kind

\* tlsRouteFromPayload.
TLSBuilder(hostname, p) ==
    [p EXCEPT !.sni = IF Blank(@) THEN hostname ELSE Trim(@), !.kind = TLSKind(@)]

\* TLSRouteBuilder.Build: a backend is a host and a port, and all but https need one.
BuildsTLS(b) ==
    /\ ~ Blank(b.sni)
    /\ ~ Blank(b.host) \/ b.port # 0 => ~ Blank(b.host) /\ b.port # 0
    /\ IF b.kind = "https" THEN ~ Blank(b.cert) /\ ~ Blank(b.key)
       ELSE ~ Blank(b.host) /\ b.port # 0

AcceptsTLS(hostname, p) ==
    TLSKind(p.kind) \in TLSKinds /\ BuildsTLS(TLSBuilder(hostname, p))

TLSRoute(hostname, b) ==
    [hostname |-> hostname, sni |-> b.sni, cert |-> b.cert, key |-> b.key, kind |-> b.kind,
     backend |-> IF Blank(b.host) THEN NoBackend ELSE [host |-> b.host, port |-> b.port]]

\* TLSRouteBuilder.From and tlsPayloadFromBuilder.
FromTLS(z) ==
    [sni |-> z.sni, cert |-> z.cert, key |-> z.key, kind |-> z.kind,
     host |-> z.backend.host, port |-> z.backend.port]

=============================================================================
