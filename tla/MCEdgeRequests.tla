--------------------------- MODULE MCEdgeRequests ---------------------------
(***************************************************************************)
(* EdgeRequests with names three labels deep: a name, its parents and the  *)
(* wildcards that may answer for it.                                       *)
(***************************************************************************)
EXTENDS EdgeRequests

CONSTANTS c1

MCLabel == {"com", "example", "www", Wild}
MCClient == {c1}
Top == <<"com">>
Mid == <<"example", "com">>
Leaf == <<"www", "example", "com">>
MCNames == {Top, Mid, Leaf, <<Wild, "com">>, <<Wild, "example", "com">>}
MCQTypes == {"A", "SOA"}
MCPaths == {"/", "/x"}

NewRecord(name, type, data) == [name |-> name, type |-> type, data |-> data]
MidZone == WriteZone(<<NewRecord(Mid, "SOA", 1), NewRecord(Mid, "A", 2),
                       NewRecord(<<Wild>> \o Mid, "A", 3), NewRecord(Leaf, "A", 4)>>)
TopZone == WriteZone(<<NewRecord(Top, "SOA", 5), NewRecord(<<Wild>> \o Top, "A", 6)>>)

NewPolicy(paths, raw, fixed, broken) ==
    [paths |-> paths, raw |-> raw, fixed |-> fixed, broken |-> broken]
Route == [policies |-> <<NewPolicy({"/x"}, TRUE, TRUE, FALSE), NewPolicy({"/", "/x"}, FALSE, FALSE, FALSE),
                         NewPolicy({"/"}, TRUE, FALSE, FALSE)>>]
OtherRoute == [policies |-> <<NewPolicy({"/x"}, FALSE, TRUE, FALSE), NewPolicy({}, FALSE, FALSE, TRUE),
                              NewPolicy({"/"}, TRUE, TRUE, FALSE)>>]
RawRoute == [policies |-> <<NewPolicy({"/"}, TRUE, FALSE, FALSE)>>]

NewTLSPolicy(kind, cert) == [kind |-> kind, cert |-> cert]

Change(kind, name, content) == [kind |-> kind, name |-> name, content |-> content]
MCChanges ==
    {Change("dns", Mid, MidZone), Change("dns", Top, TopZone), Change("dns", Leaf, Bad),
     Change("http", Leaf, Route), Change("http", <<Wild>> \o Mid, OtherRoute),
     Change("http", <<Wild>> \o Top, RawRoute), Change("http", <<Wild>> \o Top, Bad),
     Change("tls", Leaf, NewTLSPolicy("https", TRUE)),
     Change("tls", <<Wild>> \o Mid, NewTLSPolicy("passthrough", FALSE)),
     Change("tls", <<Wild>> \o Top, NewTLSPolicy("terminate", FALSE))}
MCContents == {change.content : change \in MCChanges} \cup {Bad}

=============================================================================
