---------------------------- MODULE MCManagement ----------------------------
(***************************************************************************)
(* Management with one object, put under two spellings of its name, and    *)
(* payloads that between them use each builder, each default and each way  *)
(* to be refused.                                                          *)
(***************************************************************************)
EXTENDS Management

CONSTANTS browser, curl, agent1

MCLabel == {"app", "ns1", "hostmaster", "x", "4", "6"}
MCClient == {browser, curl}
MCAgent == {agent1}
MCTimes == {10, 20}
MCKinds == {"dns", "http", "tls"}

Word(label) == [Empty EXCEPT !.labels = <<label>>]
Padded(t) == [t EXCEPT !.pad = TRUE]
Spaces == Padded(Empty)
App == Word("app")
X == Word("x")
MCHostnames == {App, [Padded(App) EXCEPT !.dot = TRUE, !.caps = TRUE]}

MCIPv4 == {"1.2.3.4"}
MCIPv6 == {"::1"}
MCFormatIP(ip) == Word(IF ip \in MCIPv4 THEN "4" ELSE "6")
MCParseIP(t) == CASE t = Word("4") -> "1.2.3.4" [] t = Word("6") -> "::1" [] OTHER -> NoAddress

----------------------------------------------------------------------------
NewRecord(type) == Given(type, App, [h \in Hosts |-> X], <<>>)
Numbered(type, n) == [NewRecord(type) EXCEPT !.name = Padded(App), !.ttl = 60, !.numbers = [m \in Numbers |-> n]]
WithAddress(type, t) == [NewRecord(type) EXCEPT !.address = t]
WithValues(values) == [NewRecord("txt") EXCEPT !.values = values]

FullZone == <<WithAddress("a", Word("4")), WithAddress("aaaa", Word("6")), Numbered("mx", 5),
              WithValues(<<Padded(X), X>>), Numbered("soa", 7)>>
OtherZone == <<NewRecord("mx"), Numbered("cname", 0), NewRecord("ptr"), Numbered("ns", 0)>>

HTTPPolicy(backend, fix, path) ==
    [backend |-> backend, kind |-> "", pathname |-> path, query |-> <<>>, header |-> <<>>,
     fix |-> fix, raw |-> TRUE]
Pair(key, value) == [key |-> key, value |-> value]

FullRoute == <<[HTTPPolicy(Padded(X), Empty, Padded(X)) EXCEPT !.kind = "prefix", !.query = <<Pair(X, X)>>],
               [HTTPPolicy(X, Empty, Spaces) EXCEPT !.query = <<Pair(Padded(X), X), Pair(X, X)>>],
               [HTTPPolicy(X, Empty, Empty) EXCEPT !.header = <<Pair(X, Padded(X))>>, !.raw = FALSE]>>

NewRoute(type, cert, host, port) ==
    [sni |-> Empty, cert |-> cert, key |-> cert, kind |-> type, host |-> host, port |-> port]

MCScriptPayloads ==
    [dns |-> {FullZone, OtherZone, <<WithAddress("aaaa", Word("4"))>>,
              <<WithValues(<<X, Spaces>>)>>, <<NewRecord("srv")>>},
     http |-> {FullRoute, <<HTTPPolicy(X, Padded(X), X)>>, <<HTTPPolicy(Spaces, Empty, X)>>,
               <<[HTTPPolicy(X, Empty, Empty) EXCEPT !.header = <<Pair(X, Spaces)>>]>>,
               <<[HTTPPolicy(X, Empty, X) EXCEPT !.kind = "glob"]>>},
     tls |-> {NewRoute("https", Padded(X), Spaces, 0), NewRoute("", X, Padded(X), 443),
              [NewRoute("tlsPassthrough", Empty, X, 443) EXCEPT !.sni = Padded(X)],
              NewRoute("https", Spaces, Empty, 0), NewRoute("tlsTerminate", X, Empty, 443)}]

Draft(item, use) == [item |-> item, use |-> use, was |-> None]
MCDrafts ==
    [dns |-> {Draft([WithValues(<<Spaces, X>>) EXCEPT !.ttl = 300], FALSE)},
     http |-> {Draft(HTTPPolicy(Empty, X, X), TRUE)},
     tls |-> {Draft(NewRoute("tlsPassthrough", Empty, X, 80), FALSE)}]

----------------------------------------------------------------------------
\* The end of the process does not depend on what requests are about, and what is stored
\* does not depend on how the process ends.  So one half of the run has the process come up
\* and stay, with every resource and edit, and the other has it fail and be stopped at any
\* moment, with requests of one kind, edits left out.
VARIABLE scope

MCInit ==
    /\ Init
    /\ scope \in {"resources", "process"}
    /\ scope = "process" => kind = "tls" /\ page.hostname = App

MCNext ==
    /\ Next
    /\ scope = "resources" => ~ GroupDone' /\ main' # "returned" /\ UNCHANGED stream
    /\ scope = "resources" /\ ~ (http = "serving" /\ grpc = "serving") => UNCHANGED <<page, request>>
    /\ puts' + edits' <= IF kind = "dns" THEN 2 ELSE 3
    /\ scope = "process" => edits' = 0 /\ puts' <= 1
    /\ UNCHANGED scope

MCSpec == MCInit /\ [][MCNext]_<<vars, scope>> /\ Fairness

=============================================================================
