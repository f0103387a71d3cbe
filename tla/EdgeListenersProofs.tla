------------------------ MODULE EdgeListenersProofs -------------------------
(***************************************************************************)
(* Proofs about EdgeListeners, for any connections and queries.            *)
(***************************************************************************)
EXTENDS EdgeListeners, TLAPS

Inv == TypeOK /\ ConnsOwned /\ ReadyMeansRunning

----------------------------------------------------------------------------
\* Nothing has started.
LEMMA InitInv == Init => Inv
BY ListenersAssumption DEF Init, Inv, TypeOK, ConnsOwned, ReadyMeansRunning

\* The context is cancelled by something outside.
LEMMA CancelKeepsInv == Inv /\ Cancel => Inv'
BY DEF Inv, TypeOK, ConnsOwned, ReadyMeansRunning, Cancel, dnsVars, tlsVars

\* The DNS server and its stopper touch neither connections nor the accept loop.
LEMMA DNSKeepsInv == Inv /\ DNSNext => Inv'
<1> SUFFICES ASSUME Inv, DNSNext PROVE Inv'
    OBVIOUS
<1> USE DEF Inv, TypeOK, ConnsOwned, ReadyMeansRunning, tlsVars
<1>1. CASE RegisterDNS
    BY <1>1 DEF RegisterDNS
<1>2. CASE ServeDNS
    BY <1>2 DEF ServeDNS
<1>3. CASE BindDNSFails
    BY <1>3 DEF BindDNSFails
<1>4. ASSUME NEW q \in Query, Ask(q) PROVE Inv'
    BY <1>4 DEF Ask
<1>5. ASSUME NEW q \in Query, Answer(q) PROVE Inv'
    BY <1>5 DEF Answer
<1>6. CASE StopDNS
    BY <1>6 DEF StopDNS
<1>7. CASE ReturnDNS
    BY <1>7 DEF ReturnDNS
<1> QED
    BY <1>1, <1>2, <1>3, <1>4, <1>5, <1>6, <1>7 DEF DNSNext

\* The HTTP server takes over connections that nobody else has and closes its own.
LEMMA HTTPKeepsInv == Inv /\ HTTPNext => Inv'
<1> SUFFICES ASSUME Inv, HTTPNext PROVE Inv'
    OBVIOUS
<1> USE DEF Inv, TypeOK, ConnsOwned, ReadyMeansRunning, dnsVars, tlsVars
<1>1. CASE ListenHTTP
    BY <1>1 DEF ListenHTTP
<1>2. CASE BindHTTPFails
    BY <1>2 DEF BindHTTPFails
<1>3. CASE StopHTTP
    BY <1>3 DEF StopHTTP
<1>4. ASSUME NEW c \in Conn, ConnectHTTP(c) PROVE Inv'
    BY <1>4, ListenersAssumption DEF ConnectHTTP
<1>5. ASSUME NEW c \in Conn, ServeConn(c) PROVE Inv'
    BY <1>5, ListenersAssumption DEF ServeConn
<1> QED
    BY <1>1, <1>2, <1>3, <1>4, <1>5 DEF HTTPNext

\* The loop lets go of the connection it has, which somebody else has then.
LEMMA ReleaseKeepsInv ==
    ASSUME Inv, tls \in {"hello", "finding", "handshake"},
           NEW place \in {"terminating", "dialing", "handed", "closed"}, Release(place),
           UNCHANGED <<cancelled, dnsVars, http, listener>>
    PROVE  Inv'
<1> USE DEF Inv, dnsVars
<1>1. held \in Conn
    BY DEF TypeOK, ConnsOwned
<1>2. TypeOK'
    BY <1>1 DEF TypeOK, Release
<1>3. ConnsOwned'
    BY <1>1, ListenersAssumption DEF TypeOK, ConnsOwned, Release
<1>4. ReadyMeansRunning'
    BY DEF ReadyMeansRunning, Release
<1> QED
    BY <1>2, <1>3, <1>4

\* A step of the accept loop, of a goroutine it started, or of Stop.
LEMMA TLSKeepsInv == Inv /\ TLSNext => Inv'
<1> SUFFICES ASSUME Inv, TLSNext PROVE Inv'
    OBVIOUS
<1>1. CASE ListenTLS
    BY <1>1 DEF ListenTLS, Inv, TypeOK, ConnsOwned, ReadyMeansRunning, dnsVars
<1>2. CASE BindTLSFails
    BY <1>2 DEF BindTLSFails, Inv, TypeOK, ConnsOwned, ReadyMeansRunning, dnsVars
<1>3. CASE EnterAccept
    BY <1>3 DEF EnterAccept, Inv, TypeOK, ConnsOwned, ReadyMeansRunning, dnsVars
<1>4. ASSUME NEW c \in Conn, ConnectTLS(c) PROVE Inv'
    BY <1>4 DEF ConnectTLS, Inv, TypeOK, ConnsOwned, ReadyMeansRunning, dnsVars, tlsVars
<1>5. ASSUME NEW c \in Conn, Accept(c) PROVE Inv'
    BY <1>5, ListenersAssumption
       DEF Accept, Inv, TypeOK, ConnsOwned, ReadyMeansRunning, dnsVars
<1>6. CASE AcceptClosed
    BY <1>6 DEF AcceptClosed, Inv, TypeOK, ConnsOwned, ReadyMeansRunning, dnsVars
<1>7. CASE AcceptFails
    BY <1>7 DEF AcceptFails, Inv, TypeOK, ConnsOwned, ReadyMeansRunning, dnsVars
<1>8. CASE ReadSNI
    BY <1>8 DEF ReadSNI, Inv, TypeOK, ConnsOwned, ReadyMeansRunning, dnsVars
<1>9. CASE ReadSNIFails
    BY <1>9, ReleaseKeepsInv DEF ReadSNIFails
<1>10. CASE NoPolicy
    BY <1>10, ReleaseKeepsInv DEF NoPolicy
<1>11. CASE Route
  <2>1. CASE Release("dialing") \/ Release("terminating")
    BY <1>11, <2>1, ReleaseKeepsInv DEF Route
  <2>2. CASE tls' = "handshake" /\ UNCHANGED <<held, conn>>
    BY <1>11, <2>2 DEF Route, Inv, TypeOK, ConnsOwned, ReadyMeansRunning, dnsVars
  <2> QED
    BY <1>11, <2>1, <2>2 DEF Route
<1>12. CASE Handshake
    BY <1>12, ReleaseKeepsInv DEF Handshake
<1>13. ASSUME NEW c \in Conn, Terminate(c) \/ DialBackend(c) \/ Close(c) PROVE Inv'
    BY <1>13 DEF Terminate, DialBackend, Close, Inv, TypeOK, ConnsOwned, ReadyMeansRunning,
                 dnsVars, tlsVars
<1>14. CASE TakeListener
    BY <1>14 DEF TakeListener, Inv, TypeOK, ConnsOwned, ReadyMeansRunning, dnsVars
<1>15. CASE CloseListener
    BY <1>15 DEF CloseListener, Inv, TypeOK, ConnsOwned, ReadyMeansRunning, dnsVars
<1> QED
    BY <1>1, <1>2, <1>3, <1>4, <1>5, <1>6, <1>7, <1>8, <1>9, <1>10, <1>11, <1>12, <1>13,
       <1>14, <1>15 DEF TLSNext

\* Every step keeps the invariant.
LEMMA NextInv == Inv /\ [Next]_vars => Inv'
<1> SUFFICES ASSUME Inv, [Next]_vars PROVE Inv'
    OBVIOUS
<1>1. CASE UNCHANGED vars
    BY <1>1 DEF vars, Inv, TypeOK, ConnsOwned, ReadyMeansRunning
<1> QED
    BY <1>1, CancelKeepsInv, DNSKeepsInv, HTTPKeepsInv, TLSKeepsInv DEF Next

\* The servers keep the invariant, fair or not.
LEMMA ListenersInv == Spec => []Inv
BY InitInv, NextInv, PTL DEF Spec

----------------------------------------------------------------------------
\* The servers and connections of a node are in the states the types say (dns.go,
\* engine_http.go, engine_tls.go): an HTTP server is closed only when the node stops.
THEOREM ListenersTyping == Spec => []TypeOK
BY ListenersInv, PTL DEF Inv

\* However many clients connect, every accepted connection is in the hands of the accept
\* loop, a goroutine or the HTTP server until it is closed (engine_tls.go, acceptOne).
THEOREM ListenersOwnConns == Spec => []ConnsOwned
BY ListenersInv, PTL DEF Inv

\* An engine that the health check calls ready has not returned (healthz.go).
THEOREM ListenersReady == Spec => []ReadyMeansRunning
BY ListenersInv, PTL DEF Inv

=============================================================================
