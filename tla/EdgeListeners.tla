--------------------------- MODULE EdgeListeners ---------------------------
(***************************************************************************)
(* The servers of an edge node and how they stop: the DNS server           *)
(* (DNS/dns.go), the HTTP server (ingress/engine_http.go) and the TLS      *)
(* accept loop (ingress/engine_tls.go), which the agent's process runs in  *)
(* one errgroup (operator/agent/cmd/main.go).  The process ends when the   *)
(* DNS and the TLS Listen have returned; an error of one, a signal, or the *)
(* end of the subscription cancels the context they share, and a goroutine *)
(* of each then stops it.                                                  *)
(*                                                                         *)
(* What a request is answered is module EdgeRequests; here a policy is any.*)
(***************************************************************************)
EXTENDS Integers

CONSTANTS
    Conn,       \* TCP connections, each used once
    Query,      \* DNS queries, each sent once
    None        \* no connection

ASSUME ListenersAssumption == None \notin Conn

VARIABLES
    cancelled,  \* the context of the errgroup
    dns,        \* Listen of the DNS engine
    dnsServer,  \* its e.server is set
    dnsStop,    \* its goroutine that waits for the context
    query,      \* per query
    http,       \* Listen of the HTTP engine, and its http.Server
    tls,        \* Listen of the TLS engine: the accept loop
    held,       \* the connection the accept loop has in hand
    listener,   \* the TLS listener: open and in e.listener, taken by Stop, closed, or
                \* orphaned: open, but no longer in e.listener
    conn        \* per connection: where it is

vars == <<cancelled, dns, dnsServer, dnsStop, query, http, tls, held, listener, conn>>
dnsVars == <<dns, dnsServer, dnsStop, query>>
tlsVars == <<tls, held, listener>>

TypeOK ==
    /\ cancelled \in BOOLEAN
    /\ dns \in {"new", "registered", "serving", "draining", "returned"}
    /\ dnsServer \in BOOLEAN
    /\ dnsStop \in {"none", "armed", "done"}
    /\ query \in [Query -> {"none", "asked", "answered"}]
    /\ http \in {"new", "listening", "failed", "closed"}
    /\ tls \in {"new", "accepting", "waiting", "hello", "finding", "handshake", "returned"}
    /\ held \in Conn \cup {None}
    /\ listener \in {"none", "open", "taken", "closed", "orphan"}
    /\ conn \in [Conn -> {"none", "backlog", "held", "terminating", "dialing", "proxied",
                          "handed", "http", "lost", "closed"}]
    /\ dnsStop = "none" <=> dns = "new"
    /\ http = "closed" => cancelled

Init ==
    /\ cancelled = FALSE
    /\ dns = "new" /\ dnsServer = FALSE /\ dnsStop = "none"
    /\ query = [q \in Query |-> "none"]
    /\ http = "new"
    /\ tls = "new" /\ held = None /\ listener = "none"
    /\ conn = [c \in Conn |-> "none"]

\* A signal, or the subscription ended.
Cancel ==
    /\ ~ cancelled
    /\ cancelled' = TRUE
    /\ UNCHANGED <<dnsVars, http, tlsVars, conn>>

----------------------------------------------------------------------------
\* DNS.

\* Mistake: nobody waits for the context.
BugRegisterDNS ==
    /\ dns = "new"
    /\ dns' = "registered" /\ dnsServer' = TRUE
    /\ UNCHANGED <<cancelled, dnsStop, query, http, tlsVars, conn>>

\* The server is made and registered, the goroutine that will stop it started.
RegisterDNS ==
    /\ dns = "new"
    /\ dns' = "registered" /\ dnsServer' = TRUE /\ dnsStop' = "armed"
    /\ UNCHANGED <<cancelled, query, http, tlsVars, conn>>

\* ListenAndServe has its socket.
ServeDNS ==
    /\ dns = "registered"
    /\ dns' = "serving"
    /\ UNCHANGED <<cancelled, dnsServer, dnsStop, query, http, tlsVars, conn>>

\* It does not get one: Listen fails, and with it the group.
BindDNSFails ==
    /\ dns = "registered"
    /\ dns' = "returned" /\ dnsServer' = FALSE /\ dnsStop' = "done"
    /\ cancelled' = TRUE
    /\ UNCHANGED <<query, http, tlsVars, conn>>

Ask(q) ==
    /\ dns = "serving"
    /\ query[q] = "none"
    /\ query' = [query EXCEPT ![q] = "asked"]
    /\ UNCHANGED <<cancelled, dns, dnsServer, dnsStop, http, tlsVars, conn>>

Answer(q) ==
    /\ query[q] = "asked"
    /\ query' = [query EXCEPT ![q] = "answered"]
    /\ UNCHANGED <<cancelled, dns, dnsServer, dnsStop, http, tlsVars, conn>>

\* Stop forgets the server and shuts it down.  A server that is not yet serving
\* refuses that, and then serves.
StopDNS ==
    /\ cancelled
    /\ dnsStop = "armed"
    /\ dnsStop' = "done" /\ dnsServer' = FALSE
    /\ dns' = IF dns = "serving" THEN "draining" ELSE dns
    /\ UNCHANGED <<cancelled, query, http, tlsVars, conn>>

\* ListenAndServe returns when its handlers have.
ReturnDNS ==
    /\ dns = "draining"
    /\ \A q \in Query : query[q] # "asked"
    /\ dns' = "returned"
    /\ UNCHANGED <<cancelled, dnsServer, dnsStop, query, http, tlsVars, conn>>

----------------------------------------------------------------------------
\* HTTP.

ListenHTTP ==
    /\ http = "new"
    /\ http' = "listening"
    /\ UNCHANGED <<cancelled, dnsVars, tlsVars, conn>>

\* Only logged: the node goes on without HTTP.
BindHTTPFails ==
    /\ http = "new"
    /\ http' = "failed"
    /\ UNCHANGED <<cancelled, dnsVars, tlsVars, conn>>

\* The server closes its listener and the connections it has.
StopHTTP ==
    /\ cancelled
    /\ http = "listening"
    /\ http' = "closed"
    /\ conn' = [c \in Conn |-> IF conn[c] = "http" THEN "closed" ELSE conn[c]]
    /\ UNCHANGED <<cancelled, dnsVars, tlsVars>>

\* A connection to the HTTP port.
ConnectHTTP(c) ==
    /\ http = "listening"
    /\ conn[c] = "none"
    /\ conn' = [conn EXCEPT ![c] = "http"]
    /\ UNCHANGED <<cancelled, dnsVars, http, tlsVars>>

\* The goroutine of a terminated connection in ServeConn: a closed server returns at
\* once, which ServeConn takes for success, and the connection is not closed.
ServeConn(c) ==
    /\ conn[c] = "handed"
    /\ conn' = [conn EXCEPT ![c] = IF http = "closed" THEN "lost" ELSE "http"]
    /\ UNCHANGED <<cancelled, dnsVars, http, tlsVars>>

----------------------------------------------------------------------------
\* TLS.

ListenTLS ==
    /\ tls = "new"
    /\ tls' = "accepting" /\ listener' = "open"
    /\ UNCHANGED <<cancelled, dnsVars, http, held, conn>>

BindTLSFails ==
    /\ tls = "new"
    /\ tls' = "returned"
    /\ cancelled' = TRUE
    /\ UNCHANGED <<dnsVars, http, held, listener, conn>>

\* A client connects to the TLS port; the kernel keeps it until it is accepted.
ConnectTLS(c) ==
    /\ listener \in {"open", "taken", "orphan"}
    /\ conn[c] = "none"
    /\ conn' = [conn EXCEPT ![c] = "backlog"]
    /\ UNCHANGED <<cancelled, dnsVars, http, tlsVars>>

\* Mistake: goes round and round without a listener.
BugEnterAccept ==
    /\ tls = "accepting"
    /\ listener = "open"
    /\ tls' = "waiting"
    /\ UNCHANGED <<cancelled, dnsVars, http, held, listener, conn>>

\* acceptOne: with no listener registered Listen returns.
EnterAccept ==
    /\ tls = "accepting"
    /\ tls' = IF listener = "open" THEN "waiting" ELSE "returned"
    /\ UNCHANGED <<cancelled, dnsVars, http, held, listener, conn>>

Accept(c) ==
    /\ tls = "waiting"
    /\ listener # "closed"
    /\ conn[c] = "backlog"
    /\ tls' = "hello" /\ held' = c
    /\ conn' = [conn EXCEPT ![c] = "held"]
    /\ UNCHANGED <<cancelled, dnsVars, http, listener>>

AcceptClosed ==
    /\ tls = "waiting"
    /\ listener = "closed"
    /\ tls' = "returned"
    /\ UNCHANGED <<cancelled, dnsVars, http, held, listener, conn>>

\* Mistake: forgets that the listener is still registered.
BugAcceptFails ==
    /\ tls = "waiting"
    /\ listener # "closed"
    /\ tls' = "returned"
    /\ cancelled' = TRUE
    /\ UNCHANGED <<dnsVars, http, held, listener, conn>>

\* Accept fails otherwise, for want of file descriptors say.  That ends Listen, and
\* the group; the listener is forgotten and not closed.
AcceptFails ==
    /\ tls = "waiting"
    /\ listener # "closed"
    /\ tls' = "returned"
    /\ listener' = IF listener = "open" THEN "orphan" ELSE listener
    /\ cancelled' = TRUE
    /\ UNCHANGED <<dnsVars, http, held, conn>>

\* The loop is done with the connection, which is at place now.
Release(place) ==
    /\ tls' = "accepting" /\ held' = None
    /\ conn' = [conn EXCEPT ![held] = place]

\* The client has sent its ClientHello.
ReadSNI ==
    /\ tls = "hello"
    /\ tls' = "finding"
    /\ UNCHANGED <<cancelled, dnsVars, http, held, listener, conn>>

\* It has sent something else, no name, or nothing before it left.
ReadSNIFails ==
    /\ tls = "hello"
    /\ Release("closed")
    /\ UNCHANGED <<cancelled, dnsVars, http, listener>>

\* Mistake: a connection without a policy is not closed.
BugNoPolicy ==
    /\ tls = "finding"
    /\ tls' = "accepting" /\ held' = None
    /\ UNCHANGED <<cancelled, dnsVars, http, listener, conn>>

\* There is no policy, or one whose certificate cannot be loaded.
NoPolicy ==
    /\ tls = "finding"
    /\ Release("closed")
    /\ UNCHANGED <<cancelled, dnsVars, http, listener>>

\* passthrough and terminate go on in a goroutine, https keeps the loop.
Route ==
    /\ tls = "finding"
    /\ \/ Release("dialing")
       \/ Release("terminating")
       \/ tls' = "handshake" /\ UNCHANGED <<held, conn>>
    /\ UNCHANGED <<cancelled, dnsVars, http, listener>>

\* The handshake of an https connection succeeds or fails.
Handshake ==
    /\ tls = "handshake"
    /\ Release("handed") \/ Release("closed")
    /\ UNCHANGED <<cancelled, dnsVars, http, listener>>

\* The goroutine of a connection: the handshake of a terminated one, the backend is
\* dialled, bytes are copied until one side ends.
Terminate(c) ==
    /\ conn[c] = "terminating"
    /\ \E place \in {"dialing", "closed"} : conn' = [conn EXCEPT ![c] = place]
    /\ UNCHANGED <<cancelled, dnsVars, http, tlsVars>>

DialBackend(c) ==
    /\ conn[c] = "dialing"
    /\ \E place \in {"proxied", "closed"} : conn' = [conn EXCEPT ![c] = place]
    /\ UNCHANGED <<cancelled, dnsVars, http, tlsVars>>

Close(c) ==
    /\ conn[c] \in {"proxied", "http"}
    /\ conn' = [conn EXCEPT ![c] = "closed"]
    /\ UNCHANGED <<cancelled, dnsVars, http, tlsVars>>

\* Stop, first half: the listener is taken from e.listener.
TakeListener ==
    /\ cancelled
    /\ listener = "open"
    /\ listener' = "taken"
    /\ UNCHANGED <<cancelled, dnsVars, http, tls, held, conn>>

\* Second half: it is closed, with what nobody has accepted.
CloseListener ==
    /\ listener = "taken"
    /\ listener' = "closed"
    /\ conn' = [c \in Conn |-> IF conn[c] = "backlog" THEN "closed" ELSE conn[c]]
    /\ UNCHANGED <<cancelled, dnsVars, http, tls, held>>

----------------------------------------------------------------------------

DNSNext ==
    \/ RegisterDNS
    \/ ServeDNS
    \/ BindDNSFails
    \/ \E q \in Query : Ask(q) \/ Answer(q)
    \/ StopDNS
    \/ ReturnDNS

HTTPNext ==
    \/ ListenHTTP
    \/ BindHTTPFails
    \/ StopHTTP
    \/ \E c \in Conn : ConnectHTTP(c) \/ ServeConn(c)

TLSNext ==
    \/ ListenTLS
    \/ BindTLSFails
    \/ EnterAccept
    \/ \E c \in Conn : ConnectTLS(c) \/ Accept(c)
    \/ AcceptClosed
    \/ AcceptFails
    \/ ReadSNI
    \/ ReadSNIFails
    \/ NoPolicy
    \/ Route
    \/ Handshake
    \/ \E c \in Conn : Terminate(c) \/ DialBackend(c) \/ Close(c)
    \/ TakeListener
    \/ CloseListener

Next == Cancel \/ DNSNext \/ HTTPNext \/ TLSNext

Spec == Init /\ [][Next]_vars

\* The process runs its goroutines and queries are answered, at the latest when the
\* forwarder's timeout has passed.  Nothing is assumed of clients: one may connect and
\* never say anything.
Fairness ==
    /\ WF_vars(RegisterDNS) /\ WF_vars(ServeDNS) /\ WF_vars(StopDNS) /\ WF_vars(ReturnDNS)
    /\ \A q \in Query : WF_vars(Answer(q))
    /\ WF_vars(ListenTLS) /\ WF_vars(EnterAccept) /\ WF_vars(AcceptClosed)
    /\ \A c \in Conn : WF_vars(Accept(c))
    /\ WF_vars(NoPolicy \/ Route)
    /\ WF_vars(TakeListener) /\ WF_vars(CloseListener)

FairSpec == Spec /\ Fairness

----------------------------------------------------------------------------
\* Every connection that was accepted is in somebody's hands until it is closed: the
\* accept loop's, which has one at a time, a goroutine's or the HTTP server's.  Only
\* a node that is being stopped loses one.
ConnsOwned ==
    /\ \A c \in Conn : conn[c] = "held" <=> held = c
    /\ held # None <=> tls \in {"hello", "finding", "handshake"}
    /\ \A c \in Conn : conn[c] = "lost" => cancelled

\* What the health check calls ready (agent/cmd/healthz.go) has not returned: DNS when
\* e.server is set, TLS when e.listener is.
ReadyMeansRunning ==
    /\ dnsServer => dns \in {"registered", "serving"}
    /\ listener = "open" => tls \notin {"new", "returned"}

\* The accept loop waits for a client.
WaitsForClient == tls \in {"hello", "handshake"}

\* Stop came between the registration of the DNS server and its start.
StopMissed == dnsStop = "done" /\ dns \in {"registered", "serving"}

\* A cancelled node ends, and one that is not cancelled accepts who connects, unless a
\* client keeps the accept loop waiting for ever or the DNS server was stopped too early.
OnlySilentClientsBlock ==
    \/ <>[]WaitsForClient
    \/ /\ cancelled ~> (dns = "returned" /\ tls = "returned") \/ StopMissed
       /\ \A c \in Conn : conn[c] = "backlog" ~> conn[c] # "backlog" \/ cancelled

=============================================================================
