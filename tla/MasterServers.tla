--------------------------- MODULE MasterServers ---------------------------
(***************************************************************************)
(* The master's process (operator/master/master.go, Start): an HTTP server *)
(* for the management API and a gRPC server for the agents' subscriptions, *)
(* each in a goroutine of one errgroup, and a third goroutine, the         *)
(* stopper, which waits for the end of the group's context and shuts the   *)
(* two down one after the other.  The handlers of the requests are module  *)
(* Management's.                                                           *)
(***************************************************************************)

CONSTANTS
    Client,     \* of the management API, with one request at a time each
    Agent       \* with one Subscribe stream at a time each

VARIABLES
    main,       \* Start
    cancelled,  \* the context of the signal
    failed,     \* a goroutine of the group has returned an error
    http,       \* the goroutine of the HTTP server
    grpc,       \* the goroutine of the gRPC server
    stopper,    \* the third goroutine
    stream,     \* per agent
    conn,       \* per client: where its request is
    timedOut    \* ghost: Shutdown gave up waiting

processVars == <<main, cancelled, failed, http, grpc, stopper, timedOut>>
serverVars == <<processVars, stream, conn>>

\* "sent": nobody has it yet.  "running", "storing": a handler has it.
Active(c) == conn[c] \in {"running", "storing"}

\* The context the goroutines of the group share.
GroupDone == cancelled \/ failed

ServersTyped ==
    /\ main \in {"starting", "running", "returned"}
    /\ cancelled \in BOOLEAN /\ failed \in BOOLEAN /\ timedOut \in BOOLEAN
    /\ http \in {"none", "binding", "serving", "closed", "returned"}
    /\ grpc \in {"none", "starting", "serving", "draining", "returned"}
    /\ stopper \in {"none", "waiting", "shutdown", "draining", "done"}
    /\ stream \in [Agent -> {"none", "open"}]
    /\ conn \in [Client -> {"idle", "sent", "running", "storing", "answered", "refused", "cut"}]

ServersInit ==
    /\ main = "starting"
    /\ cancelled = FALSE /\ failed = FALSE /\ timedOut = FALSE
    /\ http = "none" /\ grpc = "none" /\ stopper = "none"
    /\ stream = [a \in Agent |-> "none"]
    /\ conn = [c \in Client |-> "idle"]

----------------------------------------------------------------------------
\* The process.

\* SIGINT or SIGTERM.  A second one changes nothing: it is still caught.
Signal ==
    /\ main # "returned"
    /\ ~ cancelled
    /\ cancelled' = TRUE
    /\ UNCHANGED <<main, failed, http, grpc, stopper, timedOut, stream, conn>>

\* Start has the gRPC port and starts the three goroutines.
StartGroup ==
    /\ main = "starting"
    /\ main' = "running" /\ http' = "binding" /\ grpc' = "starting" /\ stopper' = "waiting"
    /\ UNCHANGED <<cancelled, failed, timedOut, stream, conn>>

\* The gRPC port is taken: Start returns before anything is started.
ListenFails ==
    /\ main = "starting"
    /\ main' = "returned"
    /\ UNCHANGED <<cancelled, failed, http, grpc, stopper, timedOut, stream, conn>>

\* group.Wait.  What is still being handled ends with the process.
Return ==
    /\ main = "running"
    /\ http = "returned" /\ grpc = "returned" /\ stopper = "done"
    /\ main' = "returned"
    /\ conn' = [c \in Client |-> IF Active(c) THEN "cut" ELSE conn[c]]
    /\ UNCHANGED <<cancelled, failed, http, grpc, stopper, timedOut, stream>>

----------------------------------------------------------------------------
\* The HTTP server.

\* ListenAndServe, which returns at once when Shutdown was called before it.
BindHTTP ==
    /\ http = "binding"
    /\ http' = IF stopper = "waiting" THEN "serving" ELSE "returned"
    /\ UNCHANGED <<main, cancelled, failed, grpc, stopper, timedOut, stream, conn>>

\* The port is taken, or Accept fails: an error, if the group has not ended by then.
HTTPFails ==
    /\ stopper = "waiting"
    /\ http \in {"binding", "serving"}
    /\ http' = "returned"
    /\ failed' = (failed \/ ~ cancelled)
    /\ conn' = [c \in Client |-> IF conn[c] = "sent" THEN "refused" ELSE conn[c]]
    /\ UNCHANGED <<main, cancelled, grpc, stopper, timedOut, stream>>

\* ErrServerClosed, as soon as Shutdown has closed the listener.
ReturnHTTP ==
    /\ http = "closed"
    /\ http' = "returned"
    /\ UNCHANGED <<main, cancelled, failed, grpc, stopper, timedOut, stream, conn>>

\* A goroutine takes the connection and runs the handler.
Accept(c) ==
    /\ http = "serving"
    /\ conn[c] = "sent"
    /\ conn' = [conn EXCEPT ![c] = "running"]
    /\ UNCHANGED <<processVars, stream>>

----------------------------------------------------------------------------
\* The gRPC server.

\* Serve, which returns at once when GracefulStop was called before it.
ServeGRPC ==
    /\ grpc = "starting"
    /\ grpc' = IF stopper \in {"draining", "done"} THEN "returned" ELSE "serving"
    /\ UNCHANGED <<main, cancelled, failed, http, stopper, timedOut, stream, conn>>

\* Accept fails for good.
GRPCFails ==
    /\ grpc = "serving"
    /\ grpc' = "returned"
    /\ failed' = (failed \/ ~ cancelled)
    /\ UNCHANGED <<main, cancelled, http, stopper, timedOut, stream, conn>>

\* Serve returns when GracefulStop has.
ReturnGRPC ==
    /\ grpc = "draining"
    /\ stopper = "done"
    /\ grpc' = "returned"
    /\ UNCHANGED <<main, cancelled, failed, http, stopper, timedOut, stream, conn>>

\* Agents come, and leave when they like; nothing on the master ends a subscription.
Subscribe(a) ==
    /\ grpc = "serving"
    /\ stream[a] = "none"
    /\ stream' = [stream EXCEPT ![a] = "open"]
    /\ UNCHANGED <<processVars, conn>>

Leave(a) ==
    /\ stream[a] = "open"
    /\ stream' = [stream EXCEPT ![a] = "none"]
    /\ UNCHANGED <<processVars, conn>>

----------------------------------------------------------------------------
\* The stopper.

\* Mistake: waits for the signal and not for the group.
BugBeginShutdown ==
    /\ stopper = "waiting"
    /\ cancelled
    /\ stopper' = "shutdown"
    /\ http' = IF http = "serving" THEN "closed" ELSE http
    /\ conn' = [c \in Client |-> IF conn[c] = "sent" THEN "refused" ELSE conn[c]]
    /\ UNCHANGED <<main, cancelled, failed, grpc, timedOut, stream>>

\* Shutdown closes the listener, and with it the connections nobody has taken.
BeginShutdown ==
    /\ stopper = "waiting"
    /\ GroupDone
    /\ stopper' = "shutdown"
    /\ http' = IF http = "serving" THEN "closed" ELSE http
    /\ conn' = [c \in Client |-> IF conn[c] = "sent" THEN "refused" ELSE conn[c]]
    /\ UNCHANGED <<main, cancelled, failed, grpc, timedOut, stream>>

\* Mistake: Shutdown does not wait for the handlers.
BugEndShutdown ==
    /\ stopper = "shutdown"
    /\ stopper' = "draining"
    /\ grpc' = IF grpc = "serving" THEN "draining" ELSE grpc
    /\ UNCHANGED <<main, cancelled, failed, http, timedOut, stream, conn>>

\* Shutdown returns when all requests are answered, or after five seconds; the error is
\* dropped.  GracefulStop follows: no more streams, and those there are may end.
EndShutdown ==
    /\ stopper = "shutdown"
    /\ timedOut' = (\E c \in Client : Active(c))
    /\ stopper' = "draining"
    /\ grpc' = IF grpc = "serving" THEN "draining" ELSE grpc
    /\ UNCHANGED <<main, cancelled, failed, http, stream, conn>>

\* GracefulStop returns when no stream is open.
EndDrain ==
    /\ stopper = "draining"
    /\ \A a \in Agent : stream[a] = "none"
    /\ stopper' = "done"
    /\ UNCHANGED <<main, cancelled, failed, http, grpc, timedOut, stream, conn>>

----------------------------------------------------------------------------
GoroutineStep ==
    \/ StartGroup \/ Return
    \/ BindHTTP \/ ReturnHTTP \/ ServeGRPC \/ ReturnGRPC
    \/ BeginShutdown \/ EndShutdown \/ EndDrain

\* Each goroutine of the process runs on.  Agents and clients may do what they like, and a
\* handler take as long as it likes: Shutdown has its own clock.
Fairness ==
    /\ WF_serverVars(StartGroup) /\ WF_serverVars(Return)
    /\ WF_serverVars(BindHTTP) /\ WF_serverVars(ReturnHTTP)
    /\ WF_serverVars(ServeGRPC) /\ WF_serverVars(ReturnGRPC)
    /\ WF_serverVars(BeginShutdown) /\ WF_serverVars(EndShutdown) /\ WF_serverVars(EndDrain)

----------------------------------------------------------------------------
\* Properties.

\* A request that a handler has begun is answered before the process ends, whatever ended
\* it, unless the handlers outlast the five seconds that Shutdown waits.
NoRequestCut == ~ timedOut => \A c \in Client : conn[c] # "cut"

\* Once a signal has come or a server has failed, Start returns, unless the stream of some
\* agent stays open for ever: GracefulStop has no clock, and handlers end with their client.
OnlySubscribersBlock ==
    \/ <>[](\E a \in Agent : stream[a] = "open")
    \/ GroupDone ~> main = "returned"

=============================================================================
