---------------------------- MODULE AcmeIssuing ----------------------------
(***************************************************************************)
(* Certificates for one hostname, in one spelling (operator/master/acme,   *)
(* acme_adapter.go): each HTTP route put through the management API starts *)
(* a goroutine, an order here, that gets a certificate when the TLS route  *)
(* has no good one.                                                        *)
(* Orders of a hostname exclude each other by issueLock; nothing excludes  *)
(* them from the management API, and both change the same HTTP and TLS     *)
(* routes: an order reads a route, changes it and publishes the whole.     *)
(*                                                                         *)
(* A publish that succeeds is one step here (module Coordinator takes it   *)
(* apart); one that fails, or that the end of the process meets, may leave *)
(* the object Torn, since LocalFS.Put truncates before it writes.  A read  *)
(* that meets a publish, and any other failed read or write, is a fault.   *)
(***************************************************************************)
EXTENDS Integers

CONSTANTS
    Order,       \* orders, each of which runs once; its token is its name
    None,        \* no order
    Torn,        \* an object that cannot be decoded
    MaxEdits,    \* bound: HTTP routes put
    MaxTLSEdits, \* bound: TLS routes put
    MaxFaults    \* bound: failed reads and writes and ends of the process

ASSUME AcmeAssumption ==
    /\ None \notin Order
    /\ MaxEdits \in Nat /\ MaxTLSEdits \in Nat /\ MaxFaults \in Nat

VARIABLES
    order,     \* per order: the goroutine in HandleHTTPPublish
    lock,      \* issueLock: the order that holds it
    zone,      \* the HTTP route: the edit it has, the challenge policies in it
    tls,       \* the TLS route
    states,    \* challenge state files
    status,    \* in the request file
    draft,     \* challenge policies in the route a browser has read
    edits, tlsEdits, faults,
    certs,         \* ghost: certificates obtained
    overlapped,    \* ghost: edits put while an order held a copy of the route
    tlsOverlapped, \* ghost: the same of TLS routes
    stray,         \* ghost: orders whose challenge a fault or a browser left behind
    abandoned      \* ghost: an order ended without saying so

vars == <<order, lock, zone, tls, states, status, draft, edits, tlsEdits, faults,
          certs, overlapped, tlsOverlapped, stray, abandoned>>
ghosts == <<certs, overlapped, tlsOverlapped, stray, abandoned>>
management == <<draft, edits, tlsEdits>>

\* No route is the one with edit 0: Present starts from an empty one then.
Route == [edit : 0..MaxEdits, tokens : SUBSET Order]
NoRoute == [edit |-> 0, tokens |-> {}]

\* edit is the edit the backend comes from.  Nothing may store https without a
\* certificate.
TLSRoute == {r \in [kind : {"none", "passthrough", "terminate", "https"},
                    edit : 0..MaxTLSEdits, cert : {"none", "good"}] :
                r.kind = "https" => r.cert = "good"}
NoTLS == [kind |-> "none", edit |-> 0, cert |-> "none"]

ASSUME TornAssumption == Torn \notin Route /\ Torn \notin TLSRoute

\* ok: the CA has validated the challenge; route and current: what was read.
Goroutine == [pc : {"new", "started", "waiting", "checking", "ordering", "presenting",
                    "presented", "solving", "cleanup", "cleaning", "cleaned", "finalizing",
                    "issued", "installing", "settling", "done"},
              ok : BOOLEAN, route : Route, current : TLSRoute]

TypeOK ==
    /\ order \in [Order -> Goroutine]
    /\ lock \in Order \cup {None}
    /\ zone \in Route \cup {Torn} /\ tls \in TLSRoute \cup {Torn}
    /\ states \subseteq Order
    /\ status \in {"none", "pending", "reused", "issued", "error"}
    /\ draft \subseteq Order
    /\ edits \in 0..MaxEdits /\ tlsEdits \in 0..MaxTLSEdits /\ faults \in 0..MaxFaults
    /\ certs \in Nat
    /\ overlapped \subseteq 1..MaxEdits /\ tlsOverlapped \subseteq 1..MaxTLSEdits
    /\ stray \subseteq Order
    /\ abandoned \in BOOLEAN

Init ==
    /\ order = [o \in Order |-> [pc |-> "new", ok |-> FALSE, route |-> NoRoute, current |-> NoTLS]]
    /\ lock = None
    /\ zone = NoRoute /\ tls = NoTLS
    /\ states = {}
    /\ status = "none"
    /\ draft = {}
    /\ edits = 0 /\ tlsEdits = 0 /\ faults = 0
    /\ certs = 0
    /\ overlapped = {} /\ tlsOverlapped = {} /\ stray = {} /\ abandoned = FALSE

----------------------------------------------------------------------------
\* The management API.

HoldsRoute(o) == order[o].pc \in {"presenting", "cleaning"}
HoldsTLS(o) == order[o].pc = "installing"

\* A browser reads the route, with the challenges that are in it just then.
GetHTTP ==
    /\ zone # Torn
    /\ draft' = zone.tokens
    /\ UNCHANGED <<order, lock, zone, tls, states, status, edits, tlsEdits, faults, ghosts>>

\* One more edit of the route, with its own policies and the challenges in tokens.
EditHTTP(tokens) ==
    /\ edits < MaxEdits
    /\ edits' = edits + 1
    /\ overlapped' = IF \E o \in Order : HoldsRoute(o) THEN overlapped \cup {edits + 1}
                     ELSE overlapped
    /\ stray' = stray \cup tokens
    /\ UNCHANGED <<lock, tls, states, status, draft, tlsEdits, certs, tlsOverlapped, abandoned>>

\* A browser puts it.  An order is started for a route without challenges.
PutHTTP(tokens) ==
    /\ EditHTTP(tokens)
    /\ zone' = [edit |-> edits + 1, tokens |-> tokens]
    /\ IF tokens = {}
       THEN \E o \in Order :
                /\ order[o].pc = "new"
                /\ order' = [order EXCEPT ![o].pc = "started"]
       ELSE UNCHANGED order
    /\ UNCHANGED faults

\* One more edit of the TLS route.
EditTLS ==
    /\ tlsEdits < MaxTLSEdits
    /\ tlsEdits' = tlsEdits + 1
    /\ tlsOverlapped' = IF \E o \in Order : HoldsTLS(o) THEN tlsOverlapped \cup {tlsEdits + 1}
                        ELSE tlsOverlapped
    /\ UNCHANGED <<order, lock, zone, states, status, draft, edits, certs, overlapped, stray,
                   abandoned>>

\* Mistake: stores what it was given.
BugPutTLS(kind, cert) ==
    /\ EditTLS
    /\ tls' = [kind |-> kind, edit |-> tlsEdits + 1, cert |-> cert]
    /\ UNCHANGED faults

\* TLSRouteBuilder.Build refuses https without a certificate.
PutTLS(kind, cert) ==
    /\ kind = "https" => cert = "good"
    /\ EditTLS
    /\ tls' = [kind |-> kind, edit |-> tlsEdits + 1, cert |-> cert]
    /\ UNCHANGED faults

----------------------------------------------------------------------------
\* HandleHTTPPublish.

Goto(o, pc) == order' = [order EXCEPT ![o].pc = pc]

\* The request file says pending before the lock is taken.
SaveRequest(o) ==
    /\ order[o].pc = "started"
    /\ Goto(o, "waiting")
    /\ status' = "pending"
    /\ UNCHANGED <<lock, zone, tls, states, management, faults, ghosts>>

Lock(o) ==
    /\ order[o].pc = "waiting"
    /\ lock = None
    /\ lock' = o
    /\ Goto(o, "checking")
    /\ UNCHANGED <<zone, tls, states, status, management, faults, ghosts>>

HasCertificate == tls # Torn /\ tls.cert = "good"

\* Mistake: the early return keeps the lock.
BugCheckKeepsLock(o) ==
    /\ order[o].pc = "checking"
    /\ IF HasCertificate
       THEN Goto(o, "done") /\ status' = "reused"
       ELSE Goto(o, "ordering") /\ UNCHANGED status
    /\ UNCHANGED <<lock, zone, tls, states, management, faults, ghosts>>

\* Mistake: orders a certificate without looking for one.
BugCheckNothing(o) ==
    /\ order[o].pc = "checking"
    /\ Goto(o, "ordering")
    /\ UNCHANGED <<lock, zone, tls, states, status, management, faults, ghosts>>

\* A good certificate, perhaps of the order before, is used again.  A TLS route that
\* cannot be read ends the order, and the request file goes on saying pending.
Check(o) ==
    /\ order[o].pc = "checking"
    /\ \/ /\ tls = Torn
          /\ Goto(o, "done") /\ lock' = None /\ abandoned' = TRUE
          /\ UNCHANGED status
       \/ /\ HasCertificate
          /\ Goto(o, "done") /\ lock' = None /\ status' = "reused"
          /\ UNCHANGED abandoned
       \/ /\ tls # Torn /\ ~HasCertificate
          /\ Goto(o, "ordering")
          /\ UNCHANGED <<lock, status, abandoned>>
    /\ UNCHANGED <<zone, tls, states, management, faults, certs, overlapped, tlsOverlapped, stray>>

\* Obtain: the CA may know the hostname already, from an earlier order.
Recognised(o) ==
    /\ order[o].pc = "ordering"
    /\ order' = [order EXCEPT ![o].pc = "finalizing", ![o].ok = TRUE]
    /\ UNCHANGED <<lock, zone, tls, states, status, management, faults, ghosts>>

\* Mistake: takes a route it cannot read for no route.
BugReadForPresent(o) ==
    /\ order[o].pc = "ordering"
    /\ order' = [order EXCEPT ![o].pc = "presenting",
                              ![o].route = IF zone = Torn THEN NoRoute ELSE zone]
    /\ UNCHANGED <<lock, zone, tls, states, status, management, faults, ghosts>>

\* The order fails; no certificate is to be had.
Refused(o) == [order EXCEPT ![o].pc = "finalizing", ![o].ok = FALSE, ![o].route = NoRoute]

\* HTTP01Solver.Present: the route is read, if it can be ...
ReadForPresent(o) ==
    /\ order[o].pc = "ordering"
    /\ order' = IF zone = Torn THEN Refused(o)
                ELSE [order EXCEPT ![o].pc = "presenting", ![o].route = zone]
    /\ UNCHANGED <<lock, zone, tls, states, status, management, faults, ghosts>>

WithChallenge(route, o) == [route EXCEPT !.tokens = @ \cup {o}]
WithoutChallenge(route, o) == [route EXCEPT !.tokens = @ \ {o}]

\* ... and published with a challenge policy ...
Present(o) ==
    /\ order[o].pc = "presenting"
    /\ zone' = WithChallenge(order[o].route, o)
    /\ order' = [order EXCEPT ![o].pc = "presented", ![o].route = NoRoute]
    /\ UNCHANGED <<lock, tls, states, status, management, faults, ghosts>>

\* ... and then the state file is written.
SaveState(o) ==
    /\ order[o].pc = "presented"
    /\ Goto(o, "solving")
    /\ states' = states \cup {o}
    /\ UNCHANGED <<lock, zone, tls, status, management, faults, ghosts>>

\* The CA fetches the challenge, through an agent that has the route or an older one,
\* and may refuse.  lego cleans up in either case.
Solve(o, ok) ==
    /\ order[o].pc = "solving"
    /\ order' = [order EXCEPT ![o].pc = "cleanup", ![o].ok = ok]
    /\ UNCHANGED <<lock, zone, tls, states, status, management, faults, ghosts>>

\* Cleanup loads the state file and reads the route; lego logs its errors and goes
\* on ...
ReadForCleanup(o) ==
    /\ order[o].pc = "cleanup"
    /\ o \in states
    /\ IF zone = Torn
       THEN Goto(o, "finalizing") /\ stray' = stray \cup {o}
       ELSE /\ order' = [order EXCEPT ![o].pc = "cleaning", ![o].route = zone]
            /\ UNCHANGED stray
    /\ UNCHANGED <<lock, zone, tls, states, status, management, faults, certs, overlapped,
                   tlsOverlapped, abandoned>>

\* Mistake: publishes the route as it was read.
BugCleanupKeepsPolicy(o) ==
    /\ order[o].pc = "cleaning"
    /\ zone' = order[o].route
    /\ order' = [order EXCEPT ![o].pc = "cleaned", ![o].route = NoRoute]
    /\ UNCHANGED <<lock, tls, states, status, management, faults, ghosts>>

\* ... publishes it without the challenge policy ...
Cleanup(o) ==
    /\ order[o].pc = "cleaning"
    /\ zone' = WithoutChallenge(order[o].route, o)
    /\ order' = [order EXCEPT ![o].pc = "cleaned", ![o].route = NoRoute]
    /\ UNCHANGED <<lock, tls, states, status, management, faults, ghosts>>

\* ... and the state file is removed.
DeleteState(o) ==
    /\ order[o].pc = "cleaned"
    /\ Goto(o, "finalizing")
    /\ states' = states \ {o}
    /\ UNCHANGED <<lock, zone, tls, status, management, faults, ghosts>>

\* The CA makes the certificate, or is told that the order is given up: Obtain returns.
Finalize(o) ==
    /\ order[o].pc = "finalizing"
    /\ Goto(o, IF order[o].ok THEN "issued" ELSE "settling")
    /\ certs' = IF order[o].ok THEN certs + 1 ELSE certs
    /\ UNCHANGED <<lock, zone, tls, states, status, management, faults, overlapped,
                   tlsOverlapped, stray, abandoned>>

\* issueAndPublishTLS, after Obtain: the TLS route is read; if it cannot be, the
\* certificate is lost ...
ReadTLS(o) ==
    /\ order[o].pc = "issued"
    /\ order' = IF tls = Torn THEN [order EXCEPT ![o].pc = "settling", ![o].ok = FALSE]
                ELSE [order EXCEPT ![o].pc = "installing", ![o].current = tls]
    /\ UNCHANGED <<lock, zone, tls, states, status, management, faults, ghosts>>

\* Mistake: forgets the backend.
BugWithCertificate(current) == [kind |-> "https", edit |-> 0, cert |-> "good"]

\* A new https route takes over kind and backend, but kind 0 is passthrough, which
\* the code takes for no kind.
WithCertificate(current) ==
    [kind |-> IF current.kind \in {"none", "passthrough"} THEN "https" ELSE current.kind,
     edit |-> current.edit,
     cert |-> "good"]

\* ... and published with the certificate.
Install(o) ==
    /\ order[o].pc = "installing"
    /\ tls' = WithCertificate(order[o].current)
    /\ order' = [order EXCEPT ![o].pc = "settling", ![o].ok = TRUE, ![o].current = NoTLS]
    /\ UNCHANGED <<lock, zone, states, status, management, faults, ghosts>>

\* Mistake: a failed order leaves the request as it is.
BugSettleSuccess(o) ==
    /\ order[o].pc = "settling"
    /\ status' = IF order[o].ok THEN "issued" ELSE status
    /\ Goto(o, "done")
    /\ lock' = None
    /\ UNCHANGED <<zone, tls, states, management, faults, ghosts>>

\* The request file gets the outcome; then the lock is released.
Settle(o) ==
    /\ order[o].pc = "settling"
    /\ status' = IF order[o].ok THEN "issued" ELSE "error"
    /\ Goto(o, "done")
    /\ lock' = None
    /\ UNCHANGED <<zone, tls, states, management, faults, ghosts>>

----------------------------------------------------------------------------
\* Faults.

Fault == faults < MaxFaults /\ faults' = faults + 1

\* A publish that is cut short leaves the object as it was, torn, or written.
CutHTTP(o) ==
    {zone} \cup (CASE order[o].pc = "presenting" -> {Torn, WithChallenge(order[o].route, o)}
                   [] order[o].pc = "cleaning" -> {Torn, WithoutChallenge(order[o].route, o)}
                   [] OTHER -> {})
CutTLS(o) ==
    {tls} \cup (IF HoldsTLS(o) THEN {Torn, WithCertificate(order[o].current)} ELSE {})

\* A put is answered with an error and has changed the object: no order is started.
FailPutHTTP(tokens) ==
    /\ Fault
    /\ EditHTTP(tokens)
    /\ zone' \in {Torn, [edit |-> edits + 1, tokens |-> tokens]}
    /\ UNCHANGED order

FailPutTLS(kind, cert) ==
    /\ Fault
    /\ kind = "https" => cert = "good"
    /\ EditTLS
    /\ tls' \in {Torn, [kind |-> kind, edit |-> tlsEdits + 1, cert |-> cert]}

\* The CA fails, or a read or a publish of Present or of the installation does: Obtain
\* or issueAndPublishTLS returns the error.
FailOrder(o) ==
    /\ Fault
    /\ \/ /\ order[o].pc \in {"ordering", "presenting", "presented"}
          /\ order' = Refused(o)
       \/ /\ order[o].pc \in {"ordering", "finalizing", "issued", "installing"}
          /\ order' = [order EXCEPT ![o].pc = "settling", ![o].ok = FALSE, ![o].current = NoTLS]
    /\ zone' \in CutHTTP(o) /\ tls' \in CutTLS(o)
    /\ stray' = IF order[o].pc \in {"presenting", "presented"} THEN stray \cup {o} ELSE stray
    /\ UNCHANGED <<lock, states, status, management, certs, overlapped, tlsOverlapped, abandoned>>

\* A step of Cleanup fails: lego logs it and goes on.
FailCleanup(o) ==
    /\ order[o].pc \in {"cleanup", "cleaning", "cleaned"}
    /\ Fault
    /\ zone' \in CutHTTP(o)
    /\ stray' = stray \cup {o}
    /\ order' = [order EXCEPT ![o].pc = "finalizing", ![o].route = NoRoute]
    /\ UNCHANGED <<lock, tls, states, status, management, certs, overlapped, tlsOverlapped,
                   abandoned>>

\* The request file cannot be written, or the TLS route not be read for the check:
\* the goroutine returns and the file stays as it is.
Abandon(o) ==
    /\ order[o].pc \in {"started", "checking", "settling"}
    /\ Fault
    /\ Goto(o, "done")
    /\ lock' = IF lock = o THEN None ELSE lock
    /\ abandoned' = TRUE
    /\ UNCHANGED <<zone, tls, states, status, management, certs, overlapped, tlsOverlapped, stray>>

Active(o) == order[o].pc \notin {"new", "done"}

\* The master's process ends, perhaps in the middle of an order's publish: files stay,
\* orders and the lock are gone.  (In the middle of a put, it is FailPutHTTP or
\* FailPutTLS before this.)
Crash ==
    /\ Fault
    /\ zone' \in {zone} \cup UNION {CutHTTP(o) : o \in Order}
    /\ tls' \in {tls} \cup UNION {CutTLS(o) : o \in Order}
    /\ order' = [o \in Order |-> IF Active(o)
                    THEN [order[o] EXCEPT !.pc = "done", !.route = NoRoute, !.current = NoTLS]
                    ELSE order[o]]
    /\ lock' = None
    /\ stray' = stray \cup {o \in Order : Active(o)}
    /\ abandoned' = TRUE
    /\ UNCHANGED <<states, status, management, certs, overlapped, tlsOverlapped>>

\* The steps of an order that the CA keeps waiting: lego's client has no timeout
\* (http.DefaultClient), and Obtain ignores the context of five minutes.
CAStep(o) ==
    \/ Recognised(o)
    \/ ReadForPresent(o)
    \/ \E ok \in BOOLEAN : Solve(o, ok)
    \/ Finalize(o)

\* The steps that the goroutine takes by itself.
OrderStep(o) ==
    \/ SaveRequest(o)
    \/ Lock(o)
    \/ Check(o)
    \/ Present(o)
    \/ SaveState(o)
    \/ ReadForCleanup(o)
    \/ Cleanup(o)
    \/ DeleteState(o)
    \/ ReadTLS(o)
    \/ Install(o)
    \/ Settle(o)

Next ==
    \/ GetHTTP
    \/ \E tokens \in {{}, draft} : PutHTTP(tokens) \/ FailPutHTTP(tokens)
    \/ \E kind \in {"passthrough", "terminate", "https"}, cert \in {"none", "good"} :
            PutTLS(kind, cert) \/ FailPutTLS(kind, cert)
    \/ \E o \in Order : OrderStep(o) \/ CAStep(o) \/ FailOrder(o) \/ FailCleanup(o) \/ Abandon(o)
    \/ Crash

\* The goroutines run.  Nothing makes the CA answer.
Spec == Init /\ [][Next]_vars
FairSpec == Spec /\ \A o \in Order : WF_vars(OrderStep(o))

----------------------------------------------------------------------------
\* Properties.

\* Every challenge policy in the route, and every challenge state file, belongs to
\* an order that is between Present and Cleanup, whatever the management API put
\* meanwhile: orders take back what they put in.
ChallengesOwned ==
    \A o \in Order \ stray :
        /\ zone # Torn /\ o \in zone.tokens =>
                order[o].pc \in {"presented", "solving", "cleanup", "cleaning"}
        /\ o \in states => order[o].pc \in {"solving", "cleanup", "cleaning", "cleaned"}

\* Adding and removing challenges leaves the policies of the last edit in the route,
\* unless it was put between an order's read and its publish, or a publish was cut
\* short: then the route is lost, and no order puts another in its place.
EditsKept ==
    \/ zone = Torn /\ faults > 0
    \/ zone # Torn /\ zone.edit = edits
    \/ edits \in overlapped

\* A certificate is installed beside the backend of the last TLS edit, unless that
\* edit was put between read and publish, or a publish of the TLS route was cut short.
TLSEditsKept ==
    \/ tls = Torn /\ faults > 0
    \/ tls # Torn /\ tls.edit = tlsEdits
    \/ tlsEdits \in tlsOverlapped

\* The CA is asked for one certificate, however many orders the edits start, unless
\* the installed one was replaced or a fault came between.
OneCertificate == certs <= 1 + tlsEdits + faults

\* A request is pending only while an order runs that will say how it ended.
PendingHasOrder == status = "pending" => abandoned \/ \E o \in Order : Active(o)

\* An order that waits for the CA.
AtCA(o) == order[o].pc \in {"ordering", "solving", "finalizing"}

\* If the CA leaves no order waiting for ever, every order that waits for the lock
\* comes to an end, whatever the others do.
OrdersEnd ==
    (\A o \in Order : []<>~AtCA(o)) =>
        \A o \in Order : order[o].pc = "waiting" ~> order[o].pc = "done"

\* The route has what was put last, as the management API answered.
LastEditServed == zone # Torn /\ zone.edit = edits

=============================================================================
