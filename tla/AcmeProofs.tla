---------------------------- MODULE AcmeProofs -----------------------------
(***************************************************************************)
(* Proofs about AcmeIssuing, for any orders and bounds.                    *)
(***************************************************************************)
EXTENDS AcmeIssuing, TLAPS

\* The steps under issueLock.
Critical(o) == order[o].pc \notin {"new", "started", "waiting", "done"}

\* Before the CA has given a certificate.
Solving(o) == order[o].pc \in {"ordering", "presenting", "presented", "solving", "cleanup",
                              "cleaning", "cleaned", "finalizing"}

\* Two orders are never under the lock at a time.
LockInv == \A o \in Order : Critical(o) => lock = o

\* What an order holds a copy of, between its read and its publish: the last edit, and
\* no challenge but a stray one and, in Cleanup, its own.
CopyInv ==
    \A o \in Order :
        /\ HoldsRoute(o) =>
                /\ order[o].route.edit = edits \/ edits \in overlapped
                /\ \A t \in order[o].route.tokens \ stray : t = o /\ order[o].pc = "cleaning"
        /\ HoldsTLS(o) => order[o].current.edit = tlsEdits \/ tlsEdits \in tlsOverlapped

\* A certificate too many is the one that is installed, or about to be.  A torn TLS
\* route has none, but cost a fault.
CertificateInv ==
    /\ certs <= 1 + tlsEdits + faults
    /\ \/ certs <= tlsEdits + faults
       \/ HasCertificate
       \/ \E o \in Order : order[o].pc \in {"issued", "installing"}
    /\ \A o \in Order : Solving(o) => certs <= tlsEdits + faults
    /\ tls = Torn => /\ certs <= tlsEdits + faults
                     /\ \A o \in Order : Solving(o) => certs < tlsEdits + faults

Inv ==
    /\ TypeOK
    /\ LockInv
    /\ ChallengesOwned
    /\ CopyInv
    /\ EditsKept
    /\ TLSEditsKept
    /\ CertificateInv
    /\ PendingHasOrder

----------------------------------------------------------------------------
\* No route and no TLS route are routes.
LEMMA EmptyTypes == NoRoute \in Route /\ NoTLS \in TLSRoute
    BY AcmeAssumption DEF NoRoute, NoTLS, Route, TLSRoute

\* Nothing is stored, no order runs.
LEMMA InitInv == Init => Inv
<1> SUFFICES ASSUME Init PROVE Inv
    OBVIOUS
<1>1. TypeOK
  <2>1. order \in [Order -> Goroutine]
    BY EmptyTypes DEF Init, Goroutine
  <2>2. abandoned \in BOOLEAN
    BY DEF Init
  <2>3. /\ edits \in 0..MaxEdits /\ tlsEdits \in 0..MaxTLSEdits /\ faults \in 0..MaxFaults
        /\ certs \in Nat
    BY AcmeAssumption DEF Init
  <2>4. /\ lock \in Order \cup {None}
        /\ zone \in Route \cup {Torn} /\ tls \in TLSRoute \cup {Torn}
        /\ states \subseteq Order /\ draft \subseteq Order /\ stray \subseteq Order
        /\ overlapped \subseteq 1..MaxEdits /\ tlsOverlapped \subseteq 1..MaxTLSEdits
        /\ status \in {"none", "pending", "reused", "issued", "error"}
    BY EmptyTypes DEF Init
  <2> QED
    BY <2>1, <2>2, <2>3, <2>4 DEF TypeOK
<1>2. LockInv /\ ChallengesOwned /\ CopyInv
    BY DEF Init, LockInv, Critical, ChallengesOwned, CopyInv, HoldsRoute, HoldsTLS, NoRoute,
       NoTLS
<1>3. zone # Torn /\ tls # Torn
    BY EmptyTypes, TornAssumption DEF Init
<1>4. EditsKept /\ TLSEditsKept /\ PendingHasOrder
    BY <1>3 DEF Init, EditsKept, TLSEditsKept, PendingHasOrder, NoRoute, NoTLS
<1>5. CertificateInv
    BY <1>3 DEF Init, CertificateInv, Solving
<1> QED
    BY <1>1, <1>2, <1>4, <1>5 DEF Inv

\* Adding and removing a challenge policy (http01.go) gives a route.
LEMMA ChallengeTypes ==
    ASSUME NEW r \in Route, NEW o \in Order
    PROVE  WithChallenge(r, o) \in Route /\ WithoutChallenge(r, o) \in Route
    BY DEF Route, WithChallenge, WithoutChallenge

\* So does installing a certificate (issue.go).
LEMMA CertificateType ==
    ASSUME NEW r \in TLSRoute
    PROVE  WithCertificate(r) \in TLSRoute
    BY DEF TLSRoute, WithCertificate

\* A publish that is cut short leaves a route, or a torn object, and nothing that the
\* order would not have published.
LEMMA CutHTTPLeaves ==
    ASSUME TypeOK, NEW o \in Order, NEW z \in CutHTTP(o)
    PROVE  /\ z \in Route \cup {Torn}
           /\ \/ z = zone
              \/ z = Torn
              \/ /\ order[o].pc = "presenting"
                 /\ z = WithChallenge(order[o].route, o)
              \/ /\ order[o].pc = "cleaning"
                 /\ z = WithoutChallenge(order[o].route, o)
<1>1. order[o].route \in Route
    BY DEF TypeOK, Goroutine
<1> QED
    BY <1>1, ChallengeTypes DEF CutHTTP, TypeOK

\* The same of the TLS route.
LEMMA CutTLSLeaves ==
    ASSUME TypeOK, NEW o \in Order, NEW t \in CutTLS(o)
    PROVE  /\ t \in TLSRoute \cup {Torn}
           /\ t = tls \/ t = Torn \/ (HoldsTLS(o) /\ t = WithCertificate(order[o].current))
<1>1. order[o].current \in TLSRoute
    BY DEF TypeOK, Goroutine
<1> QED
    BY <1>1, CertificateType DEF CutTLS, TypeOK

\* What a put gives is a route, whether it succeeds or not (manage.go, tlsroute.go).
LEMMA PutTypes ==
    /\ \A tokens \in SUBSET Order : TypeOK /\ EditHTTP(tokens) =>
            /\ [edit |-> edits + 1, tokens |-> tokens] \in Route
            /\ edits' \in 0..MaxEdits /\ overlapped' \subseteq 1..MaxEdits
            /\ stray' \subseteq Order
    /\ \A kind \in {"passthrough", "terminate", "https"}, cert \in {"none", "good"} :
            TypeOK /\ EditTLS /\ (kind = "https" => cert = "good") =>
                /\ [kind |-> kind, edit |-> tlsEdits + 1, cert |-> cert] \in TLSRoute
                /\ tlsEdits' \in 0..MaxTLSEdits /\ tlsOverlapped' \subseteq 1..MaxTLSEdits
    BY AcmeAssumption DEF TypeOK, EditHTTP, EditTLS, Route, TLSRoute

\* Putting a route starts at most one new order and leaves the others.
LEMMA PutHTTPStarts ==
    ASSUME TypeOK, NEW tokens, PutHTTP(tokens)
    PROVE  \A p \in Order :
                order'[p] = order[p] \/ (order[p].pc = "new" /\ order'[p].pc = "started")
<1>1. CASE tokens = {}
  <2>1. PICK o \in Order : order[o].pc = "new" /\ order' = [order EXCEPT ![o].pc = "started"]
    BY <1>1 DEF PutHTTP
  <2> QED
    BY <2>1 DEF TypeOK, Goroutine
<1>2. CASE tokens # {}
    BY <1>2 DEF PutHTTP
<1> QED
    BY <1>1, <1>2

\* A crash is a fault and changes no certificate and no edit.
LEMMA CrashKeeps ==
    ASSUME Crash
    PROVE  /\ faults < MaxFaults /\ faults' = faults + 1
           /\ lock' = None /\ abandoned' = TRUE
           /\ certs' = certs /\ tlsEdits' = tlsEdits
    BY DEF Crash, Fault, management

\* It may cut a publish short.
LEMMA CrashLeaves ==
    ASSUME Crash
    PROVE  /\ zone' = zone \/ \E o \in Order : zone' \in CutHTTP(o)
           /\ tls' = tls \/ \E o \in Order : tls' \in CutTLS(o)
<1>1. zone' \in {zone} \cup UNION {CutHTTP(o) : o \in Order}
    BY DEF Crash
<1>2. tls' \in {tls} \cup UNION {CutTLS(o) : o \in Order}
    BY DEF Crash
<1>3. zone' = zone \/ \E o \in Order : zone' \in CutHTTP(o)
    BY <1>1, Zenon
<1>4. tls' = tls \/ \E o \in Order : tls' \in CutTLS(o)
    BY <1>2, Zenon
<1> QED
    BY <1>3, <1>4

\* After a crash no order runs.
LEMMA CrashEnds ==
    ASSUME TypeOK, Crash
    PROVE  \A p \in Order :
                \/ (order'[p].pc = "done" /\ Active(p))
                \/ (order'[p] = order[p] /\ order[p].pc \in {"new", "done"})
    BY DEF TypeOK, Goroutine, Crash, Active

\* Every step keeps the types.
LEMMA TypeKept == Inv /\ [Next]_vars => TypeOK'
<1> SUFFICES ASSUME Inv, [Next]_vars PROVE TypeOK'
    OBVIOUS
<1> USE TornAssumption DEF Inv, management, ghosts
<1>1. CASE GetHTTP
    BY <1>1 DEF GetHTTP, TypeOK, Goroutine, Route, TLSRoute
<1>2. ASSUME NEW tokens \in {{}, draft}, PutHTTP(tokens) PROVE TypeOK'
  <2>1. tokens \subseteq Order
    BY DEF TypeOK
  <2>2. order' \in [Order -> Goroutine]
    <3>1. CASE tokens = {}
      <4>1. PICK o \in Order : order' = [order EXCEPT ![o].pc = "started"]
        BY <1>2, <3>1 DEF PutHTTP
      <4>2. [order[o] EXCEPT !.pc = "started"] \in Goroutine
        BY DEF TypeOK, Goroutine
      <4> QED
        BY <4>1, <4>2 DEF TypeOK
    <3>2. CASE tokens # {}
      BY <1>2, <3>2 DEF PutHTTP, TypeOK
    <3> QED
      BY <3>1, <3>2
  <2>3. /\ zone' \in Route /\ stray' \subseteq Order
        /\ edits' \in 0..MaxEdits /\ overlapped' \subseteq 1..MaxEdits
    BY <1>2, <2>1, PutTypes DEF PutHTTP
  <2> QED
    BY <1>2, <2>2, <2>3 DEF TypeOK, PutHTTP, EditHTTP
<1>3. ASSUME NEW tokens \in {{}, draft}, FailPutHTTP(tokens) PROVE TypeOK'
  <2>1. tokens \subseteq Order
    BY DEF TypeOK
  <2>2. /\ zone' \in Route \cup {Torn} /\ stray' \subseteq Order
        /\ edits' \in 0..MaxEdits /\ overlapped' \subseteq 1..MaxEdits
    BY <1>3, <2>1, PutTypes DEF FailPutHTTP
  <2>3. faults' \in 0..MaxFaults
    BY <1>3, AcmeAssumption DEF FailPutHTTP, Fault, TypeOK
  <2> QED
    BY <1>3, <2>2, <2>3 DEF TypeOK, FailPutHTTP, EditHTTP
<1>4. ASSUME NEW kind \in {"passthrough", "terminate", "https"}, NEW cert \in {"none", "good"},
             PutTLS(kind, cert)
      PROVE  TypeOK'
  <2>1. tls' \in TLSRoute /\ tlsEdits' \in 0..MaxTLSEdits /\ tlsOverlapped' \subseteq 1..MaxTLSEdits
    BY <1>4, PutTypes DEF PutTLS
  <2> QED
    BY <1>4, <2>1 DEF TypeOK, PutTLS, EditTLS
<1>5. ASSUME NEW kind \in {"passthrough", "terminate", "https"}, NEW cert \in {"none", "good"},
             FailPutTLS(kind, cert)
      PROVE  TypeOK'
  <2>1. /\ tls' \in TLSRoute \cup {Torn}
        /\ tlsEdits' \in 0..MaxTLSEdits /\ tlsOverlapped' \subseteq 1..MaxTLSEdits
    BY <1>5, PutTypes DEF FailPutTLS
  <2>2. faults' \in 0..MaxFaults
    BY <1>5, AcmeAssumption DEF FailPutTLS, Fault, TypeOK
  <2> QED
    BY <1>5, <2>1, <2>2 DEF TypeOK, FailPutTLS, EditTLS
<1>6. ASSUME NEW o \in Order, SaveRequest(o) PROVE TypeOK'
    BY <1>6 DEF SaveRequest, Goto, TypeOK, Goroutine, Route, TLSRoute
<1>7. ASSUME NEW o \in Order, Lock(o) PROVE TypeOK'
    BY <1>7 DEF Lock, Goto, TypeOK, Goroutine, Route, TLSRoute
<1>8. ASSUME NEW o \in Order, Check(o) PROVE TypeOK'
  <2>1. PICK pc \in {"done", "ordering"} : order' = [order EXCEPT ![o].pc = pc]
    BY <1>8 DEF Check, Goto
  <2>2. [order[o] EXCEPT !.pc = pc] \in Goroutine
    BY DEF TypeOK, Goroutine
  <2>3. order' \in [Order -> Goroutine]
    BY <2>1, <2>2 DEF TypeOK
  <2>4. lock' \in Order \cup {None} /\ abandoned' \in BOOLEAN
    BY <1>8 DEF Check, TypeOK
  <2>5. status' \in {"none", "pending", "reused", "issued", "error"}
    BY <1>8 DEF Check, TypeOK
  <2> QED
    BY <1>8, <2>3, <2>4, <2>5 DEF Check, TypeOK
<1>9. ASSUME NEW o \in Order, Recognised(o) PROVE TypeOK'
  <2>1. order[o] \in Goroutine
    BY DEF TypeOK
  <2>2. PICK next \in Goroutine : order' = [order EXCEPT ![o] = next]
    <3>1. [order[o] EXCEPT !.pc = "finalizing", !.ok = TRUE] \in Goroutine
      BY <2>1 DEF Goroutine
    <3> QED
      BY <1>9, <3>1 DEF Recognised
  <2>3. order' \in [Order -> Goroutine]
    BY <2>2 DEF TypeOK
  <2> QED
    BY <1>9, <2>3 DEF TypeOK, Recognised
<1>10. ASSUME NEW o \in Order, ReadForPresent(o) PROVE TypeOK'
  <2>1. order[o] \in Goroutine
    BY DEF TypeOK
  <2>2. PICK next \in Goroutine : order' = [order EXCEPT ![o] = next]
    <3>1. CASE zone = Torn
      <4>1. [order[o] EXCEPT !.pc = "finalizing", !.ok = FALSE, !.route = NoRoute] \in Goroutine
        BY <2>1, <3>1, EmptyTypes DEF TypeOK, Goroutine
      <4> QED
        BY <1>10, <3>1, <4>1 DEF ReadForPresent, Refused
    <3>2. CASE ~(zone = Torn)
      <4>1. [order[o] EXCEPT !.pc = "presenting", !.route = zone] \in Goroutine
        BY <2>1, <3>2, EmptyTypes DEF TypeOK, Goroutine
      <4> QED
        BY <1>10, <3>2, <4>1 DEF ReadForPresent, Refused
    <3> QED
      BY <3>1, <3>2
  <2>3. order' \in [Order -> Goroutine]
    BY <2>2 DEF TypeOK
  <2> QED
    BY <1>10, <2>3 DEF TypeOK, ReadForPresent
<1>11. ASSUME NEW o \in Order, Present(o) PROVE TypeOK'
  <2> DEFINE next == [order[o] EXCEPT !.pc = "presented", !.route = NoRoute]
  <2>1. order[o] \in Goroutine /\ order[o].route \in Route /\ order[o].current \in TLSRoute
    BY DEF TypeOK, Goroutine
  <2>2. next \in Goroutine
    BY <2>1, EmptyTypes DEF TypeOK, Goroutine
  <2>3. order' = [order EXCEPT ![o] = next]
    BY <1>11 DEF Present, Goto, WithChallenge
  <2>4. order' \in [Order -> Goroutine]
    BY <2>2, <2>3 DEF TypeOK
  <2>5. zone' \in Route \cup {Torn} /\ tls' \in TLSRoute \cup {Torn}
    BY <1>11, <2>1, ChallengeTypes, CertificateType DEF TypeOK, Present, Goto
  <2> QED
    BY <1>11, <2>4, <2>5 DEF TypeOK, Present, Goto, WithChallenge
<1>12. ASSUME NEW o \in Order, SaveState(o) PROVE TypeOK'
    BY <1>12 DEF SaveState, Goto, TypeOK, Goroutine, Route, TLSRoute
<1>13. ASSUME NEW o \in Order, NEW ok \in BOOLEAN, Solve(o, ok) PROVE TypeOK'
  <2> DEFINE next == [order[o] EXCEPT !.pc = "cleanup", !.ok = ok]
  <2>1. order[o] \in Goroutine /\ order[o].route \in Route /\ order[o].current \in TLSRoute
    BY DEF TypeOK, Goroutine
  <2>2. next \in Goroutine
    BY <2>1, EmptyTypes DEF TypeOK, Goroutine
  <2>3. order' = [order EXCEPT ![o] = next]
    BY <1>13 DEF Solve, Goto
  <2>4. order' \in [Order -> Goroutine]
    BY <2>2, <2>3 DEF TypeOK
  <2>5. zone' \in Route \cup {Torn} /\ tls' \in TLSRoute \cup {Torn}
    BY <1>13, <2>1, ChallengeTypes, CertificateType DEF TypeOK, Solve, Goto
  <2> QED
    BY <1>13, <2>4, <2>5 DEF TypeOK, Solve, Goto
<1>14. ASSUME NEW o \in Order, ReadForCleanup(o) PROVE TypeOK'
  <2>1. order[o] \in Goroutine
    BY DEF TypeOK
  <2>2. PICK next \in Goroutine : order' = [order EXCEPT ![o] = next]
    <3>1. CASE zone = Torn
      <4>1. [order[o] EXCEPT !.pc = "finalizing"] \in Goroutine
        BY <2>1, <3>1, EmptyTypes DEF TypeOK, Goroutine
      <4> QED
        BY <1>14, <3>1, <4>1 DEF ReadForCleanup, Goto
    <3>2. CASE ~(zone = Torn)
      <4>1. [order[o] EXCEPT !.pc = "cleaning", !.route = zone] \in Goroutine
        BY <2>1, <3>2, EmptyTypes DEF TypeOK, Goroutine
      <4> QED
        BY <1>14, <3>2, <4>1 DEF ReadForCleanup, Goto
    <3> QED
      BY <3>1, <3>2
  <2>3. order' \in [Order -> Goroutine]
    BY <2>2 DEF TypeOK
  <2>4. stray' \subseteq Order
    BY <1>14 DEF ReadForCleanup, TypeOK
  <2> QED
    BY <1>14, <2>3, <2>4 DEF TypeOK, ReadForCleanup
<1>15. ASSUME NEW o \in Order, Cleanup(o) PROVE TypeOK'
  <2> DEFINE next == [order[o] EXCEPT !.pc = "cleaned", !.route = NoRoute]
  <2>1. order[o] \in Goroutine /\ order[o].route \in Route /\ order[o].current \in TLSRoute
    BY DEF TypeOK, Goroutine
  <2>2. next \in Goroutine
    BY <2>1, EmptyTypes DEF TypeOK, Goroutine
  <2>3. order' = [order EXCEPT ![o] = next]
    BY <1>15 DEF Cleanup, Goto, WithoutChallenge
  <2>4. order' \in [Order -> Goroutine]
    BY <2>2, <2>3 DEF TypeOK
  <2>5. zone' \in Route \cup {Torn} /\ tls' \in TLSRoute \cup {Torn}
    BY <1>15, <2>1, ChallengeTypes, CertificateType DEF TypeOK, Cleanup, Goto
  <2> QED
    BY <1>15, <2>4, <2>5 DEF TypeOK, Cleanup, Goto, WithoutChallenge
<1>16. ASSUME NEW o \in Order, DeleteState(o) PROVE TypeOK'
    BY <1>16 DEF DeleteState, Goto, TypeOK, Goroutine, Route, TLSRoute
<1>17. ASSUME NEW o \in Order, Finalize(o) PROVE TypeOK'
  <2>1. order[o] \in Goroutine
    BY DEF TypeOK
  <2>2. PICK next \in Goroutine : order' = [order EXCEPT ![o] = next]
    <3>1. CASE order[o].ok
      <4>1. [order[o] EXCEPT !.pc = "issued"] \in Goroutine
        BY <2>1, <3>1, EmptyTypes DEF TypeOK, Goroutine
      <4> QED
        BY <1>17, <3>1, <4>1 DEF Finalize, Goto
    <3>2. CASE ~(order[o].ok)
      <4>1. [order[o] EXCEPT !.pc = "settling"] \in Goroutine
        BY <2>1, <3>2, EmptyTypes DEF TypeOK, Goroutine
      <4> QED
        BY <1>17, <3>2, <4>1 DEF Finalize, Goto
    <3> QED
      BY <3>1, <3>2
  <2>3. order' \in [Order -> Goroutine]
    BY <2>2 DEF TypeOK
  <2>4. certs' \in Nat
    BY <1>17 DEF Finalize, TypeOK
  <2> QED
    BY <1>17, <2>3, <2>4 DEF TypeOK, Finalize
<1>18. ASSUME NEW o \in Order, ReadTLS(o) PROVE TypeOK'
  <2>1. order[o] \in Goroutine
    BY DEF TypeOK
  <2>2. PICK next \in Goroutine : order' = [order EXCEPT ![o] = next]
    <3>1. CASE tls = Torn
      <4>1. [order[o] EXCEPT !.pc = "settling", !.ok = FALSE] \in Goroutine
        BY <2>1, <3>1, EmptyTypes DEF TypeOK, Goroutine
      <4> QED
        BY <1>18, <3>1, <4>1 DEF ReadTLS
    <3>2. CASE ~(tls = Torn)
      <4>1. [order[o] EXCEPT !.pc = "installing", !.current = tls] \in Goroutine
        BY <2>1, <3>2, EmptyTypes DEF TypeOK, Goroutine
      <4> QED
        BY <1>18, <3>2, <4>1 DEF ReadTLS
    <3> QED
      BY <3>1, <3>2
  <2>3. order' \in [Order -> Goroutine]
    BY <2>2 DEF TypeOK
  <2> QED
    BY <1>18, <2>3 DEF TypeOK, ReadTLS
<1>19. ASSUME NEW o \in Order, Install(o) PROVE TypeOK'
  <2> DEFINE next == [order[o] EXCEPT !.pc = "settling", !.ok = TRUE, !.current = NoTLS]
  <2>1. order[o] \in Goroutine /\ order[o].route \in Route /\ order[o].current \in TLSRoute
    BY DEF TypeOK, Goroutine
  <2>2. next \in Goroutine
    BY <2>1, EmptyTypes DEF TypeOK, Goroutine
  <2>3. order' = [order EXCEPT ![o] = next]
    BY <1>19 DEF Install, Goto, WithCertificate
  <2>4. order' \in [Order -> Goroutine]
    BY <2>2, <2>3 DEF TypeOK
  <2>5. zone' \in Route \cup {Torn} /\ tls' \in TLSRoute \cup {Torn}
    BY <1>19, <2>1, ChallengeTypes, CertificateType DEF TypeOK, Install, Goto
  <2> QED
    BY <1>19, <2>4, <2>5 DEF TypeOK, Install, Goto, WithCertificate
<1>20. ASSUME NEW o \in Order, Settle(o) PROVE TypeOK'
    BY <1>20 DEF Settle, Goto, TypeOK, Goroutine, Route, TLSRoute
<1>21. ASSUME NEW o \in Order, FailOrder(o) PROVE TypeOK'
  <2>1. order[o] \in Goroutine
    BY DEF TypeOK
  <2>2. PICK next \in Goroutine : order' = [order EXCEPT ![o] = next]
    <3>1. [order[o] EXCEPT !.pc = "finalizing", !.ok = FALSE, !.route = NoRoute] \in Goroutine
      BY <2>1, EmptyTypes DEF Goroutine
    <3>2. [order[o] EXCEPT !.pc = "settling", !.ok = FALSE, !.current = NoTLS] \in Goroutine
      BY <2>1, EmptyTypes DEF Goroutine
    <3>3. CASE order' = Refused(o)
      BY <3>1, <3>3 DEF Refused
    <3>4. CASE order' = [order EXCEPT ![o].pc = "settling", ![o].ok = FALSE, ![o].current = NoTLS]
      BY <3>2, <3>4
    <3> QED
      BY <1>21, <3>3, <3>4 DEF FailOrder
  <2>3. order' \in [Order -> Goroutine]
    BY <2>2 DEF TypeOK
  <2>4. /\ zone' \in Route \cup {Torn} /\ tls' \in TLSRoute \cup {Torn}
        /\ faults' \in 0..MaxFaults /\ stray' \subseteq Order
    BY <1>21, CutHTTPLeaves, CutTLSLeaves, AcmeAssumption DEF FailOrder, Fault, TypeOK
  <2> QED
    BY <1>21, <2>3, <2>4 DEF TypeOK, FailOrder
<1>22. ASSUME NEW o \in Order, FailCleanup(o) PROVE TypeOK'
  <2>1. order[o] \in Goroutine
    BY DEF TypeOK
  <2>2. PICK next \in Goroutine : order' = [order EXCEPT ![o] = next]
    <3>1. [order[o] EXCEPT !.pc = "finalizing", !.route = NoRoute] \in Goroutine
      BY <2>1, EmptyTypes DEF Goroutine
    <3> QED
      BY <1>22, <3>1 DEF FailCleanup
  <2>3. order' \in [Order -> Goroutine]
    BY <2>2 DEF TypeOK
  <2>4. zone' \in Route \cup {Torn} /\ faults' \in 0..MaxFaults /\ stray' \subseteq Order
    BY <1>22, CutHTTPLeaves, AcmeAssumption DEF FailCleanup, Fault, TypeOK
  <2> QED
    BY <1>22, <2>3, <2>4 DEF TypeOK, FailCleanup
<1>23. ASSUME NEW o \in Order, Abandon(o) PROVE TypeOK'
  <2> DEFINE next == [order[o] EXCEPT !.pc = "done"]
  <2>1. order[o] \in Goroutine /\ order[o].route \in Route /\ order[o].current \in TLSRoute
    BY DEF TypeOK, Goroutine
  <2>2. next \in Goroutine
    BY <2>1, EmptyTypes DEF TypeOK, Goroutine
  <2>3. order' = [order EXCEPT ![o] = next]
    BY <1>23 DEF Abandon, Goto, Fault
  <2>4. order' \in [Order -> Goroutine]
    BY <2>2, <2>3 DEF TypeOK
  <2>5. zone' \in Route \cup {Torn} /\ tls' \in TLSRoute \cup {Torn}
    BY <1>23, <2>1, ChallengeTypes, CertificateType DEF TypeOK, Abandon, Goto, Fault
  <2> QED
    BY <1>23, <2>4, <2>5, AcmeAssumption DEF TypeOK, Abandon, Goto, Fault
<1>24. CASE Crash
  <2>1. \A o \in Order :
            [order[o] EXCEPT !.pc = "done", !.route = NoRoute, !.current = NoTLS] \in Goroutine
    BY EmptyTypes DEF TypeOK, Goroutine
  <2>2. order' \in [Order -> Goroutine]
    BY <1>24, <2>1 DEF Crash, CutHTTP, CutTLS, HoldsTLS, TypeOK
  <2>3. stray' \subseteq Order
    BY <1>24 DEF Crash, CutHTTP, CutTLS, HoldsTLS, TypeOK
  <2>4. zone' \in Route \cup {Torn} /\ tls' \in TLSRoute \cup {Torn}
    BY <1>24, CrashLeaves, CutHTTPLeaves, CutTLSLeaves DEF TypeOK
  <2>5. faults' \in 0..MaxFaults /\ abandoned' \in BOOLEAN /\ lock' = None
    BY <1>24, CrashKeeps, AcmeAssumption DEF TypeOK
  <2> QED
    BY <1>24, <2>2, <2>3, <2>4, <2>5 DEF Crash, TypeOK
<1>25. CASE UNCHANGED vars
    BY <1>25 DEF vars, TypeOK, Goroutine, Route, TLSRoute
<1> QED
    BY <1>1, <1>2, <1>3, <1>4, <1>5, <1>6, <1>7, <1>8, <1>9, <1>10, <1>11, <1>12, <1>13, <1>14,
       <1>15, <1>16, <1>17, <1>18, <1>19, <1>20, <1>21, <1>22, <1>23, <1>24, <1>25
       DEF Next, OrderStep, CAStep

\* issueLock: only its holder is under it.
LEMMA LockKept == Inv /\ [Next]_vars => LockInv'
<1> SUFFICES ASSUME Inv, [Next]_vars PROVE LockInv'
    OBVIOUS
<1> USE TornAssumption DEF Inv, management, ghosts,
        TypeOK, Goroutine, Route, TLSRoute, LockInv, Critical
<1>1. CASE GetHTTP
    BY <1>1 DEF GetHTTP
<1>2. ASSUME NEW tokens \in {{}, draft}, PutHTTP(tokens) PROVE LockInv'
    BY <1>2, PutHTTPStarts DEF PutHTTP, EditHTTP
<1>3. ASSUME NEW tokens \in {{}, draft}, FailPutHTTP(tokens) PROVE LockInv'
    BY <1>3 DEF FailPutHTTP, EditHTTP, Fault
<1>4. ASSUME NEW kind \in {"passthrough", "terminate", "https"}, NEW cert \in {"none", "good"},
        PutTLS(kind, cert)
      PROVE  LockInv'
    BY <1>4 DEF PutTLS, EditTLS, HoldsTLS
<1>5. ASSUME NEW kind \in {"passthrough", "terminate", "https"}, NEW cert \in {"none", "good"},
             FailPutTLS(kind, cert)
      PROVE  LockInv'
    BY <1>5 DEF FailPutTLS, EditTLS, Fault
<1>6. ASSUME NEW o \in Order, SaveRequest(o) PROVE LockInv'
    BY <1>6 DEF SaveRequest, Goto
<1>7. ASSUME NEW o \in Order, Lock(o) PROVE LockInv'
    BY <1>7, AcmeAssumption DEF Lock, Goto, TypeOK, Goroutine, LockInv, Critical
<1>8. ASSUME NEW o \in Order, Check(o) PROVE LockInv'
    BY <1>8 DEF Check, HasCertificate, Goto
<1>9. ASSUME NEW o \in Order, Recognised(o) PROVE LockInv'
    BY <1>9 DEF Recognised, Goto
<1>10. ASSUME NEW o \in Order, ReadForPresent(o) PROVE LockInv'
    BY <1>10 DEF ReadForPresent, Refused, Goto
<1>11. ASSUME NEW o \in Order, Present(o) PROVE LockInv'
    BY <1>11 DEF Present, Goto, WithChallenge
<1>12. ASSUME NEW o \in Order, SaveState(o) PROVE LockInv'
    BY <1>12 DEF SaveState, Goto
<1>13. ASSUME NEW o \in Order, NEW ok \in BOOLEAN, Solve(o, ok) PROVE LockInv'
    BY <1>13 DEF Solve, Goto
<1>14. ASSUME NEW o \in Order, ReadForCleanup(o) PROVE LockInv'
    BY <1>14 DEF ReadForCleanup, Goto
<1>15. ASSUME NEW o \in Order, Cleanup(o) PROVE LockInv'
    BY <1>15 DEF Cleanup, Goto, WithoutChallenge
<1>16. ASSUME NEW o \in Order, DeleteState(o) PROVE LockInv'
    BY <1>16 DEF DeleteState, Goto
<1>17. ASSUME NEW o \in Order, Finalize(o) PROVE LockInv'
    BY <1>17 DEF Finalize, Goto
<1>18. ASSUME NEW o \in Order, ReadTLS(o) PROVE LockInv'
    BY <1>18 DEF ReadTLS, Goto
<1>19. ASSUME NEW o \in Order, Install(o) PROVE LockInv'
    BY <1>19 DEF Install, Goto, WithCertificate
<1>20. ASSUME NEW o \in Order, Settle(o) PROVE LockInv'
    BY <1>20 DEF Settle, Goto
<1>21. ASSUME NEW o \in Order, FailOrder(o) PROVE LockInv'
    BY <1>21 DEF FailOrder, Refused, CutHTTP, CutTLS, HoldsTLS, Goto, Fault, WithChallenge, WithCertificate
<1>22. ASSUME NEW o \in Order, FailCleanup(o) PROVE LockInv'
    BY <1>22 DEF FailCleanup, CutHTTP, Goto, Fault, WithoutChallenge
<1>23. ASSUME NEW o \in Order, Abandon(o) PROVE LockInv'
    BY <1>23 DEF Abandon, Goto, Fault
<1>24. CASE Crash
    BY <1>24, CrashEnds DEF Crash, CutHTTP, CutTLS, HoldsTLS, Fault
<1>25. CASE UNCHANGED vars
    BY <1>25 DEF vars
<1> QED
    BY <1>1, <1>2, <1>3, <1>4, <1>5, <1>6, <1>7, <1>8, <1>9, <1>10, <1>11, <1>12, <1>13, <1>14,
       <1>15, <1>16, <1>17, <1>18, <1>19, <1>20, <1>21, <1>22, <1>23, <1>24, <1>25
       DEF Next, OrderStep, CAStep

\* Orders take back what they put in, a stale copy of the route included.
LEMMA ChallengesKept == Inv /\ [Next]_vars => ChallengesOwned'
<1> SUFFICES ASSUME Inv, [Next]_vars PROVE ChallengesOwned'
    OBVIOUS
<1> USE TornAssumption DEF Inv, management, ghosts,
        TypeOK, Goroutine, Route, TLSRoute, LockInv, Critical, CopyInv, HoldsRoute, HoldsTLS,
                ChallengesOwned
<1>1. CASE GetHTTP
    BY <1>1 DEF GetHTTP
<1>2. ASSUME NEW tokens \in {{}, draft}, PutHTTP(tokens) PROVE ChallengesOwned'
    BY <1>2 DEF PutHTTP, EditHTTP, HoldsRoute
<1>3. ASSUME NEW tokens \in {{}, draft}, FailPutHTTP(tokens) PROVE ChallengesOwned'
    BY <1>3 DEF FailPutHTTP, EditHTTP, Fault
<1>4. ASSUME NEW kind \in {"passthrough", "terminate", "https"}, NEW cert \in {"none", "good"},
        PutTLS(kind, cert)
      PROVE  ChallengesOwned'
    BY <1>4 DEF PutTLS, EditTLS, HoldsTLS
<1>5. ASSUME NEW kind \in {"passthrough", "terminate", "https"}, NEW cert \in {"none", "good"},
             FailPutTLS(kind, cert)
      PROVE  ChallengesOwned'
    BY <1>5 DEF FailPutTLS, EditTLS, Fault
<1>6. ASSUME NEW o \in Order, SaveRequest(o) PROVE ChallengesOwned'
    BY <1>6 DEF SaveRequest, Goto
<1>7. ASSUME NEW o \in Order, Lock(o) PROVE ChallengesOwned'
    BY <1>7 DEF Lock, Goto
<1>8. ASSUME NEW o \in Order, Check(o) PROVE ChallengesOwned'
    BY <1>8 DEF Check, HasCertificate, Goto
<1>9. ASSUME NEW o \in Order, Recognised(o) PROVE ChallengesOwned'
    BY <1>9 DEF Recognised, Goto
<1>10. ASSUME NEW o \in Order, ReadForPresent(o) PROVE ChallengesOwned'
    BY <1>10 DEF ReadForPresent, Refused, Goto
<1>11. ASSUME NEW o \in Order, Present(o) PROVE ChallengesOwned'
    BY <1>11 DEF Present, Goto, WithChallenge
<1>12. ASSUME NEW o \in Order, SaveState(o) PROVE ChallengesOwned'
    BY <1>12 DEF SaveState, Goto
<1>13. ASSUME NEW o \in Order, NEW ok \in BOOLEAN, Solve(o, ok) PROVE ChallengesOwned'
    BY <1>13 DEF Solve, Goto
<1>14. ASSUME NEW o \in Order, ReadForCleanup(o) PROVE ChallengesOwned'
    BY <1>14 DEF ReadForCleanup, Goto
<1>15. ASSUME NEW o \in Order, Cleanup(o) PROVE ChallengesOwned'
    BY <1>15 DEF Cleanup, Goto, WithoutChallenge
<1>16. ASSUME NEW o \in Order, DeleteState(o) PROVE ChallengesOwned'
    BY <1>16 DEF DeleteState, Goto
<1>17. ASSUME NEW o \in Order, Finalize(o) PROVE ChallengesOwned'
    BY <1>17 DEF Finalize, Goto
<1>18. ASSUME NEW o \in Order, ReadTLS(o) PROVE ChallengesOwned'
    BY <1>18 DEF ReadTLS, Goto
<1>19. ASSUME NEW o \in Order, Install(o) PROVE ChallengesOwned'
    BY <1>19 DEF Install, Goto, WithCertificate
<1>20. ASSUME NEW o \in Order, Settle(o) PROVE ChallengesOwned'
    BY <1>20 DEF Settle, Goto
<1>21. ASSUME NEW o \in Order, FailOrder(o) PROVE ChallengesOwned'
    BY <1>21 DEF FailOrder, Refused, CutHTTP, CutTLS, HoldsTLS, Goto, Fault, WithChallenge, WithCertificate
<1>22. ASSUME NEW o \in Order, FailCleanup(o) PROVE ChallengesOwned'
    BY <1>22 DEF FailCleanup, CutHTTP, Goto, Fault, WithoutChallenge
<1>23. ASSUME NEW o \in Order, Abandon(o) PROVE ChallengesOwned'
    BY <1>23 DEF Abandon, Goto, Fault
<1>24. CASE Crash
  <2>1. ASSUME NEW t \in Order \ stray', zone' # Torn, t \in zone'.tokens PROVE FALSE
    <3>1. t \notin stray /\ ~Active(t)
      BY <1>24, <2>1 DEF Crash
    <3>2. CASE zone' = zone
      BY <2>1, <3>1, <3>2 DEF Active
    <3>3. CASE zone' # zone
      <4>1. PICK o \in Order : zone' \in CutHTTP(o)
        BY <1>24, <3>3, CrashLeaves
      <4>2. \/ zone' = WithChallenge(order[o].route, o) /\ order[o].pc = "presenting"
            \/ zone' = WithoutChallenge(order[o].route, o) /\ order[o].pc = "cleaning"
        BY <2>1, <3>3, <4>1, CutHTTPLeaves
      <4>3. order[o].route \in Route /\ Active(o)
        BY <4>2 DEF Active
      <4>4. t = o \/ t \in order[o].route.tokens
        BY <2>1, <4>2, <4>3 DEF WithChallenge, WithoutChallenge
      <4>5. t # o
        BY <3>1, <4>3
      <4> QED
        BY <3>1, <4>2, <4>4, <4>5
    <3> QED
      BY <3>2, <3>3
  <2>2. \A t \in Order \ stray' : t \notin states'
    BY <1>24 DEF Crash, Active
  <2> QED
    BY <2>1, <2>2
<1>25. CASE UNCHANGED vars
    BY <1>25 DEF vars
<1> QED
    BY <1>1, <1>2, <1>3, <1>4, <1>5, <1>6, <1>7, <1>8, <1>9, <1>10, <1>11, <1>12, <1>13, <1>14,
       <1>15, <1>16, <1>17, <1>18, <1>19, <1>20, <1>21, <1>22, <1>23, <1>24, <1>25
       DEF Next, OrderStep, CAStep

\* A copy of a route is of the last edit, and brings back no challenge.
LEMMA CopyKept == Inv /\ [Next]_vars => CopyInv'
<1> SUFFICES ASSUME Inv, [Next]_vars PROVE CopyInv'
    OBVIOUS
<1> USE TornAssumption DEF Inv, management, ghosts,
        TypeOK, Goroutine, Route, LockInv, Critical, CopyInv, HoldsRoute, HoldsTLS,
                ChallengesOwned, EditsKept, TLSEditsKept, NoRoute, NoTLS
<1>1. CASE GetHTTP
    BY <1>1 DEF GetHTTP
<1>2. ASSUME NEW tokens \in {{}, draft}, PutHTTP(tokens) PROVE CopyInv'
    BY <1>2 DEF PutHTTP, EditHTTP, HoldsRoute
<1>3. ASSUME NEW tokens \in {{}, draft}, FailPutHTTP(tokens) PROVE CopyInv'
    BY <1>3 DEF FailPutHTTP, EditHTTP, Fault
<1>4. ASSUME NEW kind \in {"passthrough", "terminate", "https"}, NEW cert \in {"none", "good"},
        PutTLS(kind, cert)
      PROVE  CopyInv'
    BY <1>4 DEF PutTLS, EditTLS, HoldsTLS
<1>5. ASSUME NEW kind \in {"passthrough", "terminate", "https"}, NEW cert \in {"none", "good"},
             FailPutTLS(kind, cert)
      PROVE  CopyInv'
    BY <1>5 DEF FailPutTLS, EditTLS, Fault
<1>6. ASSUME NEW o \in Order, SaveRequest(o) PROVE CopyInv'
    BY <1>6 DEF SaveRequest, Goto
<1>7. ASSUME NEW o \in Order, Lock(o) PROVE CopyInv'
    BY <1>7 DEF Lock, Goto
<1>8. ASSUME NEW o \in Order, Check(o) PROVE CopyInv'
    BY <1>8 DEF Check, HasCertificate, Goto
<1>9. ASSUME NEW o \in Order, Recognised(o) PROVE CopyInv'
    BY <1>9 DEF Recognised, Goto
<1>10. ASSUME NEW o \in Order, ReadForPresent(o) PROVE CopyInv'
    BY <1>10 DEF ReadForPresent, Refused, Goto
<1>11. ASSUME NEW o \in Order, Present(o) PROVE CopyInv'
    BY <1>11 DEF Present, Goto, WithChallenge
<1>12. ASSUME NEW o \in Order, SaveState(o) PROVE CopyInv'
    BY <1>12 DEF SaveState, Goto
<1>13. ASSUME NEW o \in Order, NEW ok \in BOOLEAN, Solve(o, ok) PROVE CopyInv'
    BY <1>13 DEF Solve, Goto
<1>14. ASSUME NEW o \in Order, ReadForCleanup(o) PROVE CopyInv'
  <2>1. CASE zone = Torn
    <3>1. order'[o].pc = "finalizing" /\ (\A p \in Order \ {o} : order'[p] = order[p])
      BY <1>14, <2>1 DEF ReadForCleanup, Goto
    <3>2. UNCHANGED <<edits, tlsEdits, overlapped, tlsOverlapped>> /\ stray \subseteq stray'
      BY <1>14 DEF ReadForCleanup
    <3> QED
      BY <3>1, <3>2
  <2>2. CASE zone # Torn
    <3>1. \A t \in zone.tokens \ stray : t = o
      BY <1>14, <2>2 DEF ReadForCleanup
    <3>2. order'[o].route = zone /\ order'[o].pc = "cleaning"
      BY <1>14, <2>2 DEF ReadForCleanup
    <3>3. \A p \in Order \ {o} : order'[p] = order[p]
      BY <1>14, <2>2 DEF ReadForCleanup
    <3>4. UNCHANGED <<edits, tlsEdits, overlapped, tlsOverlapped, stray>>
      BY <1>14, <2>2 DEF ReadForCleanup
    <3> QED
      BY <2>2, <3>1, <3>2, <3>3, <3>4
  <2> QED
    BY <2>1, <2>2
<1>15. ASSUME NEW o \in Order, Cleanup(o) PROVE CopyInv'
    BY <1>15 DEF Cleanup, Goto, WithoutChallenge
<1>16. ASSUME NEW o \in Order, DeleteState(o) PROVE CopyInv'
    BY <1>16 DEF DeleteState, Goto
<1>17. ASSUME NEW o \in Order, Finalize(o) PROVE CopyInv'
    BY <1>17 DEF Finalize, Goto
<1>18. ASSUME NEW o \in Order, ReadTLS(o) PROVE CopyInv'
    BY <1>18 DEF ReadTLS, Goto
<1>19. ASSUME NEW o \in Order, Install(o) PROVE CopyInv'
    BY <1>19 DEF Install, Goto, WithCertificate
<1>20. ASSUME NEW o \in Order, Settle(o) PROVE CopyInv'
    BY <1>20 DEF Settle, Goto
<1>21. ASSUME NEW o \in Order, FailOrder(o) PROVE CopyInv'
    BY <1>21 DEF FailOrder, Refused, CutHTTP, CutTLS, HoldsTLS, Goto, Fault, WithChallenge, WithCertificate
<1>22. ASSUME NEW o \in Order, FailCleanup(o) PROVE CopyInv'
    BY <1>22 DEF FailCleanup, CutHTTP, Goto, Fault, WithoutChallenge
<1>23. ASSUME NEW o \in Order, Abandon(o) PROVE CopyInv'
    BY <1>23 DEF Abandon, Goto, Fault
<1>24. CASE Crash
    BY <1>24, CrashEnds DEF Crash, CutHTTP, CutTLS, HoldsTLS, Fault
<1>25. CASE UNCHANGED vars
    BY <1>25 DEF vars
<1> QED
    BY <1>1, <1>2, <1>3, <1>4, <1>5, <1>6, <1>7, <1>8, <1>9, <1>10, <1>11, <1>12, <1>13, <1>14,
       <1>15, <1>16, <1>17, <1>18, <1>19, <1>20, <1>21, <1>22, <1>23, <1>24, <1>25
       DEF Next, OrderStep, CAStep

\* What is published is the copy, so it has the last edit.
LEMMA RoutesKept == Inv /\ [Next]_vars => (EditsKept /\ TLSEditsKept)'
<1> SUFFICES ASSUME Inv, [Next]_vars PROVE (EditsKept /\ TLSEditsKept)'
    OBVIOUS
<1> USE TornAssumption DEF Inv, management, ghosts,
        TypeOK, Goroutine, Route, TLSRoute, CopyInv, HoldsRoute, HoldsTLS, EditsKept,
                TLSEditsKept
<1>1. CASE GetHTTP
    BY <1>1 DEF GetHTTP
<1>2. ASSUME NEW tokens \in {{}, draft}, PutHTTP(tokens) PROVE (EditsKept /\ TLSEditsKept)'
  <2>1. zone' \in Route
    BY <1>2, PutTypes DEF PutHTTP
  <2> QED
    BY <1>2, <2>1 DEF PutHTTP, EditHTTP
<1>3. ASSUME NEW tokens \in {{}, draft}, FailPutHTTP(tokens) PROVE (EditsKept /\ TLSEditsKept)'
    BY <1>3 DEF FailPutHTTP, EditHTTP, Fault
<1>4. ASSUME NEW kind \in {"passthrough", "terminate", "https"}, NEW cert \in {"none", "good"},
             PutTLS(kind, cert)
      PROVE  (EditsKept /\ TLSEditsKept)'
  <2>1. tls' \in TLSRoute
    BY <1>4, PutTypes DEF PutTLS
  <2> QED
    BY <1>4, <2>1 DEF PutTLS, EditTLS
<1>5. ASSUME NEW kind \in {"passthrough", "terminate", "https"}, NEW cert \in {"none", "good"},
             FailPutTLS(kind, cert)
      PROVE  (EditsKept /\ TLSEditsKept)'
    BY <1>5 DEF FailPutTLS, EditTLS, Fault
<1>6. ASSUME NEW o \in Order, SaveRequest(o) PROVE (EditsKept /\ TLSEditsKept)'
    BY <1>6 DEF SaveRequest, Goto
<1>7. ASSUME NEW o \in Order, Lock(o) PROVE (EditsKept /\ TLSEditsKept)'
    BY <1>7 DEF Lock, Goto
<1>8. ASSUME NEW o \in Order, Check(o) PROVE (EditsKept /\ TLSEditsKept)'
    BY <1>8 DEF Check, HasCertificate, Goto
<1>9. ASSUME NEW o \in Order, Recognised(o) PROVE (EditsKept /\ TLSEditsKept)'
    BY <1>9 DEF Recognised, Goto
<1>10. ASSUME NEW o \in Order, ReadForPresent(o) PROVE (EditsKept /\ TLSEditsKept)'
    BY <1>10 DEF ReadForPresent, Refused, Goto
<1>11. ASSUME NEW o \in Order, Present(o) PROVE (EditsKept /\ TLSEditsKept)'
    BY <1>11 DEF Present, Goto, WithChallenge
<1>12. ASSUME NEW o \in Order, SaveState(o) PROVE (EditsKept /\ TLSEditsKept)'
    BY <1>12 DEF SaveState, Goto
<1>13. ASSUME NEW o \in Order, NEW ok \in BOOLEAN, Solve(o, ok)
      PROVE  (EditsKept /\ TLSEditsKept)'
    BY <1>13 DEF Solve, Goto
<1>14. ASSUME NEW o \in Order, ReadForCleanup(o) PROVE (EditsKept /\ TLSEditsKept)'
    BY <1>14 DEF ReadForCleanup, Goto
<1>15. ASSUME NEW o \in Order, Cleanup(o) PROVE (EditsKept /\ TLSEditsKept)'
    BY <1>15 DEF Cleanup, Goto, WithoutChallenge
<1>16. ASSUME NEW o \in Order, DeleteState(o) PROVE (EditsKept /\ TLSEditsKept)'
    BY <1>16 DEF DeleteState, Goto
<1>17. ASSUME NEW o \in Order, Finalize(o) PROVE (EditsKept /\ TLSEditsKept)'
    BY <1>17 DEF Finalize, Goto
<1>18. ASSUME NEW o \in Order, ReadTLS(o) PROVE (EditsKept /\ TLSEditsKept)'
    BY <1>18 DEF ReadTLS, Goto
<1>19. ASSUME NEW o \in Order, Install(o) PROVE (EditsKept /\ TLSEditsKept)'
    BY <1>19 DEF Install, Goto, WithCertificate
<1>20. ASSUME NEW o \in Order, Settle(o) PROVE (EditsKept /\ TLSEditsKept)'
    BY <1>20 DEF Settle, Goto
<1>21. ASSUME NEW o \in Order, FailOrder(o) PROVE (EditsKept /\ TLSEditsKept)'
    BY <1>21 DEF FailOrder, Refused, CutHTTP, CutTLS, HoldsTLS, Goto, Fault, WithChallenge, WithCertificate
<1>22. ASSUME NEW o \in Order, FailCleanup(o) PROVE (EditsKept /\ TLSEditsKept)'
    BY <1>22 DEF FailCleanup, CutHTTP, Goto, Fault, WithoutChallenge
<1>23. ASSUME NEW o \in Order, Abandon(o) PROVE (EditsKept /\ TLSEditsKept)'
    BY <1>23 DEF Abandon, Goto, Fault
<1>24. CASE Crash
  <2>1. EditsKept'
    <3>1. CASE zone' \in {zone, Torn}
      <4>1. edits' = edits /\ overlapped' = overlapped
        BY <1>24 DEF Crash
      <4>2. faults \in Nat /\ faults' = faults + 1
        BY <1>24, CrashKeeps
      <4> QED
        BY <3>1, <4>1, <4>2
    <3>2. CASE zone' \notin {zone, Torn}
      <4>1. PICK o \in Order : zone' \in CutHTTP(o)
        BY <1>24, <3>2, CrashLeaves
      <4>2. HoldsRoute(o) /\ zone'.edit = order[o].route.edit
        BY <3>2, <4>1, CutHTTPLeaves DEF WithChallenge, WithoutChallenge
      <4> QED
        BY <1>24, <3>2, <4>2 DEF Crash
    <3> QED
      BY <3>1, <3>2
  <2>2. TLSEditsKept'
    <3>1. CASE tls' \in {tls, Torn}
      <4>1. tlsEdits' = tlsEdits /\ tlsOverlapped' = tlsOverlapped
        BY <1>24 DEF Crash
      <4>2. faults \in Nat /\ faults' = faults + 1
        BY <1>24, CrashKeeps
      <4> QED
        BY <3>1, <4>1, <4>2
    <3>2. CASE tls' \notin {tls, Torn}
      <4>1. PICK o \in Order : tls' \in CutTLS(o)
        BY <1>24, <3>2, CrashLeaves
      <4>2. HoldsTLS(o) /\ tls'.edit = order[o].current.edit
        BY <3>2, <4>1, CutTLSLeaves DEF WithCertificate
      <4> QED
        BY <1>24, <3>2, <4>2 DEF Crash
    <3> QED
      BY <3>1, <3>2
  <2> QED
    BY <2>1, <2>2
<1>25. CASE UNCHANGED vars
    BY <1>25 DEF vars
<1> QED
    BY <1>1, <1>2, <1>3, <1>4, <1>5, <1>6, <1>7, <1>8, <1>9, <1>10, <1>11, <1>12, <1>13, <1>14,
       <1>15, <1>16, <1>17, <1>18, <1>19, <1>20, <1>21, <1>22, <1>23, <1>24, <1>25
       DEF Next, OrderStep, CAStep

\* Nothing that a certificate was obtained for is undone.
Quiet ==
    /\ UNCHANGED <<certs, tlsEdits, faults, tls>>
    /\ \A p \in Order : Solving(p)' => Solving(p)
    /\ \A p \in Order : order[p].pc \in {"issued", "installing"} =>
                            order'[p].pc \in {"issued", "installing"}

\* A TLS edit or a fault, which may undo it.
Undoing ==
    /\ certs' = certs
    /\ tlsEdits' + faults' > tlsEdits + faults
    /\ tlsEdits' \in Nat /\ faults' \in Nat
    /\ \A p \in Order : Solving(p)' => Solving(p)

\* Neither breaks the bound of the certificates.
LEMMA CertificateSteps ==
    ASSUME TypeOK, CertificateInv
    PROVE  (Quiet => CertificateInv') /\ (Undoing => CertificateInv')
<1>1. certs \in Nat /\ tlsEdits \in Nat /\ faults \in Nat
    BY AcmeAssumption DEF TypeOK
<1>2. ASSUME Quiet PROVE CertificateInv'
    BY <1>2 DEF Quiet, CertificateInv, HasCertificate
<1>3. ASSUME Undoing PROVE CertificateInv'
  <2>1. /\ certs' = certs /\ tlsEdits' + faults' > tlsEdits + faults
        /\ tlsEdits' \in Nat /\ faults' \in Nat
    BY <1>3 DEF Undoing
  <2>2. \A i, j \in Nat : i + j \in Nat /\ 1 + i + j = 1 + (i + j)
    OBVIOUS
  <2>3. PICK m, n \in Nat : m = tlsEdits + faults /\ n = tlsEdits' + faults'
    BY <1>1, <2>1, <2>2
  <2>4. certs' = certs /\ m < n /\ 1 + tlsEdits' + faults' = 1 + n
    BY <2>3, <2>1, <2>2
  <2>5. certs <= 1 + m
    BY <1>1, <2>3 DEF CertificateInv
  <2>6. \A p \in Order : Solving(p)' => certs <= m
    BY <1>1, <1>3, <2>3 DEF Undoing, CertificateInv
  <2>7. certs' <= n /\ certs' <= 1 + n
    BY <1>1, <2>3, <2>4, <2>5
  <2>8. \A p \in Order : Solving(p)' => certs' < n
    BY <1>1, <2>3, <2>4, <2>6
  <2>9. n = tlsEdits' + faults' /\ certs' <= 1 + tlsEdits' + faults'
    BY <2>3, <2>4, <2>7
  <2> QED
    BY <2>7, <2>8, <2>9 DEF CertificateInv
<1> QED
    BY <1>2, <1>3

\* Under the lock one order gets a certificate and installs it before the next looks.
LEMMA CertificatesKept == Inv /\ [Next]_vars => CertificateInv'
<1> SUFFICES ASSUME Inv, [Next]_vars PROVE CertificateInv'
    OBVIOUS
<1>1. TypeOK /\ LockInv /\ CertificateInv
    BY DEF Inv
<1>2. certs \in Nat /\ tlsEdits \in Nat /\ faults \in Nat
    BY <1>1, AcmeAssumption DEF TypeOK
<1>3. ASSUME Quiet PROVE CertificateInv'
    BY <1>1, <1>3, CertificateSteps
<1>4. ASSUME Undoing PROVE CertificateInv'
    BY <1>1, <1>4, CertificateSteps
<1> USE DEF management, ghosts, Solving
<1>5. CASE GetHTTP
    BY <1>3, <1>5 DEF GetHTTP, Quiet
<1>6. ASSUME NEW tokens \in {{}, draft}, PutHTTP(tokens) PROVE CertificateInv'
    BY <1>1, <1>3, <1>6, PutHTTPStarts DEF PutHTTP, EditHTTP, Quiet
<1>7. ASSUME NEW tokens \in {{}, draft}, FailPutHTTP(tokens) PROVE CertificateInv'
    BY <1>2, <1>4, <1>7 DEF FailPutHTTP, EditHTTP, Fault, Undoing
<1>8. ASSUME NEW kind \in {"passthrough", "terminate", "https"}, NEW cert \in {"none", "good"},
             PutTLS(kind, cert) \/ FailPutTLS(kind, cert)
      PROVE  CertificateInv'
    BY <1>2, <1>4, <1>8 DEF PutTLS, FailPutTLS, EditTLS, Fault, Undoing
<1>9. ASSUME NEW o \in Order, SaveRequest(o) PROVE CertificateInv'
    BY <1>1, <1>3, <1>9 DEF SaveRequest, Goto, Quiet, TypeOK
<1>10. ASSUME NEW o \in Order, Lock(o) PROVE CertificateInv'
    BY <1>1, <1>3, <1>10 DEF Lock, Goto, Quiet, TypeOK
<1>11. ASSUME NEW o \in Order, Recognised(o) PROVE CertificateInv'
    BY <1>1, <1>3, <1>11 DEF Recognised, Goto, Quiet, TypeOK
<1>12. ASSUME NEW o \in Order, ReadForPresent(o) PROVE CertificateInv'
    BY <1>1, <1>3, <1>12 DEF ReadForPresent, Goto, Refused, Quiet, TypeOK
<1>13. ASSUME NEW o \in Order, Present(o) PROVE CertificateInv'
    BY <1>1, <1>3, <1>13 DEF Present, Goto, Quiet, TypeOK
<1>14. ASSUME NEW o \in Order, SaveState(o) PROVE CertificateInv'
    BY <1>1, <1>3, <1>14 DEF SaveState, Goto, Quiet, TypeOK
<1>15. ASSUME NEW o \in Order, NEW ok \in BOOLEAN, Solve(o, ok) PROVE CertificateInv'
    BY <1>1, <1>3, <1>15 DEF Solve, Goto, Quiet, TypeOK
<1>16. ASSUME NEW o \in Order, ReadForCleanup(o) PROVE CertificateInv'
    BY <1>1, <1>3, <1>16 DEF ReadForCleanup, Goto, Quiet, TypeOK
<1>17. ASSUME NEW o \in Order, Cleanup(o) PROVE CertificateInv'
    BY <1>1, <1>3, <1>17 DEF Cleanup, Goto, Quiet, TypeOK
<1>18. ASSUME NEW o \in Order, DeleteState(o) PROVE CertificateInv'
    BY <1>1, <1>3, <1>18 DEF DeleteState, Goto, Quiet, TypeOK
<1>19. ASSUME NEW o \in Order, Settle(o) PROVE CertificateInv'
    BY <1>1, <1>3, <1>19 DEF Settle, Goto, Quiet, TypeOK
<1>20. ASSUME NEW o \in Order, FailOrder(o) PROVE CertificateInv'
  <2>1. certs' = certs /\ tlsEdits' = tlsEdits /\ faults' = faults + 1
    BY <1>20 DEF FailOrder, Fault
  <2>2. CASE order[o].pc \in {"ordering", "presenting", "presented"} /\ order' = Refused(o)
    <3>1. \A p \in Order : Solving(p)' => Solving(p)
      BY <1>1, <2>2 DEF Refused, TypeOK
    <3> QED
      BY <1>2, <1>4, <2>1, <3>1 DEF Undoing
  <2>3. CASE order' = [order EXCEPT ![o].pc = "settling", ![o].ok = FALSE, ![o].current = NoTLS]
    <3>1. \A p \in Order : Solving(p)' => Solving(p)
      BY <1>1, <2>3 DEF TypeOK
    <3> QED
      BY <1>2, <1>4, <2>1, <3>1 DEF Undoing
  <2> QED
    BY <1>20, <2>2, <2>3 DEF FailOrder
<1>21. ASSUME NEW o \in Order, FailCleanup(o) PROVE CertificateInv'
    BY <1>1, <1>2, <1>4, <1>21 DEF FailCleanup, Goto, Fault, Undoing, TypeOK
<1>22. ASSUME NEW o \in Order, Abandon(o) PROVE CertificateInv'
    BY <1>1, <1>2, <1>4, <1>22 DEF Abandon, Goto, Fault, Undoing, TypeOK
<1>23. CASE Crash
  <2>1. \A p \in Order : ~Solving(p)'
    BY <1>1, <1>23, CrashEnds DEF Active
  <2> QED
    BY <1>2, <1>4, <1>23, <2>1, CrashKeeps DEF Undoing
<1>24. ASSUME NEW o \in Order, Check(o) PROVE CertificateInv'
  <2>1. UNCHANGED <<certs, tlsEdits, faults, tls>> /\ order[o].pc = "checking"
    BY <1>24 DEF Check
  <2>2. \A p \in Order \ {o} : ~Critical(p)
    BY <1>1, <2>1 DEF LockInv, Critical
  <2>3. \A p \in Order : order[p].pc \notin {"issued", "installing"}
    BY <2>1, <2>2 DEF Critical
  <2>4. CASE order' = [order EXCEPT ![o].pc = "done"]
    <3>1. \A p \in Order : ~Solving(p)'
      BY <1>1, <2>2, <2>4 DEF Critical, TypeOK
    <3> QED
      BY <1>1, <1>2, <2>1, <2>3, <3>1 DEF CertificateInv, HasCertificate
  <2>5. CASE tls # Torn /\ ~HasCertificate
    <3>1. certs <= tlsEdits + faults
      BY <1>1, <2>3, <2>5 DEF CertificateInv
    <3> QED
      BY <1>1, <1>2, <2>1, <2>5, <3>1 DEF CertificateInv
  <2> QED
    BY <1>24, <2>4, <2>5 DEF Check, Goto
<1>25. ASSUME NEW o \in Order, Finalize(o) PROVE CertificateInv'
  <2>1. /\ UNCHANGED <<tlsEdits, faults, tls>>
        /\ \A p \in Order \ {o} : order'[p] = order[p]
        /\ order[o].pc = "finalizing"
        /\ \/ order'[o].pc = "issued" /\ certs' = certs + 1
           \/ order'[o].pc = "settling" /\ certs' = certs
    BY <1>1, <1>25 DEF Finalize, Goto, TypeOK
  <2>2. \A p \in Order : ~Solving(p)'
    BY <1>1, <2>1 DEF LockInv, Critical
  <2>3. certs <= tlsEdits + faults /\ (tls = Torn => certs < tlsEdits + faults)
    BY <1>1, <2>1 DEF CertificateInv
  <2> QED
    BY <1>2, <2>1, <2>2, <2>3 DEF CertificateInv
<1>26. ASSUME NEW o \in Order, ReadTLS(o) PROVE CertificateInv'
  <2>1. /\ UNCHANGED <<certs, tlsEdits, faults, tls>>
        /\ \A p \in Order \ {o} : order'[p] = order[p]
        /\ order[o].pc = "issued"
        /\ order'[o].pc = IF tls = Torn THEN "settling" ELSE "installing"
    BY <1>1, <1>26 DEF ReadTLS, TypeOK
  <2> QED
    BY <1>1, <1>2, <2>1 DEF CertificateInv, HasCertificate
<1>27. ASSUME NEW o \in Order, Install(o) PROVE CertificateInv'
  <2>1. /\ UNCHANGED <<certs, tlsEdits, faults>>
        /\ \A p \in Order \ {o} : order'[p] = order[p]
        /\ order'[o].pc = "settling"
        /\ tls' = WithCertificate(order[o].current)
    BY <1>1, <1>27 DEF Install, TypeOK
  <2>2. tls' \in TLSRoute /\ tls'.cert = "good"
    BY <1>1, <2>1, CertificateType DEF TypeOK, Goroutine, WithCertificate
  <2>3. tls' # Torn
    BY <2>2, TornAssumption
  <2> QED
    BY <1>1, <1>2, <2>1, <2>2, <2>3 DEF CertificateInv, HasCertificate
<1>28. CASE UNCHANGED vars
    BY <1>3, <1>28 DEF vars, Quiet
<1> QED
    BY <1>5, <1>6, <1>7, <1>8, <1>9, <1>10, <1>11, <1>12, <1>13, <1>14, <1>15, <1>16, <1>17,
       <1>18, <1>19, <1>20, <1>21, <1>22, <1>23, <1>24, <1>25, <1>26, <1>27, <1>28
       DEF Next, OrderStep, CAStep

\* Whoever ends an order writes the outcome, or has abandoned it.
LEMMA PendingKept == Inv /\ [Next]_vars => PendingHasOrder'
<1> SUFFICES ASSUME Inv, [Next]_vars PROVE PendingHasOrder'
    OBVIOUS
<1> USE TornAssumption DEF Inv, management, ghosts,
        TypeOK, Goroutine, Route, TLSRoute, PendingHasOrder, Active
<1>1. CASE GetHTTP
    BY <1>1 DEF GetHTTP
<1>2. ASSUME NEW tokens \in {{}, draft}, PutHTTP(tokens) PROVE PendingHasOrder'
    BY <1>2 DEF PutHTTP, EditHTTP, HoldsRoute
<1>3. ASSUME NEW tokens \in {{}, draft}, FailPutHTTP(tokens) PROVE PendingHasOrder'
    BY <1>3 DEF FailPutHTTP, EditHTTP, Fault
<1>4. ASSUME NEW kind \in {"passthrough", "terminate", "https"}, NEW cert \in {"none", "good"},
        PutTLS(kind, cert)
      PROVE  PendingHasOrder'
    BY <1>4 DEF PutTLS, EditTLS, HoldsTLS
<1>5. ASSUME NEW kind \in {"passthrough", "terminate", "https"}, NEW cert \in {"none", "good"},
             FailPutTLS(kind, cert)
      PROVE  PendingHasOrder'
    BY <1>5 DEF FailPutTLS, EditTLS, Fault
<1>6. ASSUME NEW o \in Order, SaveRequest(o) PROVE PendingHasOrder'
    BY <1>6 DEF SaveRequest, Goto
<1>7. ASSUME NEW o \in Order, Lock(o) PROVE PendingHasOrder'
    BY <1>7 DEF Lock, Goto
<1>8. ASSUME NEW o \in Order, Check(o) PROVE PendingHasOrder'
    BY <1>8 DEF Check, HasCertificate, Goto
<1>9. ASSUME NEW o \in Order, Recognised(o) PROVE PendingHasOrder'
    BY <1>9 DEF Recognised, Goto
<1>10. ASSUME NEW o \in Order, ReadForPresent(o) PROVE PendingHasOrder'
    BY <1>10 DEF ReadForPresent, Refused, Goto
<1>11. ASSUME NEW o \in Order, Present(o) PROVE PendingHasOrder'
    BY <1>11 DEF Present, Goto, WithChallenge
<1>12. ASSUME NEW o \in Order, SaveState(o) PROVE PendingHasOrder'
    BY <1>12 DEF SaveState, Goto
<1>13. ASSUME NEW o \in Order, NEW ok \in BOOLEAN, Solve(o, ok) PROVE PendingHasOrder'
    BY <1>13 DEF Solve, Goto
<1>14. ASSUME NEW o \in Order, ReadForCleanup(o) PROVE PendingHasOrder'
    BY <1>14 DEF ReadForCleanup, Goto
<1>15. ASSUME NEW o \in Order, Cleanup(o) PROVE PendingHasOrder'
    BY <1>15 DEF Cleanup, Goto, WithoutChallenge
<1>16. ASSUME NEW o \in Order, DeleteState(o) PROVE PendingHasOrder'
    BY <1>16 DEF DeleteState, Goto
<1>17. ASSUME NEW o \in Order, Finalize(o) PROVE PendingHasOrder'
    BY <1>17 DEF Finalize, Goto
<1>18. ASSUME NEW o \in Order, ReadTLS(o) PROVE PendingHasOrder'
    BY <1>18 DEF ReadTLS, Goto
<1>19. ASSUME NEW o \in Order, Install(o) PROVE PendingHasOrder'
    BY <1>19 DEF Install, Goto, WithCertificate
<1>20. ASSUME NEW o \in Order, Settle(o) PROVE PendingHasOrder'
    BY <1>20 DEF Settle, Goto
<1>21. ASSUME NEW o \in Order, FailOrder(o) PROVE PendingHasOrder'
    BY <1>21 DEF FailOrder, Refused, CutHTTP, CutTLS, HoldsTLS, Goto, Fault, WithChallenge, WithCertificate
<1>22. ASSUME NEW o \in Order, FailCleanup(o) PROVE PendingHasOrder'
    BY <1>22 DEF FailCleanup, CutHTTP, Goto, Fault, WithoutChallenge
<1>23. ASSUME NEW o \in Order, Abandon(o) PROVE PendingHasOrder'
    BY <1>23 DEF Abandon, Goto, Fault
<1>24. CASE Crash
    BY <1>24 DEF Crash, CutHTTP, CutTLS, HoldsTLS, Fault, Active
<1>25. CASE UNCHANGED vars
    BY <1>25 DEF vars
<1> QED
    BY <1>1, <1>2, <1>3, <1>4, <1>5, <1>6, <1>7, <1>8, <1>9, <1>10, <1>11, <1>12, <1>13, <1>14,
       <1>15, <1>16, <1>17, <1>18, <1>19, <1>20, <1>21, <1>22, <1>23, <1>24, <1>25
       DEF Next, OrderStep, CAStep

----------------------------------------------------------------------------
\* The inductive invariant.
THEOREM AcmeInv == Spec => []Inv
<1>1. Inv /\ [Next]_vars => Inv'
    BY TypeKept, LockKept, ChallengesKept, CopyKept, RoutesKept, CertificatesKept, PendingKept
       DEF Inv
<1> QED
    BY <1>1, InitInv, PTL DEF Spec

\* Type correctness of certificate issuing.
THEOREM AcmeTyping == Spec => []TypeOK
<1>1. Inv => TypeOK
    BY DEF Inv
<1> QED
    BY <1>1, AcmeInv, PTL

\* No challenge policy and no state file outlives its order, but for faults and for
\* browsers that put a challenge they had read.
THEOREM AcmeChallenges == Spec => []ChallengesOwned
<1>1. Inv => ChallengesOwned
    BY DEF Inv
<1> QED
    BY <1>1, AcmeInv, PTL

\* Present and Cleanup keep the policies of the last edit, but for one put between
\* their read and their publish.
THEOREM AcmeEdits == Spec => []EditsKept
<1>1. Inv => EditsKept
    BY DEF Inv
<1> QED
    BY <1>1, AcmeInv, PTL

\* Installing a certificate keeps the backend of the last TLS edit likewise.
THEOREM AcmeTLSEdits == Spec => []TLSEditsKept
<1>1. Inv => TLSEditsKept
    BY DEF Inv
<1> QED
    BY <1>1, AcmeInv, PTL

\* Any number of orders of a hostname obtain one certificate, one more for each time
\* the TLS route is replaced or a fault happens.
THEOREM AcmeOneCertificate == Spec => []OneCertificate
<1>1. Inv => OneCertificate
    BY DEF Inv, CertificateInv, OneCertificate
<1> QED
    BY <1>1, AcmeInv, PTL

\* No request stays pending without an order that runs, unless one was abandoned.
THEOREM AcmePending == Spec => []PendingHasOrder
<1>1. Inv => PendingHasOrder
    BY DEF Inv
<1> QED
    BY <1>1, AcmeInv, PTL

=============================================================================
