----------------------------- MODULE ZoneFiles -----------------------------
(***************************************************************************)
(* The zone files of an edge node: the agent replaces them                 *)
(* (operator/agent/agent.go) while the DNS and ingress engines look for    *)
(* the closest zone of a name among them, one file after the other, with   *)
(* no lock between the two (DNS/zone.go, DNS/dns.go, ingress/zone.go,      *)
(* ingress/engine_http.go, ingress/engine_tls.go).                         *)
(*                                                                         *)
(* A name is the sequence of its labels, lower case, without the root.     *)
(***************************************************************************)
EXTENDS Integers, Sequences

CONSTANTS
    Label,      \* labels of names
    Wild,       \* the label that stands for others
    Client,     \* lookups, each of which happens once
    Names,      \* names of zone files, and names that are looked up
    Contents,   \* what a zone file may hold
    Changes,    \* changes the agent may apply
    Bad,        \* the content that cannot be decoded
    Absent,     \* no file
    None,       \* no lookup, no change
    MaxWrites   \* bound: changes applied

Kinds == {"dns", "tls", "http"}

\* The zones that may answer for a name, in the order they are tried.  A DNS zone
\* answers for all names below it; a route is for one name, or a wildcard for all
\* names below its parent.
DNSCandidates(name) == [i \in 1..Len(name) |-> SubSeq(name, i, Len(name))]

IngressCandidates(name) ==
    [i \in 1..Len(name) |-> IF i = 1 THEN name ELSE <<Wild>> \o SubSeq(name, i, Len(name))]

CandidateZones(kind, name) ==
    IF kind = "dns" THEN DNSCandidates(name) ELSE IngressCandidates(name)

\* pos: candidate that is opened next, or was found.
Walk == [kind : Kinds, name : Names, pos : Nat \ {0},
         status : {"opening", "found", "missing", "failed"}, zone : Contents \cup {Absent}]

\* Names has every zone that is looked for.
ASSUME NamesAssumption ==
    /\ Wild \in Label
    /\ \A n \in Names : n \in Seq(Label) /\ n # <<>>
    /\ \A kind \in Kinds : \A n \in Names :
            \A i \in 1..Len(n) : CandidateZones(kind, n)[i] \in Names

ASSUME ContentsAssumption ==
    /\ Changes \subseteq [kind : Kinds, name : Names, content : Contents]
    /\ Bad \in Contents /\ Absent \notin Contents
    /\ None \notin Changes /\ None \notin Walk
    /\ MaxWrites \in Nat

VARIABLES
    files,      \* per kind and name: the zone file
    writer,     \* the change whose old file the agent has removed
    walk,       \* per client: the search for its zone
    writes,     \* changes begun
    gone        \* ghost: zones that were not there at some moment of the search

vars == <<files, writer, walk, writes, gone>>

FilesTyped ==
    /\ files \in [Kinds -> [Names -> Contents \cup {Absent}]]
    /\ writer \in Changes \cup {None}
    /\ writes \in 0..MaxWrites

WalksTyped ==
    /\ walk \in [Client -> Walk \cup {None}]
    /\ gone \in [Client -> SUBSET Names]

FilesInit ==
    /\ files = [kind \in Kinds |-> [n \in Names |-> Absent]]
    /\ writer = None
    /\ walk = [c \in Client |-> None]
    /\ writes = 0
    /\ gone = [c \in Client |-> {}]

----------------------------------------------------------------------------
\* The agent's writeAtomically.

Opening(c) == walk[c] # None /\ walk[c].status = "opening"

\* The temporary file is written, the old zone file is removed.
Remove(change) ==
    /\ writer = None
    /\ writes < MaxWrites
    /\ writes' = writes + 1
    /\ writer' = change
    /\ files' = [files EXCEPT ![change.kind][change.name] = Absent]
    /\ gone' = [c \in Client |->
            IF Opening(c) /\ walk[c].kind = change.kind THEN gone[c] \cup {change.name}
            ELSE gone[c]]
    /\ UNCHANGED walk

\* The temporary file takes its place.
Rename ==
    /\ writer # None
    /\ files' = [files EXCEPT ![writer.kind][writer.name] = writer.content]
    /\ writer' = None
    /\ UNCHANGED <<walk, writes, gone>>

\* The rename fails, or the agent dies first: the file stays away until the change
\* comes again.
RenameFails ==
    /\ writer # None
    /\ writer' = None
    /\ UNCHANGED <<files, walk, writes, gone>>

----------------------------------------------------------------------------
\* The engines.

StartWalk(c, kind, name) ==
    /\ walk[c] = None
    /\ walk' = [walk EXCEPT ![c] = [kind |-> kind, name |-> name, pos |-> 1,
                                    status |-> "opening", zone |-> Absent]]
    /\ gone' = [gone EXCEPT ![c] = {n \in Names : files[kind][n] = Absent}]
    /\ UNCHANGED <<files, writer, writes>>

\* Where the search stands after a look at the file of its candidate.
BugFirstFileOnly(w, file) ==
    CASE file = Absent -> [w EXCEPT !.status = "missing"]
      [] file = Bad -> [w EXCEPT !.status = "failed"]
      [] OTHER -> [w EXCEPT !.status = "found", !.zone = file]

AfterOpen(w, file) ==
    CASE file = Absent /\ w.pos = Len(w.name) -> [w EXCEPT !.status = "missing"]
      [] file = Absent /\ w.pos < Len(w.name) -> [w EXCEPT !.pos = w.pos + 1]
      [] file = Bad -> [w EXCEPT !.status = "failed"]
      [] OTHER -> [w EXCEPT !.status = "found", !.zone = file]

\* The next candidate is opened, and decoded if it is there.  What is open stays
\* as it was: a file is replaced, never written again.
OpenZone(c) ==
    /\ Opening(c)
    /\ LET w == walk[c]
           zone == CandidateZones(w.kind, w.name)[w.pos]
       IN walk' = [walk EXCEPT ![c] = AfterOpen(w, files[w.kind][zone])]
    /\ UNCHANGED <<files, writer, writes, gone>>

\* A file that is there cannot be opened or read, as often as that is tried.
OpenFails(c) ==
    /\ Opening(c)
    /\ LET w == walk[c]
       IN files[w.kind][CandidateZones(w.kind, w.name)[w.pos]] # Absent
    /\ walk' = [walk EXCEPT ![c].status = "failed"]
    /\ UNCHANGED <<files, writer, writes, gone>>

----------------------------------------------------------------------------
\* What the search is for, apart from how it is done.

IsSuffix(m, n) ==
    /\ Len(m) <= Len(n)
    /\ \A j \in 1..Len(m) : m[j] = n[Len(n) - Len(m) + j]

\* The zones responsible for a name.
Responsible(kind, name) ==
    {m \in Names :
        IF kind = "dns"
        THEN IsSuffix(m, name)
        ELSE m = name \/ (Len(m) <= Len(name) /\ Len(m) > 1 /\ m[1] = Wild
                          /\ IsSuffix(Tail(m), name))}

\* m is more specific than n: the name itself comes first, then the longer one.
Closer(m, n, name) == n # name /\ (m = name \/ Len(m) > Len(n))

\* The zone found is one of those responsible for the name, and each closer one was
\* not there at some moment of the search; so was each of them when none is found.
\* A zone that is there throughout is never missed, whatever the agent replaces.
ClosestZone ==
    \A c \in Client :
        walk[c] # None =>
            LET w == walk[c]
                zones == Responsible(w.kind, w.name)
                at == CandidateZones(w.kind, w.name)[w.pos]
            IN /\ w.status = "found" =>
                    at \in zones /\ \A m \in zones : Closer(m, at, w.name) => m \in gone[c]
               /\ w.status = "missing" => zones \subseteq gone[c]

=============================================================================
