--------------------------- MODULE MCReplication ---------------------------
(***************************************************************************)
(* Replication on small instances: the sets of model values, and their     *)
(* symmetry.  Liveness runs do not use the symmetry.  Two of the hostnames *)
(* are spellings of one name.                                              *)
(***************************************************************************)
EXTENDS Replication, TLC

CONSTANTS app, appDot, other, appZone, otherZone, p1, p2, a1, c1, c2, c3

OneKey == {app}
OneName == {app, appDot}
TwoNames == {app, appDot, other}
OneObject == {appZone}
TwoObjects == {appZone, otherZone}
NameOf(keys) == [k \in keys |-> IF k = other THEN otherZone ELSE appZone]
ObjectOfKey == NameOf(OneKey)
ObjectOfName == NameOf(OneName)
ObjectOfNames == NameOf(TwoNames)
OnePublisher == {p1}
TwoPublishers == {p1, p2}
OneAgent == {a1}
TwoCalls == {c1, c2}
ThreeCalls == {c1, c2, c3}

Symmetric ==
    Permutations(OneName) \cup Permutations(Publisher) \cup Permutations(Call)

\* For two publishes the symmetry of publishers and names is broken instead, which is
\* faster: a publisher at rest is like any other, so p1 makes the first publish and p2
\* the second; names are alike until one is published, and a name of which one spelling
\* is used is like one that has no other, so the first publish is of app.
Renamed ==
    /\ publisher[p1] # M!Done => publisher[p1].val = 1 /\ publisher[p1].key = app
    /\ publisher[p2] # M!Done => publisher[p2].val = 2

CallsAlike == Permutations(Call)

=============================================================================
