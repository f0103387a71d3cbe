--------------------------- MODULE DeliveryProofs ---------------------------
(***************************************************************************)
(* Proofs about Replication, for every number of keys, publishers, agents  *)
(* and calls and every size of the buffers: what is on its way to an agent *)
(* has its type and order, and nothing that an agent has passed is lost,   *)
(* stale or taken back.                                                    *)
(***************************************************************************)
EXTENDS ReplicationProofs, FiniteSetTheorems, FunctionTheorems

----------------------------------------------------------------------------
\* What a replay is made of.

LEMMA SameCardinality == \A S : M!Cardinality(S) = Cardinality(S)
BY DEF M!Cardinality, Cardinality

\* InOrder lists each number of a finite set once, in ascending order.
LEMMA InOrderProperties ==
    ASSUME NEW S \in SUBSET Nat, IsFiniteSet(S)
    PROVE  /\ M!InOrder(S) \in Seq(S)
           /\ Len(M!InOrder(S)) = Cardinality(S)
           /\ \A x \in S : \E n \in 1..Cardinality(S) : M!InOrder(S)[n] = x
           /\ \A m, n \in 1..Cardinality(S) : m < n => M!InOrder(S)[m] < M!InOrder(S)[n]
<1> DEFINE Below(i) == {j \in S : j <= i}
           N == Cardinality(S)
           rank == [i \in S |-> Cardinality(Below(i))]
<1>1. N \in Nat
    BY FS_CardinalityType
<1>2. \A i \in S : IsFiniteSet(Below(i)) /\ Cardinality(Below(i)) \in 1..N
    <2> SUFFICES ASSUME NEW i \in S
                 PROVE  IsFiniteSet(Below(i)) /\ Cardinality(Below(i)) \in 1..N
        OBVIOUS
    <2>1. IsFiniteSet(Below(i)) /\ Cardinality(Below(i)) <= N
        <3>1. Below(i) \in SUBSET S
            OBVIOUS
        <3> QED
            BY <3>1, FS_Subset
    <2>2. i \in Below(i)
        OBVIOUS
    <2>3. Cardinality(Below(i)) \in Nat
        BY <2>1, FS_CardinalityType
    <2>4. Cardinality(Below(i)) # 0
        BY <2>1, <2>2, FS_EmptySet
    <2> HIDE DEF Below, N
    <2> QED
        BY <1>1, <2>1, <2>3, <2>4
<1>3. ASSUME NEW i \in S, NEW k \in S, i < k
      PROVE  Cardinality(Below(i)) < Cardinality(Below(k))
    <2>1. Below(i) \in SUBSET Below(k) /\ k \in Below(k) /\ k \notin Below(i)
        <3>1. \A j \in S : j <= i => j <= k
            BY <1>3
        <3>2. k <= k /\ ~(k <= i)
            BY <1>3
        <3> QED
            BY <3>1, <3>2
    <2>2. /\ Cardinality(Below(i)) <= Cardinality(Below(k))
          /\ Cardinality(Below(k)) = Cardinality(Below(i)) => Below(k) = Below(i)
        <3>1. IsFiniteSet(Below(k))
            BY <1>2
        <3> HIDE DEF Below
        <3> QED
            BY <2>1, <3>1, FS_Subset
    <2>3. Cardinality(Below(i)) \in Nat /\ Cardinality(Below(k)) \in Nat
        BY <1>2
    <2>4. Below(k) # Below(i)
        BY <2>1
    <2> HIDE DEF Below
    <2> QED
        BY <2>2, <2>3, <2>4
<1> HIDE DEF N
<1>4. rank \in [S -> 1..N] /\ \A i \in S : rank[i] = Cardinality(Below(i))
    BY <1>2
<1> HIDE DEF rank
<1>5. \A i, k \in S : i # k => rank[i] # rank[k]
    <2> SUFFICES ASSUME NEW i \in S, NEW k \in S, i # k PROVE rank[i] # rank[k]
        OBVIOUS
    <2>1. i < k \/ k < i
        OBVIOUS
    <2>2. rank[i] \in Nat /\ rank[k] \in Nat
        BY <1>1, <1>4
    <2>3. rank[i] < rank[k] \/ rank[k] < rank[i]
        BY <1>3, <1>4, <2>1
    <2> QED
        BY <2>2, <2>3
<1>6. \A n \in 1..N : \E i \in S : rank[i] = n
    <2>1. rank \in Injection(S, 1..N)
        BY <1>4, <1>5 DEF Injection, IsInjective
    <2>2. IsFiniteSet(1..N) /\ Cardinality(1..N) = N
        BY <1>1, FS_Interval
    <2>3. rank \in Surjection(S, 1..N)
        BY <2>1, <2>2, FS_Injection DEF N
    <2> QED
        BY <2>3 DEF Surjection
<1> DEFINE s == M!InOrder(S)
<1>7. s = [n \in 1..N |-> CHOOSE i \in S : M!Cardinality(Below(i)) = n]
    <2>1. s = [n \in 1..M!Cardinality(S) |-> CHOOSE i \in S : M!Cardinality(Below(i)) = n]
        BY DEF M!InOrder
    <2>2. M!Cardinality(S) = N
        BY SameCardinality DEF N
    <2> HIDE DEF s, Below
    <2> QED
        BY <2>1, <2>2
<1>8. \A n \in 1..N : s[n] \in S /\ rank[s[n]] = n
    <2> SUFFICES ASSUME NEW n \in 1..N PROVE s[n] \in S /\ rank[s[n]] = n
        OBVIOUS
    <2>1. s[n] = CHOOSE i \in S : M!Cardinality(Below(i)) = n
        BY <1>7
    <2>2. \A i \in S : M!Cardinality(Below(i)) = rank[i]
        BY <1>4, SameCardinality
    <2> HIDE DEF s, Below
    <2>3. \E i \in S : M!Cardinality(Below(i)) = n
        BY <1>6, <2>2
    <2>4. s[n] \in S /\ M!Cardinality(Below(s[n])) = n
        BY <2>1, <2>3
    <2> QED
        BY <2>2, <2>4
<1>9. s \in Seq(S) /\ Len(s) = N
    <2> HIDE DEF Below
    <2>1. s \in [1..N -> S]
        BY <1>7, <1>8
    <2> HIDE DEF s
    <2> QED
        BY <1>1, <2>1, IsASeq
<1> HIDE DEF s
<1>10. ASSUME NEW x \in S PROVE \E n \in 1..N : s[n] = x
    <2>1. rank[x] \in 1..N
        BY <1>4
    <2> QED
        BY <1>5, <1>8, <2>1
<1>11. ASSUME NEW m \in 1..N, NEW n \in 1..N, m < n PROVE s[m] < s[n]
    <2>1. s[m] \in S /\ s[n] \in S /\ rank[s[m]] = m /\ rank[s[n]] = n
        BY <1>8
    <2>2. s[n] < s[m] => n < m
        BY <1>3, <1>4, <2>1
    <2>3. s[m] \in Nat /\ s[n] \in Nat /\ s[m] # s[n]
        <3>1. m # n
            BY <1>1, <1>11
        <3> QED
            BY <2>1, <3>1
    <2>4. ~(s[n] < s[m])
        BY <1>1, <1>11, <2>2
    <2> QED
        BY <2>3, <2>4
<1> QED
    BY <1>9, <1>10, <1>11 DEF N, s

\* What FileWAL.Since reads: the changes on top after v, each with the content the
\* store has now, oldest first, without the keys that cannot be read.
IsRecovery(s, v, unreadable) ==
    /\ s \in Seq(M!Envelope)
    /\ \A n \in 1..Len(s) :
        /\ s[n].tier = "RECOVER" /\ s[n].index > v /\ s[n].key \in Key \ unreadable
        /\ s[n].index = top[s[n].key] /\ s[n].val = store[objectKey[s[n].key]]
    /\ \A m, n \in 1..Len(s) : m < n => s[m].index < s[n].index
    /\ \A k \in Key \ unreadable : top[k] > v => \E n \in 1..Len(s) : s[n].index = top[k]

LEMMA SinceIsRecovery ==
    ASSUME top \in [Key -> 0..latest], latest \in 0..MaxPublish, store \in [Object -> M!Content],
           \A k, h \in Key : top[k] # 0 /\ top[k] = top[h] => k = h,
           NEW v \in Nat, NEW unreadable \in SUBSET Key
    PROVE  IsRecovery(M!Since(v, unreadable), v, unreadable)
<1> DEFINE S == M!OntopAfter(v, unreadable)
           indexes == M!InOrder(S)
           s == M!Since(v, unreadable)
<1>1. S = {top[k] : k \in {h \in Key \ unreadable : top[h] > v}}
    BY DEF M!OntopAfter
<1>2. S \in SUBSET Nat /\ S \subseteq 1..latest
    BY <1>1
<1>3. IsFiniteSet(S)
    <2>1. IsFiniteSet(1..latest)
        BY FS_Interval
    <2> HIDE DEF S
    <2> QED
        BY <1>2, <2>1, FS_Subset
<1>4. /\ indexes \in Seq(S) /\ Len(indexes) = Cardinality(S)
      /\ \A x \in S : \E n \in 1..Len(indexes) : indexes[n] = x
      /\ \A m, n \in 1..Len(indexes) : m < n => indexes[m] < indexes[n]
    <2> HIDE DEF S
    <2> QED
        BY <1>2, <1>3, InOrderProperties
<1>5. s = [n \in DOMAIN indexes |-> M!Recovered(indexes[n])]
    BY DEF M!Since
<1> DEFINE N == Len(indexes)
<1>6. N \in Nat /\ DOMAIN indexes = 1..N
    <2> HIDE DEF indexes, S
    <2> QED
        BY <1>4, LenProperties
<1>7. \A n \in 1..N : indexes[n] \in S
    <2> HIDE DEF indexes, S
    <2> QED
        BY <1>4, ElementOfSeq
<1> HIDE DEF N
<1>8. ASSUME NEW i \in S
      PROVE  LET m == M!Recovered(i)
             IN  /\ m \in M!Envelope /\ m.tier = "RECOVER" /\ m.index = i /\ i > v
                 /\ m.key \in Key \ unreadable /\ top[m.key] = i /\ m.val = store[objectKey[m.key]]
    <2> DEFINE k == CHOOSE h \in Key : top[h] = i
    <2>1. PICK h \in Key \ unreadable : top[h] = i /\ top[h] > v
        BY <1>1, <1>8
    <2>2. k \in Key /\ top[k] = i
        BY <2>1
    <2>3. k = h
        BY <1>2, <1>8, <2>1, <2>2
    <2>4. M!Recovered(i) = [index |-> i, key |-> k, val |-> store[objectKey[k]], tier |-> "RECOVER"]
        BY DEF M!Recovered
    <2>5. i \in M!Index
        <3> HIDE DEF S
        <3>1. i \in 1..latest
            BY <1>2, <1>8
        <3> QED
            BY <3>1, ReplicationAssumption DEF M!Index
    <2>6. store[objectKey[k]] \in M!Content
        BY <2>2, ReplicationAssumption
    <2> HIDE DEF k
    <2> QED
        BY <2>1, <2>2, <2>3, <2>4, <2>5, <2>6 DEF M!Envelope
<1> HIDE DEF s, indexes
<1>9. /\ s = [n \in 1..N |-> M!Recovered(indexes[n])]
      /\ \A n \in 1..N : M!Recovered(indexes[n]) \in M!Envelope
    BY <1>5, <1>6, <1>7, <1>8
<1>10. s \in Seq(M!Envelope) /\ Len(s) = N /\ \A n \in 1..N : s[n] = M!Recovered(indexes[n])
    <2>1. s \in [1..N -> M!Envelope]
        BY <1>9
    <2> QED
        BY <1>6, <1>9, <2>1, IsASeq
<1>11. ASSUME NEW n \in 1..N
       PROVE  /\ s[n].tier = "RECOVER" /\ s[n].index = indexes[n] /\ s[n].index > v
              /\ s[n].key \in Key \ unreadable
              /\ top[s[n].key] = s[n].index /\ s[n].val = store[objectKey[s[n].key]]
    BY <1>7, <1>8, <1>10
<1>12. \A m, n \in 1..N : m < n => s[m].index < s[n].index
    BY <1>4, <1>11 DEF N
<1>13. ASSUME NEW k \in Key \ unreadable, top[k] > v
       PROVE  \E n \in 1..N : s[n].index = top[k]
    <2>1. top[k] \in S
        BY <1>1, <1>13
    <2>2. PICK n \in 1..N : indexes[n] = top[k]
        <3> HIDE DEF S
        <3> QED
            BY <1>4, <2>1 DEF N
    <2> QED
        BY <1>11, <2>2
<1> QED
    BY <1>10, <1>11, <1>12, <1>13 DEF IsRecovery, s

----------------------------------------------------------------------------
\* What is on its way.

Part(t, s) ==
    \E d \in Nat : d + Len(t) <= Len(s) /\ \A i \in 1..Len(t) : t[i] = s[i + d]

LEMMA SentStaysInFlight ==
    ASSUME NEW E, NEW s \in Seq(E), NEW t \in Seq(E), t # <<>>
    PROVE  /\ Append(s, Head(t)) \in Seq(E) /\ Tail(t) \in Seq(E)
           /\ Append(s, Head(t)) \o Tail(t) = s \o t
<1> DEFINE r == Append(s, Head(t))
           u == Tail(t)
<1>1. Len(t) \in Nat \ {0} /\ Len(s) \in Nat
    BY EmptySeq, LenProperties
<1>2. /\ Head(t) \in E /\ Head(t) = t[1] /\ u \in Seq(E) /\ Len(u) = Len(t) - 1
      /\ \A i \in 1..Len(u) : u[i] = t[i + 1]
    BY HeadTailProperties
<1>3. /\ r \in Seq(E) /\ Len(r) = Len(s) + 1 /\ r[Len(s) + 1] = t[1]
      /\ \A i \in 1..Len(s) : r[i] = s[i]
    BY <1>2, AppendProperties
<1> HIDE DEF r, u
<1>4. /\ r \o u \in Seq(E) /\ Len(r \o u) = Len(r) + Len(u)
      /\ \A i \in 1..Len(r) + Len(u) : (r \o u)[i] = IF i <= Len(r) THEN r[i] ELSE u[i - Len(r)]
    BY <1>2, <1>3, ConcatProperties
<1>5. /\ s \o t \in Seq(E) /\ Len(s \o t) = Len(s) + Len(t)
      /\ \A i \in 1..Len(s) + Len(t) : (s \o t)[i] = IF i <= Len(s) THEN s[i] ELSE t[i - Len(s)]
    BY ConcatProperties
<1>6. Len(r \o u) = Len(s \o t)
    BY <1>1, <1>2, <1>3, <1>4, <1>5
<1>7. ASSUME NEW i \in 1..Len(s \o t) PROVE (r \o u)[i] = (s \o t)[i]
    <2>1. i \in 1..Len(r) + Len(u) /\ i \in 1..Len(s) + Len(t) /\ i \in Nat /\ i >= 1
        BY <1>1, <1>4, <1>5, <1>6
    <2>2. CASE i <= Len(s)
        BY <1>1, <1>3, <1>4, <1>5, <2>1, <2>2
    <2>3. CASE i = Len(s) + 1
        BY <1>1, <1>3, <1>4, <1>5, <2>1, <2>3
    <2>4. CASE i > Len(s) + 1
        <3>1. (r \o u)[i] = u[i - Len(r)] /\ (s \o t)[i] = t[i - Len(s)]
            BY <1>1, <1>3, <1>4, <1>5, <2>1, <2>4
        <3>2. i - Len(r) \in 1..Len(u) /\ (i - Len(r)) + 1 = i - Len(s)
            BY <1>1, <1>2, <1>3, <2>1, <2>4
        <3> QED
            BY <1>2, <3>1, <3>2
    <2> QED
        BY <1>1, <2>1, <2>2, <2>3, <2>4
<1>8. r \o u = s \o t
    BY <1>4, <1>5, <1>6, <1>7, SeqEqual
<1> QED
    BY <1>2, <1>3, <1>8 DEF r, u

LEMMA PartsInFlight ==
    ASSUME NEW E, NEW s \in Seq(E), NEW t \in Seq(E)
    PROVE  /\ s \o <<>> = s /\ <<>> \o t = t /\ s \o t \in Seq(E)
           /\ Part(<<>>, s \o t) /\ Part(s, s \o t) /\ Part(t, s \o t)
           /\ Len(s) <= Len(s \o t) /\ \A i \in 1..Len(s) : s[i] = (s \o t)[i]
<1>1. /\ s \o t \in Seq(E) /\ Len(s \o t) = Len(s) + Len(t)
      /\ \A i \in 1..Len(s) + Len(t) : (s \o t)[i] = IF i <= Len(s) THEN s[i] ELSE t[i - Len(s)]
    BY ConcatProperties
<1>2. Len(s) \in Nat /\ Len(t) \in Nat /\ Len(<<>>) = 0
    BY LenProperties, EmptySeq
<1>3. \A i \in 1..Len(s) : s[i] = (s \o t)[i]
    BY <1>1, <1>2
<1>4. Part(s, s \o t)
    <2>1. \A i \in 1..Len(s) : s[i] = (s \o t)[i + 0]
        BY <1>2, <1>3
    <2> QED
        BY <1>1, <1>2, <2>1 DEF Part
<1>5. Part(t, s \o t)
    <2>1. \A i \in 1..Len(t) : t[i] = (s \o t)[i + Len(s)]
        BY <1>1, <1>2
    <2> QED
        BY <1>1, <1>2, <2>1 DEF Part
<1>6. Part(<<>>, s \o t)
    BY <1>1, <1>2 DEF Part
<1> QED
    BY <1>1, <1>2, <1>3, <1>4, <1>5, <1>6, ConcatEmptySeq

LEMMA AppendedInFlight ==
    ASSUME NEW E, NEW s \in Seq(E), NEW t \in Seq(E), NEW e \in E
    PROVE  Append(t, e) \in Seq(E) /\ s \o Append(t, e) = Append(s \o t, e)
<1>1. /\ s \o t \in Seq(E) /\ <<e>> \in Seq(E) /\ Append(t, e) \in Seq(E)
    BY ConcatProperties, AppendProperties
<1>2. Append(t, e) = t \o <<e>> /\ Append(s \o t, e) = (s \o t) \o <<e>>
    BY <1>1, AppendIsConcat
<1> QED
    BY <1>1, <1>2, ConcatAssociative

LEMMA TakenInFlight ==
    ASSUME NEW E, NEW s \in Seq(E), NEW t \in Seq(E), s # <<>>
    PROVE  /\ Tail(s) \in Seq(E) /\ s \o t # <<>> /\ Head(s) = (s \o t)[1] /\ Head(s) \in E
           /\ Tail(s) \o t \in Seq(E) /\ Len(Tail(s) \o t) = Len(s \o t) - 1
           /\ \A i \in 1..Len(Tail(s) \o t) : (Tail(s) \o t)[i] = (s \o t)[i + 1]
<1> DEFINE u == Tail(s)
<1>1. Len(s) \in Nat \ {0} /\ Len(t) \in Nat
    BY EmptySeq, LenProperties
<1>2. /\ Head(s) \in E /\ Head(s) = s[1] /\ u \in Seq(E) /\ Len(u) = Len(s) - 1
      /\ \A i \in 1..Len(u) : u[i] = s[i + 1]
    BY HeadTailProperties
<1> HIDE DEF u
<1>3. /\ u \o t \in Seq(E) /\ Len(u \o t) = Len(u) + Len(t)
      /\ \A i \in 1..Len(u) + Len(t) : (u \o t)[i] = IF i <= Len(u) THEN u[i] ELSE t[i - Len(u)]
    BY <1>2, ConcatProperties
<1>4. /\ s \o t \in Seq(E) /\ Len(s \o t) = Len(s) + Len(t)
      /\ \A i \in 1..Len(s) + Len(t) : (s \o t)[i] = IF i <= Len(s) THEN s[i] ELSE t[i - Len(s)]
    BY ConcatProperties
<1>5. (s \o t)[1] = s[1] /\ s \o t # <<>>
    BY <1>1, <1>4, EmptySeq
<1>6. ASSUME NEW i \in 1..Len(u \o t) PROVE (u \o t)[i] = (s \o t)[i + 1]
    <2>1. i \in 1..Len(u) + Len(t) /\ i + 1 \in 1..Len(s) + Len(t)
        BY <1>1, <1>2, <1>3
    <2>2. CASE i <= Len(u)
        BY <1>1, <1>2, <1>3, <1>4, <2>1, <2>2
    <2>3. CASE i > Len(u)
        <3>1. i - Len(u) = (i + 1) - Len(s) /\ ~(i + 1 <= Len(s))
            BY <1>1, <1>2, <2>1, <2>3
        <3> QED
            BY <1>1, <1>3, <1>4, <2>1, <2>3, <3>1
    <2> QED
        BY <1>1, <1>2, <2>1, <2>2, <2>3
<1> QED
    BY <1>1, <1>2, <1>3, <1>4, <1>5, <1>6 DEF u

----------------------------------------------------------------------------
\* Types of the master.

\* What replacing one file of an agent leaves: a file, or none, per object.
LEMMA FileReplaced ==
    ASSUME NEW S, NEW T, NEW z \in [S -> T], NEW w, NEW f \in T
    PROVE  [z EXCEPT ![w] = f] \in [S -> T]
OBVIOUS

USE ReplicationAssumption

\* Every content was published once and is logged at most once.
ContentsOnce ==
    /\ \A i \in 1..latest : content[i] \in 1..published
    /\ \A i, j \in 1..latest : content[i] = content[j] => i = j
    /\ \A p \in Publisher : publisher[p].pc \in Busy =>
        /\ publisher[p].val \in 1..published
        /\ \A i \in 1..latest : content[i] # publisher[p].val
        /\ \A q \in Publisher :
            (publisher[q].pc \in Busy /\ publisher[q].val = publisher[p].val) => p = q

\* A change on top is on top of one key.
DistinctTops == \A k, h \in Key : top[k] # 0 /\ top[k] = top[h] => k = h

MasterTypes ==
    /\ up \in BOOLEAN /\ store \in [Object -> M!Content]
    /\ published \in 0..MaxPublish /\ faults \in 0..MaxFaults
    /\ raced \subseteq Object /\ failed \subseteq Object /\ torn \subseteq Key
    /\ \A p \in Publisher : publisher[p].pc = "logged" =>
        publisher[p].val \in M!Index /\ publisher[p].index \in M!Index

LogInv == StoreInv /\ ContentsOnce /\ DistinctTops /\ MasterTypes

LEMMA LogInvInit == Init => LogInv
<1> SUFFICES ASSUME Init PROVE LogInv
    OBVIOUS
<1>1. /\ up = TRUE /\ publisher = [p \in Publisher |-> M!Done]
      /\ store = [o \in Object |-> M!Empty] /\ latest = 0 /\ top = [k \in Key |-> 0]
      /\ published = 0 /\ faults = 0 /\ raced = {} /\ failed = {} /\ torn = {}
    BY DEF Init, M!Init
<1>2. \A p \in Publisher : publisher[p].pc = "idle"
    BY <1>1 DEF M!Done
<1>3. ContentsOnce
    BY <1>1, <1>2 DEF ContentsOnce, Busy
<1>4. MasterTypes
    BY <1>1, <1>2 DEF MasterTypes, M!Content, M!Empty
<1>5. DistinctTops
    BY <1>1 DEF DistinctTops
<1> QED
    BY <1>3, <1>4, <1>5, StoreInvInit DEF LogInv

\* As many changes are logged as were published, at most.
LEMMA LatestPublished == LogTyping /\ ContentsOnce => latest <= published
<1> SUFFICES ASSUME LogTyping, ContentsOnce PROVE latest <= published
    OBVIOUS
<1>1. latest \in Nat /\ published \in Nat /\ content \in Seq(Nat) /\ Len(content) = latest
    BY DEF LogTyping
<1> DEFINE f == [i \in 1..latest |-> content[i]]
<1>2. f \in Injection(1..latest, 1..published)
    BY DEF Injection, IsInjective, ContentsOnce
<1>3. /\ IsFiniteSet(1..published) /\ Cardinality(1..published) = published
      /\ Cardinality(1..latest) = latest
    BY <1>1, FS_Interval
<1> HIDE DEF f
<1>4. Cardinality(1..latest) <= Cardinality(1..published)
    BY <1>2, <1>3, FS_Injection
<1> QED
    BY <1>3, <1>4

\* What LogInv says of the types in Coordinator!TypeOK.
LEMMA LogInvTypes ==
    LogInv =>
        /\ up \in BOOLEAN
        /\ publisher \in [Publisher -> {M!Done} \cup
                [pc : {"writing", "stored"}, key : Key, val : M!Index] \cup
                [pc : {"logged"}, key : Key, val : M!Index, index : M!Index]]
        /\ store \in [Object -> M!Content]
        /\ latest \in 0..MaxPublish
        /\ top \in [Key -> 0..MaxPublish]
        /\ published \in 0..MaxPublish /\ faults \in 0..MaxFaults
        /\ content \in [1..latest -> M!Index]
        /\ raced \subseteq Object /\ failed \subseteq Object /\ torn \subseteq Key
<1> SUFFICES ASSUME LogInv PROVE
        /\ publisher \in [Publisher -> {M!Done} \cup
                [pc : {"writing", "stored"}, key : Key, val : M!Index] \cup
                [pc : {"logged"}, key : Key, val : M!Index, index : M!Index]]
        /\ latest \in 0..MaxPublish
        /\ top \in [Key -> 0..MaxPublish]
        /\ content \in [1..latest -> M!Index]
    BY DEF LogInv, MasterTypes
<1>1. LogTyping /\ ContentsOnce /\ published \in 0..MaxPublish
    BY DEF LogInv, StoreInv, MasterTypes
<1>2. latest \in 0..MaxPublish
    BY <1>1, LatestPublished DEF LogTyping
<1>3. top \in [Key -> 0..MaxPublish]
    BY <1>1, <1>2 DEF LogTyping
<1>4. content \in [1..latest -> M!Index]
    <2>1. content \in [1..latest -> Nat]
        BY <1>1, LenProperties DEF LogTyping
    <2>2. \A i \in 1..latest : content[i] \in M!Index
        BY <1>1 DEF ContentsOnce, M!Index
    <2> QED
        BY <2>1, <2>2
<1>5. ASSUME NEW p \in Publisher
      PROVE  publisher[p] \in {M!Done} \cup
                [pc : {"writing", "stored"}, key : Key, val : M!Index] \cup
                [pc : {"logged"}, key : Key, val : M!Index, index : M!Index]
    <2>1. publisher[p] \in PublisherState
        BY <1>1 DEF LogTyping
    <2>2. PICK r \in PublisherState : r = publisher[p]
        BY <2>1
    <2>3. CASE r.pc \in Busy
        <3>1. r.val \in M!Index
            BY <1>1, <2>2, <2>3 DEF ContentsOnce, M!Index
        <3> QED
            BY <2>2, <2>3, <3>1 DEF PublisherState, Busy, M!Done
    <2>4. CASE r.pc = "logged"
        <3>1. r.val \in M!Index /\ r.index \in M!Index
            BY <2>2, <2>4 DEF LogInv, MasterTypes
        <3> QED
            BY <2>2, <2>4, <3>1 DEF PublisherState, Busy, M!Done
    <2>5. CASE r = M!Done
        BY <2>2, <2>5
    <2> QED
        BY <2>3, <2>4, <2>5 DEF PublisherState, Busy
<1>6. publisher \in [Publisher -> {M!Done} \cup
                [pc : {"writing", "stored"}, key : Key, val : M!Index] \cup
                [pc : {"logged"}, key : Key, val : M!Index, index : M!Index]]
    BY <1>1, <1>5 DEF LogTyping
<1> QED
    BY <1>2, <1>3, <1>4, <1>6

\* Steps that start nothing and log nothing.
LEMMA ContentsKept ==
    ASSUME LogInv, UNCHANGED <<latest, content, published>>,
           \A p \in Publisher : publisher'[p].pc \in Busy =>
                publisher[p].pc \in Busy /\ publisher'[p].val = publisher[p].val
    PROVE  ContentsOnce'
BY DEF LogInv, ContentsOnce

LEMMA TopsKept ==
    ASSUME LogInv, \A k \in Key : top'[k] \in {top[k], 0}
    PROVE  DistinctTops'
BY DEF LogInv, DistinctTops

LEMMA StartKeepsLog ==
    ASSUME LogInv, StoreInv', NEW p \in Publisher, NEW k \in Key, M!StartPublish(p, k)
    PROVE  LogInv'
<1> DEFINE new == [pc |-> "writing", key |-> k, val |-> published + 1]
<1>1. /\ published < MaxPublish /\ published' = published + 1
      /\ publisher' = [publisher EXCEPT ![p] = new]
      /\ store' = [store EXCEPT ![objectKey[k]] = M!Empty]
      /\ \E races \in {{}, {objectKey[k]}} : raced' = raced \cup races
      /\ UNCHANGED <<up, latest, top, content, faults, failed, torn>>
    BY DEF M!StartPublish, M!logVars
<1>2. LogTyping /\ MasterTypes /\ ContentsOnce
    BY DEF LogInv, StoreInv
<1>3. new.pc = "writing" /\ new.val = published + 1
    OBVIOUS
<1> HIDE DEF new
<1>4. publisher'[p] = new /\ \A q \in Publisher \ {p} : publisher'[q] = publisher[q]
    BY <1>1, <1>2 DEF LogTyping
<1>5. ContentsOnce'
    BY <1>1, <1>2, <1>3, <1>4 DEF ContentsOnce, Busy, LogTyping
<1>6. MasterTypes'
    <2>1. published' \in 0..MaxPublish /\ raced' \subseteq Object
        BY <1>1, <1>2 DEF MasterTypes
    <2>2. store' \in [Object -> M!Content]
        BY <1>1, <1>2 DEF MasterTypes, M!Content, M!Empty
    <2> QED
        BY <1>1, <1>2, <1>3, <1>4, <2>1, <2>2 DEF MasterTypes, M!Index
<1>7. DistinctTops'
    BY <1>1 DEF LogInv, DistinctTops
<1> QED
    BY <1>5, <1>6, <1>7 DEF LogInv

LEMMA WriteKeepsLog ==
    ASSUME LogInv, StoreInv', NEW p \in Publisher, M!WriteContent(p)
    PROVE  LogInv'
<1>1. /\ publisher[p].pc = "writing" /\ publisher' = [publisher EXCEPT ![p].pc = "stored"]
      /\ \E o, v : v \in {publisher[p].val} \cup {M!Mixed} /\ store' = [store EXCEPT ![o] = v]
      /\ UNCHANGED <<up, latest, top, content, published, faults, raced, failed, torn>>
    BY DEF M!WriteContent, M!logVars, M!ghosts
<1>2. LogTyping /\ MasterTypes /\ ContentsOnce
    BY DEF LogInv, StoreInv
<1>3. PICK r \in [pc : Busy, key : Key, val : Nat] : r = publisher[p]
    BY <1>1, <1>2, BusyPublisher DEF Busy
<1>4. [r EXCEPT !.pc = "stored"].pc = "stored" /\ [r EXCEPT !.pc = "stored"].val = r.val
    OBVIOUS
<1>5. publisher' = [publisher EXCEPT ![p] = [r EXCEPT !.pc = "stored"]]
    BY <1>1, <1>3
<1>6. publisher'[p].pc = "stored" /\ publisher'[p].val = publisher[p].val
    BY <1>2, <1>3, <1>4, <1>5 DEF LogTyping
<1>7. \A q \in Publisher \ {p} : publisher'[q] = publisher[q]
    BY <1>2, <1>5 DEF LogTyping
<1>8. ContentsOnce'
    <2>1. \A q \in Publisher : publisher'[q].pc \in Busy =>
                publisher[q].pc \in Busy /\ publisher'[q].val = publisher[q].val
        BY <1>1, <1>6, <1>7 DEF Busy
    <2> QED
        BY <1>1, <2>1, ContentsKept
<1>9. MasterTypes'
    <2>1. publisher[p].val \in 1..published /\ published <= MaxPublish /\ published \in Nat
        BY <1>1, <1>2 DEF ContentsOnce, Busy, MasterTypes
    <2>2. PICK o, v : v \in {publisher[p].val} \cup {M!Mixed} /\ store' = [store EXCEPT ![o] = v]
        BY <1>1
    <2>3. v \in M!Content
        BY <2>1, <2>2 DEF M!Content, M!Mixed
    <2>4. store' \in [Object -> M!Content]
        BY <1>2, <2>2, <2>3 DEF MasterTypes
    <2> QED
        BY <1>1, <1>2, <1>6, <1>7, <2>4 DEF MasterTypes
<1>10. DistinctTops'
    BY <1>1 DEF LogInv, DistinctTops
<1> QED
    BY <1>8, <1>9, <1>10 DEF LogInv

LEMMA LogChangeKeepsLog ==
    ASSUME LogInv, StoreInv', NEW p \in Publisher, M!LogChange(p)
    PROVE  LogInv'
<1> DEFINE k == publisher[p].key
           v == publisher[p].val
           new == [pc |-> "logged", key |-> k, val |-> v, index |-> latest + 1]
<1>1. /\ publisher[p].pc = "stored"
      /\ latest' = latest + 1 /\ top' = [top EXCEPT ![k] = latest + 1]
      /\ content' = Append(content, v)
      /\ publisher' = [publisher EXCEPT ![p] = new]
      /\ UNCHANGED <<up, store, published, faults, raced, failed, torn>>
    BY DEF M!LogChange, M!ghosts
<1>2. LogTyping /\ MasterTypes /\ ContentsOnce /\ DistinctTops
    BY DEF LogInv, StoreInv
<1>3. k \in Key /\ v \in Nat
    BY <1>1, <1>2, BusyPublisher DEF Busy
<1>4. new.pc = "logged" /\ new.val = v /\ new.index = latest + 1
    OBVIOUS
<1> HIDE DEF new, k
<1>5. /\ content'[latest + 1] = v /\ \A i \in 1..latest : content'[i] = content[i]
      /\ latest \in Nat
    BY <1>1, <1>2, <1>3 DEF LogTyping
<1>6. publisher'[p] = new /\ \A q \in Publisher \ {p} : publisher'[q] = publisher[q]
    BY <1>1, <1>2 DEF LogTyping
<1>7. /\ v \in 1..published /\ \A i \in 1..latest : content[i] # v
      /\ \A q \in Publisher \ {p} : publisher[q].pc \in Busy => publisher[q].val # v
    BY <1>1, <1>2 DEF ContentsOnce, Busy
<1> HIDE DEF v
<1>8. ContentsOnce'
    <2>1. \A i \in 1..latest' : content'[i] \in 1..published'
        BY <1>1, <1>2, <1>5, <1>7 DEF ContentsOnce
    <2>2. \A i, j \in 1..latest' : content'[i] = content'[j] => i = j
        BY <1>1, <1>2, <1>5, <1>7 DEF ContentsOnce
    <2>3. \A q \in Publisher : publisher'[q].pc \in Busy => q # p /\ publisher'[q] = publisher[q]
        BY <1>4, <1>6 DEF Busy
    <2>4. ASSUME NEW q \in Publisher, publisher'[q].pc \in Busy
          PROVE  /\ publisher'[q].val \in 1..published'
                 /\ \A i \in 1..latest' : content'[i] # publisher'[q].val
                 /\ \A o \in Publisher :
                        (publisher'[o].pc \in Busy /\ publisher'[o].val = publisher'[q].val)
                            => q = o
        BY <1>1, <1>2, <1>5, <1>7, <2>3, <2>4 DEF ContentsOnce
    <2> QED
        BY <2>1, <2>2, <2>4 DEF ContentsOnce
<1>9. latest' \in M!Index
    <2>1. (LogTyping /\ ContentsOnce => latest <= published)'
        BY LatestPublished, PTL
    <2>2. latest' <= published'
        BY <1>8, <2>1 DEF StoreInv
    <2> QED
        BY <1>1, <1>2, <1>5, <2>2 DEF MasterTypes, M!Index
<1>10. MasterTypes'
    <2>1. v \in M!Index
        BY <1>2, <1>7 DEF MasterTypes, M!Index
    <2> QED
        BY <1>1, <1>2, <1>4, <1>6, <1>9, <2>1 DEF MasterTypes
<1>11. DistinctTops'
    BY <1>1, <1>2, <1>3 DEF DistinctTops, LogTyping
<1> QED
    BY <1>8, <1>10, <1>11 DEF LogInv

\* Publishers that end, and an append that is torn.
LEMMA EndsKeepLog ==
    ASSUME LogInv, StoreInv', UNCHANGED <<latest, content, published, raced>>,
           \A p \in Publisher : publisher'[p] \in {publisher[p], M!Done},
           up' \in BOOLEAN, store' \in [Object -> M!Content], faults' \in 0..MaxFaults,
           failed' \subseteq Object, torn' \subseteq Key,
           \A k \in Key : top'[k] \in {top[k], 0}
    PROVE  LogInv'
<1>1. M!Done.pc = "idle"
    BY DEF M!Done
<1>2. ContentsOnce'
    <2>1. \A q \in Publisher : publisher'[q].pc \in Busy =>
                publisher[q].pc \in Busy /\ publisher'[q].val = publisher[q].val
        BY <1>1 DEF Busy
    <2> QED
        BY <2>1, ContentsKept
<1>3. MasterTypes'
    BY <1>1 DEF LogInv, MasterTypes
<1> QED
    BY <1>2, <1>3, TopsKept DEF LogInv

LEMMA TearTypes ==
    ASSUME LogInv, NEW k \in Key, M!Tear(k)
    PROVE  torn' \subseteq Key /\ \A h \in Key : top'[h] \in {top[h], 0}
<1>1. LogTyping /\ MasterTypes
    BY DEF LogInv, StoreInv
<1> QED
    BY <1>1 DEF M!Tear, LogTyping, MasterTypes

LEMMA FailKeepsLog ==
    ASSUME LogInv, StoreInv', NEW p \in Publisher, M!FailPublish(p)
    PROVE  LogInv'
<1>1. /\ publisher[p].pc \in Busy /\ faults < MaxFaults /\ faults' = faults + 1
      /\ failed' = failed \cup {objectKey[publisher[p].key]}
      /\ UNCHANGED <<top, torn>> \/ M!Tear(publisher[p].key)
      /\ publisher' = [publisher EXCEPT ![p] = M!Done]
      /\ UNCHANGED <<up, store, latest, content, published, raced>>
    BY DEF M!FailPublish, Busy
<1>2. LogTyping /\ MasterTypes
    BY DEF LogInv, StoreInv
<1>3. publisher[p].key \in Key
    BY <1>1, <1>2, BusyPublisher
<1>4. torn' \subseteq Key /\ \A k \in Key : top'[k] \in {top[k], 0}
    BY <1>1, <1>2, <1>3, TearTypes DEF MasterTypes
<1>5. \A q \in Publisher : publisher'[q] \in {publisher[q], M!Done}
    BY <1>1, <1>2 DEF LogTyping
<1>6. faults' \in 0..MaxFaults /\ failed' \subseteq Object /\ up' \in BOOLEAN
    BY <1>1, <1>2, <1>3 DEF MasterTypes
<1>7. store' \in [Object -> M!Content]
    BY <1>1, <1>2 DEF MasterTypes
<1> QED
    BY <1>1, <1>4, <1>5, <1>6, <1>7, EndsKeepLog

LEMMA DieKeepsLog ==
    ASSUME LogInv, StoreInv', M!Die, faults' \in 0..MaxFaults,
           UNCHANGED <<store, latest, content, published, raced>>,
           \/ UNCHANGED <<top, torn>>
           \/ \E p \in Publisher : publisher[p].pc = "stored" /\ M!Tear(publisher[p].key)
    PROVE  LogInv'
<1>1. /\ up' = FALSE /\ publisher' = [p \in Publisher |-> M!Done]
      /\ failed' = failed \cup {o \in Object : M!Busy(o) # {}}
    BY DEF M!Die
<1>2. LogTyping /\ MasterTypes
    BY DEF LogInv, StoreInv
<1>3. torn' \subseteq Key /\ \A k \in Key : top'[k] \in {top[k], 0}
    <2>1. CASE UNCHANGED <<top, torn>>
        BY <1>2, <2>1 DEF MasterTypes
    <2>2. CASE \E p \in Publisher : publisher[p].pc = "stored" /\ M!Tear(publisher[p].key)
        <3>1. PICK p \in Publisher : publisher[p].pc = "stored" /\ M!Tear(publisher[p].key)
            BY <2>2
        <3>2. publisher[p].key \in Key
            BY <1>2, <3>1, BusyPublisher DEF Busy
        <3> QED
            BY <3>1, <3>2, TearTypes
    <2> QED
        BY <2>1, <2>2
<1>4. \A q \in Publisher : publisher'[q] \in {publisher[q], M!Done}
    BY <1>1
<1>5. failed' \subseteq Object /\ up' \in BOOLEAN /\ store' \in [Object -> M!Content]
    BY <1>1, <1>2 DEF MasterTypes
<1> QED
    BY <1>3, <1>4, <1>5, EndsKeepLog

LEMMA ReplaceKeepsLog == LogInv /\ StoreInv' /\ M!ReplaceMaster => LogInv'
<1> SUFFICES ASSUME LogInv, StoreInv', M!ReplaceMaster PROVE LogInv'
    OBVIOUS
<1>1. /\ up' = FALSE /\ publisher' = [p \in Publisher |-> M!Done]
      /\ failed' = failed \cup {o \in Object : M!Busy(o) # {}}
      /\ faults < MaxFaults /\ faults' = faults + 1
      /\ store' = [o \in Object |-> M!Empty] /\ latest' = 0 /\ top' = [k \in Key |-> 0]
      /\ UNCHANGED <<published, raced, torn>>
    BY DEF M!ReplaceMaster, M!Die
<1>2. MasterTypes
    BY DEF LogInv
<1>3. \A p \in Publisher : publisher'[p].pc = "idle"
    BY <1>1 DEF M!Done
<1>4. ContentsOnce'
    BY <1>1, <1>3 DEF ContentsOnce, Busy
<1>5. MasterTypes'
    <2>1. store' \in [Object -> M!Content]
        BY <1>1 DEF M!Content, M!Empty
    <2>2. faults' \in 0..MaxFaults
        <3>1. faults \in 0..MaxFaults
            BY <1>2 DEF MasterTypes
        <3> QED
            BY <1>1, <3>1
    <2>3. up' \in BOOLEAN /\ failed' \subseteq Object
        BY <1>1, <1>2 DEF MasterTypes
    <2> QED
        BY <1>1, <1>2, <1>3, <2>1, <2>2, <2>3 DEF MasterTypes
<1>6. DistinctTops'
    BY <1>1 DEF DistinctTops
<1> QED
    BY <1>4, <1>5, <1>6 DEF LogInv

LEMMA NextKeepsLog == LogInv /\ [Next]_vars => LogInv'
<1> SUFFICES ASSUME LogInv, [Next]_vars PROVE LogInv'
    OBVIOUS
<1>1. StoreInv'
    BY NextKeepsStore DEF LogInv
<1>2. LogTyping /\ MasterTypes
    BY DEF LogInv, StoreInv
<1>3. ASSUME UNCHANGED <<store, latest, top, content, published, raced, failed, torn>>,
             up' \in BOOLEAN, faults' \in 0..MaxFaults,
             \A p \in Publisher : publisher'[p] \in {publisher[p], M!Done}
      PROVE  LogInv'
    BY <1>1, <1>2, <1>3, EndsKeepLog DEF MasterTypes
<1>4. ASSUME NEW p \in Publisher, M!PublisherStep(p) PROVE LogInv'
    <2>1. CASE M!Broadcast(p)
        <3>1. /\ publisher' = [publisher EXCEPT ![p] = M!Done]
              /\ UNCHANGED <<up, store, latest, top, content, published, faults, raced, failed,
                             torn>>
            BY <2>1 DEF M!Broadcast, M!logVars, M!ghosts
        <3>2. \A q \in Publisher : publisher'[q] \in {publisher[q], M!Done}
            BY <1>2, <3>1 DEF LogTyping
        <3> QED
            BY <1>2, <1>3, <3>1, <3>2 DEF MasterTypes
    <2> QED
        BY <1>1, <1>4, <2>1, StartKeepsLog, WriteKeepsLog, LogChangeKeepsLog, FailKeepsLog
            DEF M!PublisherStep
<1>5. ASSUME NEW c \in Call, M!HandlerStep(c) PROVE LogInv'
    <2>1. CASE M!PanicOnClose(c)
        <3>1. /\ M!Die
              /\ UNCHANGED <<store, latest, top, content, published, faults, raced, torn>>
            BY <2>1 DEF M!PanicOnClose, M!logVars
        <3> QED
            BY <1>1, <1>2, <3>1, DieKeepsLog DEF MasterTypes
    <2>2. CASE \E unreadable \in SUBSET Key : M!Replay(c, unreadable)
        <3>1. /\ UNCHANGED <<up, publisher, store, latest, top, content, published, raced, failed,
                             torn>>
              /\ \/ faults' = faults
                 \/ faults < MaxFaults /\ faults' = faults + 1
            BY <2>2 DEF M!Replay, M!logVars
        <3>2. faults' \in 0..MaxFaults
            <4>1. faults \in 0..MaxFaults
                BY <1>2 DEF MasterTypes
            <4> QED
                BY <3>1, <4>1
        <3> QED
            BY <1>2, <1>3, <3>1, <3>2 DEF MasterTypes
    <2>3. CASE ~M!PanicOnClose(c) /\ ~\E unreadable \in SUBSET Key : M!Replay(c, unreadable)
        <3>1. UNCHANGED <<up, publisher, store, latest, top, content, published, faults, raced,
                          failed, torn>>
            BY <1>5, <2>3 DEF M!HandlerStep, M!RejectFuture, M!Register, M!Send,
                M!LeaveClosed, M!LeaveCancelled, M!Unregister, M!logVars, M!ghosts
        <3> QED
            BY <1>2, <1>3, <3>1 DEF MasterTypes
    <2> QED
        BY <2>1, <2>2, <2>3
<1>6. CASE M!CrashMaster
    <2>1. /\ M!Die /\ faults < MaxFaults /\ faults' = faults + 1
          /\ \/ UNCHANGED <<top, torn>>
             \/ \E p \in Publisher : publisher[p].pc = "stored" /\ M!Tear(publisher[p].key)
          /\ UNCHANGED <<store, latest, content, published, raced>>
        BY <1>6 DEF M!CrashMaster
    <2>2. faults' \in 0..MaxFaults
        BY <1>2, <2>1 DEF MasterTypes
    <2> QED
        BY <1>1, <2>1, <2>2, DieKeepsLog
<1>7. CASE M!ReplaceMaster
    BY <1>1, <1>7, ReplaceKeepsLog
<1>8. CASE M!StartMaster \/ AgentStep \/ UNCHANGED vars
    <2>1. /\ UNCHANGED <<publisher, store, latest, top, content, published, faults, raced, failed,
                         torn>>
          /\ up' \in {up, TRUE}
        BY <1>8 DEF M!StartMaster, M!logVars, M!ghosts, AgentStep, masterVars, vars
    <2> QED
        BY <1>2, <1>3, <2>1 DEF MasterTypes
<1> QED
    BY <1>4, <1>5, <1>6, <1>7, <1>8 DEF Next, MasterStep, M!Next

----------------------------------------------------------------------------
\* What a step does to the two queues of a call.

Msgs(c) == IF stream[c] = M!NoStream THEN <<>> ELSE stream[c].msgs
Chan(c) == IF handler[c] = M!NotRunning THEN <<>> ELSE handler[c].chan
InFlight(c) == Msgs(c) \o Chan(c)

Runs(c) == handler[c] # M!NotRunning
Exists(c) == stream[c] # M!NoStream

\* The message that Broadcast sends.
Sent(p) == [index |-> publisher[p].index, key |-> publisher[p].key,
            val |-> publisher[p].val, tier |-> "NORMAL"]

Applying == {"removed", "renamed"}
Reader(a) == agent[a].pc \in {"reading", "removed", "renamed"}

\* An agent reads a stream of its own, and has no change without content in hand.
ReadersOwn ==
    \A a \in Agent : Reader(a) =>
        /\ agent[a].call \in Call /\ Exists(agent[a].call)
        /\ stream[agent[a].call].agent = a
        /\ agent[a].pc \in Applying => agent[a].change.val # M!Empty

StreamKept(c) ==
    /\ Exists(c)' <=> Exists(c)
    /\ Exists(c) =>
        /\ stream'[c].agent = stream[c].agent /\ stream'[c].from = stream[c].from
        /\ stream'[c].alive = stream[c].alive
        /\ \/ stream'[c].status = stream[c].status
           \/ stream'[c].status \in {"eof", "error"}

HandlerKept(c) ==
    /\ Runs(c)' <=> Runs(c)
    /\ Runs(c) => handler'[c].cap = handler[c].cap

Quiet(c) ==
    /\ HandlerKept(c) /\ StreamKept(c)
    /\ Msgs(c)' = Msgs(c) /\ Chan(c)' = Chan(c)

Sends(c) ==
    /\ HandlerKept(c) /\ StreamKept(c)
    /\ stream'[c].status = "open"
    /\ Chan(c) # <<>>
    /\ Msgs(c)' = Append(Msgs(c), Head(Chan(c))) /\ Chan(c)' = Tail(Chan(c))

Adds(c) ==
    \E p \in Publisher :
        /\ M!Broadcast(p)
        /\ HandlerKept(c) /\ StreamKept(c) /\ Runs(c)
        /\ Msgs(c)' = Msgs(c) /\ Chan(c)' = Append(Chan(c), Sent(p))

Replays(c) ==
    \E unreadable \in SUBSET Key :
        /\ M!Replay(c, unreadable)
        /\ ~Runs(c) /\ Runs(c)' /\ Exists(c) /\ Exists(c)'
        /\ Chan(c) = <<>> /\ Chan(c)' = M!Since(stream[c].from, unreadable)
        /\ handler'[c].cap = Len(M!Since(stream[c].from, unreadable)) + SubscriberBuffer
        /\ Msgs(c)' = Msgs(c) /\ stream[c].status = "called" /\ stream'[c].status = "open"
        /\ stream'[c].agent = stream[c].agent /\ stream'[c].from = stream[c].from
        /\ stream'[c].alive = stream[c].alive

Ends(c) ==
    /\ StreamKept(c)
    /\ ~Runs(c)' /\ Chan(c)' = <<>> /\ Msgs(c)' = Msgs(c)

Empties(c) ==
    \E a \in Agent :
        /\ F!Exit(a)
        /\ HandlerKept(c) /\ Chan(c)' = Chan(c)
        /\ Exists(c) /\ Exists(c)' /\ Msgs(c)' = <<>>
        /\ stream[c].agent = a /\ stream'[c].agent = a
        /\ stream'[c].status = stream[c].status
        /\ stream'[c].from = stream[c].from /\ stream'[c].alive = FALSE

Takes(c) ==
    \E a \in Agent :
        /\ F!HasMessage(a) /\ F!Receive(a) /\ agent[a].call = c
        /\ F!Skip(a) \/ F!Leave(a) \/ F!RemoveZone(a)
        /\ HandlerKept(c) /\ StreamKept(c) /\ stream'[c].status = stream[c].status
        /\ Msgs(c) # <<>> /\ Msgs(c)' = Tail(Msgs(c)) /\ Chan(c)' = Chan(c)

Opens(c) ==
    \E a \in Agent :
        /\ F!Subscribe(a, c)
        /\ ~Exists(c) /\ Exists(c)' /\ ~Runs(c) /\ ~Runs(c)'
        /\ Msgs(c)' = <<>> /\ Chan(c)' = <<>>
        /\ stream'[c].status = "called" /\ stream'[c].agent = a
        /\ stream'[c].from = cursor[a] /\ stream'[c].alive = TRUE

Forgets(c) ==
    /\ F!Forget(c)
    /\ ~Runs(c) /\ ~Runs(c)' /\ ~Exists(c)' /\ Msgs(c)' = <<>> /\ Chan(c)' = <<>>

Moves(c) ==
    \/ Quiet(c) \/ Sends(c) \/ Adds(c) \/ Replays(c) \/ Ends(c)
    \/ Empties(c) \/ Takes(c) \/ Opens(c) \/ Forgets(c)

LEMMA SameIsQuiet ==
    ASSUME NEW c \in Call, handler'[c] = handler[c], stream'[c] = stream[c]
    PROVE  Quiet(c)
BY DEF Quiet, HandlerKept, StreamKept, Msgs, Chan, Runs, Exists

\* A record of a stream and of a handler.
LEMMA CallRecords ==
    SubInv => \A c \in Call :
        /\ Runs(c) => IsHandler(handler[c]) /\ stream[c].status = "open"
        /\ Exists(c) => IsStream(stream[c])
        /\ handler[c].pc # "none" => Runs(c)
        /\ stream[c].status # "none" => Exists(c)
        /\ stream[c].status # "open" => ~Runs(c)
BY DEF SubInv, CallTyping, OfCalls, HandlersOpen, Runs, Exists, M!NotRunning, M!NoStream

LEMMA BroadcastMoves ==
    ASSUME SubInv, NEW p \in Publisher, M!Broadcast(p), NEW c \in Call
    PROVE  Moves(c)
<1> DEFINE subs == {d \in Call : \E a \in Agent : subscribers[a] = d}
<1>1. PICK msg :
        /\ msg = Sent(p)
        /\ handler' = [d \in Call |->
                IF d \notin subs THEN handler[d]
                ELSE IF M!IsFull(handler[d]) THEN [handler[d] EXCEPT !.closed = TRUE]
                ELSE [handler[d] EXCEPT !.chan = Append(@, msg)]]
        /\ stream' = stream
    BY DEF M!Broadcast, Sent
<1>2. CASE c \notin subs
    <2>1. handler'[c] = handler[c] /\ stream'[c] = stream[c]
        BY <1>1, <1>2
    <2> QED
        BY <2>1, SameIsQuiet DEF Moves
<1>3. CASE c \in subs
    <2>1. PICK a \in Agent : subscribers[a] = c
        BY <1>3
    <2>2. handler[c].pc \in {"running", "exiting"} /\ c # None
        BY <2>1 DEF SubInv, SubscribersLive
    <2>3. Runs(c) /\ IsHandler(handler[c])
        BY <2>2, CallRecords DEF Runs, M!NotRunning
    <2>4. PICK h : h = handler[c]
        OBVIOUS
    <2>5. CASE M!IsFull(handler[c])
        <3>1. handler'[c] = [h EXCEPT !.closed = TRUE]
            BY <1>1, <1>3, <2>4, <2>5
        <3>2. IsHandler(h)
            BY <2>3, <2>4
        <3>3. handler'[c].chan = h.chan /\ handler'[c].cap = h.cap /\ handler'[c].pc = h.pc
            BY <3>1, <3>2 DEF IsHandler
        <3>4. Runs(c)'
            BY <2>2, <2>4, <3>3 DEF Runs, M!NotRunning
        <3> QED
            BY <1>1, <2>3, <2>4, <3>3, <3>4
                DEF Moves, Quiet, HandlerKept, StreamKept, Msgs, Chan, Runs, Exists
    <2>6. CASE ~M!IsFull(handler[c])
        <3>1. PICK new : new = Append(h.chan, msg)
            OBVIOUS
        <3>2. handler'[c] = [h EXCEPT !.chan = new]
            BY <1>1, <1>3, <2>4, <2>6, <3>1
        <3>3. IsHandler(h)
            BY <2>3, <2>4
        <3>4. handler'[c].chan = new /\ handler'[c].cap = h.cap /\ handler'[c].pc = h.pc
            BY <3>2, <3>3 DEF IsHandler
        <3>5. Runs(c)'
            BY <2>2, <2>4, <3>4 DEF Runs, M!NotRunning
        <3>6. Adds(c)
            BY <1>1, <2>3, <2>4, <3>1, <3>4, <3>5
                DEF Adds, HandlerKept, StreamKept, Msgs, Chan, Runs, Exists
        <3> QED
            BY <3>6 DEF Moves
    <2> QED
        BY <2>5, <2>6
<1> QED
    BY <1>2, <1>3

LEMMA DieMoves ==
    ASSUME SubInv, M!Die, NEW c \in Call
    PROVE  Moves(c)
<1>1. /\ handler' = [d \in Call |-> M!NotRunning]
      /\ stream' = [d \in Call |-> IF stream[d].status \in {"called", "open"}
                                   THEN [stream[d] EXCEPT !.status = "error"]
                                   ELSE stream[d]]
    BY DEF M!Die
<1>2. ~Runs(c)' /\ Chan(c)' = <<>>
    BY <1>1 DEF Runs, Chan
<1>3. Msgs(c)' = Msgs(c) /\ StreamKept(c)
    <2>1. CASE stream[c].status \in {"called", "open"}
        <3>1. IsStream(stream[c]) /\ Exists(c)
            BY <2>1, CallRecords
        <3>2. PICK s : s = stream[c]
            OBVIOUS
        <3>3. stream'[c] = [s EXCEPT !.status = "error"] /\ IsStream(s)
            BY <1>1, <2>1, <3>1, <3>2
        <3>4. /\ stream'[c].msgs = s.msgs /\ stream'[c].agent = s.agent
              /\ stream'[c].from = s.from /\ stream'[c].alive = s.alive
              /\ stream'[c].status = "error"
            BY <3>3 DEF IsStream
        <3>5. Exists(c)'
            BY <3>4 DEF Exists, M!NoStream
        <3> QED
            BY <3>1, <3>2, <3>4, <3>5 DEF StreamKept, Msgs, Exists
    <2>2. CASE stream[c].status \notin {"called", "open"}
        <3>1. stream'[c] = stream[c]
            BY <1>1, <2>2
        <3> QED
            BY <3>1 DEF StreamKept, Msgs, Exists
    <2> QED
        BY <2>1, <2>2
<1> QED
    BY <1>2, <1>3 DEF Moves, Ends

LEMMA HandlerMoves ==
    ASSUME SubInv, NEW c \in Call, M!HandlerStep(c), NEW d \in Call
    PROVE  Moves(d)
<1>1. CallTyping
    BY DEF SubInv
<1>2. /\ Runs(c) => IsHandler(handler[c]) /\ stream[c].status = "open"
      /\ Exists(c) => IsStream(stream[c])
      /\ handler[c].pc # "none" => Runs(c)
      /\ stream[c].status # "none" => Exists(c)
      /\ stream[c].status # "open" => ~Runs(c)
    BY CallRecords
<1>3. PICK h, s : h = handler[c] /\ s = stream[c]
    OBVIOUS
<1>4. ASSUME NEW unreadable \in SUBSET Key, M!Replay(c, unreadable) PROVE Moves(d)
    <2>1. PICK backlog, n :
            /\ backlog = M!Since(stream[c].from, unreadable)
            /\ n = Len(backlog) + SubscriberBuffer
            /\ handler' = [handler EXCEPT ![c] =
                    [pc |-> "replayed", chan |-> backlog, cap |-> n, closed |-> FALSE,
                     result |-> "error"]]
            /\ s.status = "called" /\ stream' = [stream EXCEPT ![c] = [s EXCEPT !.status = "open"]]
        BY <1>3, <1>4 DEF M!Replay
    <2>2. PICK g : g = [pc |-> "replayed", chan |-> backlog, cap |-> n, closed |-> FALSE,
                        result |-> "error"]
        OBVIOUS
    <2>3. g.pc = "replayed" /\ g.chan = backlog /\ g.cap = n
        BY <2>2
    <2>4. PICK t : t = [s EXCEPT !.status = "open"]
        OBVIOUS
    <2>5. Exists(c) /\ IsStream(s) /\ ~Runs(c)
        BY <1>2, <1>3, <2>1
    <2>6. /\ t.status = "open" /\ t.msgs = s.msgs /\ t.agent = s.agent /\ t.from = s.from
          /\ t.alive = s.alive
        BY <2>4, <2>5 DEF IsStream
    <2>7. handler' = [handler EXCEPT ![c] = g] /\ stream' = [stream EXCEPT ![c] = t]
        BY <2>1, <2>2, <2>4
    <2>8. /\ handler'[c] = g /\ stream'[c] = t
          /\ \A e \in Call \ {c} : handler'[e] = handler[e] /\ stream'[e] = stream[e]
        BY <1>1, <2>7, UpdateCall
    <2>9. CASE d = c
        <3>1. Runs(c)' /\ Exists(c)' /\ Chan(c)' = backlog
            BY <2>3, <2>6, <2>8 DEF Runs, Exists, Chan, M!NotRunning, M!NoStream
        <3>2. Msgs(c)' = Msgs(c) /\ Chan(c) = <<>>
            BY <1>3, <2>5, <2>6, <2>8, <3>1 DEF Msgs, Chan, Runs, Exists
        <3>3. Replays(c)
            BY <1>3, <1>4, <2>1, <2>3, <2>5, <2>6, <2>8, <3>1, <3>2 DEF Replays
        <3> QED
            BY <2>9, <3>3 DEF Moves
    <2> QED
        BY <2>8, <2>9, SameIsQuiet DEF Moves
<1>5. CASE M!RejectFuture(c)
    <2>1. s.status = "called" /\ handler' = handler /\ stream' = [stream EXCEPT ![c] = [s EXCEPT !.status = "error"]]
        BY <1>3, <1>5 DEF M!RejectFuture
    <2>2. PICK t : t = [s EXCEPT !.status = "error"]
        OBVIOUS
    <2>3. Exists(c) /\ IsStream(s)
        BY <1>2, <1>3, <2>1
    <2>4. /\ t.status = "error" /\ t.msgs = s.msgs /\ t.agent = s.agent /\ t.from = s.from
          /\ t.alive = s.alive
        BY <2>2, <2>3 DEF IsStream
    <2>5. handler' = [handler EXCEPT ![c] = h] /\ stream' = [stream EXCEPT ![c] = t]
        BY <1>1, <1>3, <2>1, <2>2 DEF CallTyping, OfCalls
    <2>6. /\ handler'[c] = h /\ stream'[c] = t
          /\ \A e \in Call \ {c} : handler'[e] = handler[e] /\ stream'[e] = stream[e]
        BY <1>1, <2>5, UpdateCall
    <2>7. CASE d = c
        <3>1. Exists(c)'
            BY <2>4, <2>6 DEF Exists, M!NoStream
        <3>2. Quiet(c)
            BY <1>3, <2>3, <2>4, <2>6, <3>1
                DEF Quiet, HandlerKept, StreamKept, Msgs, Chan, Runs, Exists
        <3> QED
            BY <2>7, <3>2 DEF Moves
    <2> QED
        BY <2>6, <2>7, SameIsQuiet DEF Moves
<1>6. CASE M!Register(c) \/ M!LeaveClosed(c) \/ M!LeaveCancelled(c)
    <2>1. /\ h.pc # "none" /\ stream' = stream
          /\ \E pc \in {"running", "exiting"}, result \in {h.result, "eof", "error"} :
                handler' = [handler EXCEPT ![c].pc = pc, ![c].result = result]
        <3>1. CASE M!Register(c)
            <4>1. h.pc = "replayed" /\ handler' = [handler EXCEPT ![c] = [h EXCEPT !.pc = "running"]]
                BY <1>3, <3>1 DEF M!Register
            <4>2. IsHandler(h)
                BY <1>2, <1>3, <4>1
            <4>3. [h EXCEPT !.pc = "running"] = [h EXCEPT !.pc = "running", !.result = h.result]
                BY <4>2 DEF IsHandler
            <4>4. handler' = [handler EXCEPT ![c] = [h EXCEPT !.pc = "running", !.result = h.result]]
                BY <4>1, <4>3
            <4>5. handler' = [handler EXCEPT ![c].pc = "running", ![c].result = h.result]
                BY <1>1, <1>3, <4>4 DEF CallTyping, OfCalls
            <4> QED
                BY <3>1, <4>1, <4>5 DEF M!Register
        <3>2. CASE M!LeaveClosed(c) \/ M!LeaveCancelled(c)
            BY <1>3, <3>2 DEF M!LeaveClosed, M!LeaveCancelled
        <3> QED
            BY <1>6, <3>1, <3>2
    <2>2. PICK pc \in {"running", "exiting"}, result \in {h.result, "eof", "error"} :
                handler' = [handler EXCEPT ![c].pc = pc, ![c].result = result]
        BY <2>1
    <2>3. PICK g : g = [h EXCEPT !.pc = pc, !.result = result]
        OBVIOUS
    <2>4. IsHandler(h) /\ Runs(c)
        BY <1>2, <1>3, <2>1
    <2>5. g.chan = h.chan /\ g.cap = h.cap /\ g.pc = pc
        BY <2>3, <2>4 DEF IsHandler
    <2>6. handler' = [handler EXCEPT ![c] = g] /\ stream' = [stream EXCEPT ![c] = s]
        BY <1>1, <1>3, <2>1, <2>2, <2>3 DEF CallTyping, OfCalls
    <2>7. /\ handler'[c] = g /\ stream'[c] = s
          /\ \A e \in Call \ {c} : handler'[e] = handler[e] /\ stream'[e] = stream[e]
        BY <1>1, <2>6, UpdateCall
    <2>8. CASE d = c
        <3>1. Runs(c)'
            BY <2>5, <2>7 DEF Runs, M!NotRunning
        <3>2. Quiet(c)
            BY <1>3, <2>4, <2>5, <2>7, <3>1
                DEF Quiet, HandlerKept, StreamKept, Msgs, Chan, Runs, Exists
        <3> QED
            BY <2>8, <3>2 DEF Moves
    <2> QED
        BY <2>7, <2>8, SameIsQuiet DEF Moves
<1>7. CASE M!Send(c)
    <2>1. PICK rest, msgs :
            /\ rest = Tail(h.chan) /\ msgs = Append(s.msgs, Head(h.chan))
            /\ h.pc = "running" /\ h.chan # <<>>
            /\ handler' = [handler EXCEPT ![c] = [h EXCEPT !.chan = rest]]
            /\ stream' = [stream EXCEPT ![c] = [s EXCEPT !.msgs = msgs]]
        BY <1>3, <1>7 DEF M!Send
    <2>2. PICK g, t : g = [h EXCEPT !.chan = rest] /\ t = [s EXCEPT !.msgs = msgs]
        OBVIOUS
    <2>3. IsHandler(h) /\ Runs(c) /\ s.status = "open" /\ IsStream(s) /\ Exists(c)
        BY <1>2, <1>3, <2>1
    <2>4. g.pc = "running" /\ g.chan = rest /\ g.cap = h.cap
        BY <2>1, <2>2, <2>3 DEF IsHandler
    <2>5. /\ t.status = "open" /\ t.msgs = msgs /\ t.agent = s.agent /\ t.from = s.from
          /\ t.alive = s.alive
        BY <2>2, <2>3 DEF IsStream
    <2>6. handler' = [handler EXCEPT ![c] = g] /\ stream' = [stream EXCEPT ![c] = t]
        BY <2>1, <2>2
    <2>7. /\ handler'[c] = g /\ stream'[c] = t
          /\ \A e \in Call \ {c} : handler'[e] = handler[e] /\ stream'[e] = stream[e]
        BY <1>1, <2>6, UpdateCall
    <2>8. CASE d = c
        <3>1. Runs(c)' /\ Exists(c)'
            BY <2>4, <2>5, <2>7 DEF Runs, Exists, M!NotRunning, M!NoStream
        <3>2. Sends(c)
            BY <1>3, <2>1, <2>3, <2>4, <2>5, <2>7, <3>1
                DEF Sends, HandlerKept, StreamKept, Msgs, Chan, Runs, Exists
        <3> QED
            BY <2>8, <3>2 DEF Moves
    <2> QED
        BY <2>7, <2>8, SameIsQuiet DEF Moves
<1>8. CASE M!Unregister(c)
    <2>1. /\ h.pc = "exiting" /\ handler' = [handler EXCEPT ![c] = M!NotRunning]
          /\ stream' = [stream EXCEPT ![c] = [s EXCEPT !.status = h.result]]
        BY <1>3, <1>8 DEF M!Unregister
    <2>2. PICK t : t = [s EXCEPT !.status = h.result]
        OBVIOUS
    <2>3. IsHandler(h) /\ Runs(c) /\ IsStream(s) /\ Exists(c) /\ s.status = "open"
        BY <1>2, <1>3, <2>1
    <2>4. /\ t.status \in {"eof", "error"} /\ t.msgs = s.msgs /\ t.agent = s.agent
          /\ t.from = s.from /\ t.alive = s.alive
        BY <2>2, <2>3 DEF IsStream, IsHandler
    <2>5. handler' = [handler EXCEPT ![c] = M!NotRunning] /\ stream' = [stream EXCEPT ![c] = t]
        BY <2>1, <2>2
    <2>6. /\ handler'[c] = M!NotRunning /\ stream'[c] = t
          /\ \A e \in Call \ {c} : handler'[e] = handler[e] /\ stream'[e] = stream[e]
        BY <1>1, <2>5, UpdateCall
    <2>7. CASE d = c
        <3>1. Exists(c)'
            BY <2>4, <2>6 DEF Exists, M!NoStream
        <3>2. Ends(c)
            BY <1>3, <2>3, <2>4, <2>6, <3>1 DEF Ends, StreamKept, Msgs, Chan, Runs, Exists
        <3> QED
            BY <2>7, <3>2 DEF Moves
    <2> QED
        BY <2>6, <2>7, SameIsQuiet DEF Moves
<1>9. CASE M!PanicOnClose(c)
    BY <1>9, DieMoves DEF M!PanicOnClose
<1> QED
    BY <1>4, <1>5, <1>6, <1>7, <1>8, <1>9 DEF M!HandlerStep

LEMMA AgentMoves ==
    ASSUME SubInv, ReadersOwn, AgentStep, NEW d \in Call
    PROVE  Moves(d)
<1>1. F!Next /\ handler' = handler
    BY DEF AgentStep, masterVars
<1>2. CallTyping
    BY DEF SubInv
<1>3. \A c \in Call : /\ Exists(c) => IsStream(stream[c])
                      /\ stream[c].status # "none" => Exists(c)
                      /\ stream[c].status # "open" => ~Runs(c)
    BY CallRecords
<1>4. HandlerKept(d) /\ Chan(d)' = Chan(d) /\ (Runs(d)' <=> Runs(d))
    BY <1>1 DEF HandlerKept, Chan, Runs
<1>5. ASSUME NEW a \in Agent, F!Exit(a) PROVE Moves(d)
    <2>1. stream' = [c \in Call |->
                IF stream[c].status # "none" /\ stream[c].agent = a
                THEN [stream[c] EXCEPT !.alive = FALSE, !.msgs = <<>>] ELSE stream[c]]
        BY <1>5 DEF F!Exit
    <2>2. CASE stream[d].status # "none" /\ stream[d].agent = a
        <3>1. PICK s : s = stream[d]
            OBVIOUS
        <3>2. stream'[d] = [s EXCEPT !.alive = FALSE, !.msgs = <<>>]
            BY <2>1, <2>2, <3>1
        <3>3. IsStream(s) /\ Exists(d)
            BY <1>3, <2>2, <3>1
        <3>4. /\ stream'[d].msgs = <<>> /\ stream'[d].agent = s.agent
              /\ stream'[d].from = s.from /\ stream'[d].alive = FALSE
              /\ stream'[d].status = s.status /\ s.status # "none"
            BY <3>2, <3>3 DEF IsStream
        <3>5. Exists(d)'
            BY <3>4 DEF Exists, M!NoStream
        <3>6. Empties(d)
            BY <1>4, <1>5, <2>2, <3>1, <3>3, <3>4, <3>5 DEF Empties, Msgs, Exists
        <3> QED
            BY <3>6 DEF Moves
    <2>3. CASE ~(stream[d].status # "none" /\ stream[d].agent = a)
        <3>1. stream'[d] = stream[d] /\ handler'[d] = handler[d]
            BY <1>1, <2>1, <2>3
        <3> QED
            BY <3>1, SameIsQuiet DEF Moves
    <2> QED
        BY <2>2, <2>3
<1>6. ASSUME NEW a \in Agent, F!Skip(a) \/ F!Leave(a) \/ F!RemoveZone(a) PROVE Moves(d)
    <2>1. F!HasMessage(a) /\ F!Receive(a)
        BY <1>6 DEF F!Skip, F!Leave, F!RemoveZone
    <2>2. PICK e, s, rest :
            /\ e = agent[a].call /\ s = stream[e] /\ rest = Tail(s.msgs)
            /\ stream' = [stream EXCEPT ![e] = [s EXCEPT !.msgs = rest]]
        BY <2>1 DEF F!Receive
    <2>3. CASE d = e
        <3>1. Exists(d) /\ s.msgs # <<>>
            BY <2>1, <2>2, <2>3 DEF F!HasMessage, ReadersOwn, Reader, Exists
        <3>2. IsStream(s)
            BY <1>3, <2>2, <2>3, <3>1
        <3>3. stream'[d] = [s EXCEPT !.msgs = rest]
            BY <1>2, <2>2, <2>3 DEF CallTyping, OfCalls
        <3>4. /\ stream'[d].msgs = rest /\ stream'[d].agent = s.agent
              /\ stream'[d].from = s.from /\ stream'[d].alive = s.alive
              /\ stream'[d].status = s.status /\ s.status # "none"
            BY <3>2, <3>3 DEF IsStream
        <3>5. Exists(d)'
            BY <3>4 DEF Exists, M!NoStream
        <3>6. Takes(d)
            BY <1>4, <1>6, <2>1, <2>2, <2>3, <3>1, <3>4, <3>5 DEF Takes, StreamKept, Msgs, Exists
        <3> QED
            BY <3>6 DEF Moves
    <2>4. CASE d # e
        <3>1. stream'[d] = stream[d] /\ handler'[d] = handler[d]
            BY <1>1, <1>2, <2>2, <2>4 DEF CallTyping, OfCalls
        <3> QED
            BY <3>1, SameIsQuiet DEF Moves
    <2> QED
        BY <2>3, <2>4
<1>7. ASSUME NEW a \in Agent, NEW c \in Call, F!Subscribe(a, c) PROVE Moves(d)
    <2>1. PICK s :
            /\ s = [status |-> "called", agent |-> a, from |-> cursor[a], msgs |-> <<>>,
                    alive |-> TRUE]
            /\ stream[c].status = "none" /\ stream' = [stream EXCEPT ![c] = s]
        BY <1>7 DEF F!Subscribe
    <2>2. CASE d = c
        <3>1. stream'[d] = s
            BY <1>2, <2>1, <2>2 DEF CallTyping, OfCalls
        <3>2. Exists(d)' /\ Msgs(d)' = <<>>
            BY <2>1, <3>1 DEF Exists, Msgs, M!NoStream
        <3>3. ~Exists(d) /\ ~Runs(d)
            BY <1>3, <2>1, <2>2 DEF IsStream
        <3>4. Chan(d)' = <<>>
            BY <1>4, <3>3 DEF Chan, Runs
        <3>5. Opens(d)
            BY <1>4, <1>7, <2>1, <2>2, <3>1, <3>2, <3>3, <3>4 DEF Opens
        <3> QED
            BY <3>5 DEF Moves
    <2>3. CASE d # c
        <3>1. stream'[d] = stream[d] /\ handler'[d] = handler[d]
            BY <1>1, <1>2, <2>1, <2>3 DEF CallTyping, OfCalls
        <3> QED
            BY <3>1, SameIsQuiet DEF Moves
    <2> QED
        BY <2>2, <2>3
<1>8. ASSUME NEW c \in Call, F!Forget(c) PROVE Moves(d)
    <2>1. stream[c].status \in {"eof", "error"} /\ stream' = [stream EXCEPT ![c] = M!NoStream]
        BY <1>8 DEF F!Forget, M!NoStream
    <2>2. CASE d = c
        <3>1. stream'[d] = M!NoStream
            BY <1>2, <2>1, <2>2 DEF CallTyping, OfCalls
        <3>2. ~Exists(d)' /\ Msgs(d)' = <<>>
            BY <3>1 DEF Exists, Msgs
        <3>3. ~Runs(d)
            BY <1>3, <2>1, <2>2
        <3>4. Chan(d)' = <<>>
            BY <1>4, <3>3 DEF Chan, Runs
        <3>5. Forgets(d)
            BY <1>4, <1>8, <2>2, <3>2, <3>3, <3>4 DEF Forgets
        <3> QED
            BY <3>5 DEF Moves
    <2>3. CASE d # c
        <3>1. stream'[d] = stream[d] /\ handler'[d] = handler[d]
            BY <1>1, <1>2, <2>1, <2>3 DEF CallTyping, OfCalls
        <3> QED
            BY <3>1, SameIsQuiet DEF Moves
    <2> QED
        BY <2>2, <2>3
<1>9. CASE UNCHANGED stream
    BY <1>1, <1>9, SameIsQuiet DEF Moves
<1>10. ASSUME NEW a \in Agent, F!AgentStep(a) \/ F!KillAgent(a) PROVE Moves(d)
    <2>1. \/ \E c \in Call : F!Subscribe(a, c)
          \/ F!Exit(a) \/ UNCHANGED stream
          \/ F!Skip(a) \/ F!Leave(a) \/ F!RemoveZone(a)
        BY <1>10 DEF F!AgentStep, F!KillAgent, F!StartAgent, F!FailApply, F!RenameZone,
            F!SaveApplied, F!StreamOver
    <2> QED
        BY <1>5, <1>6, <1>7, <1>9, <2>1
<1> QED
    BY <1>1, <1>8, <1>10 DEF F!Next

LEMMA NextMoves ==
    ASSUME SubInv, ReadersOwn, [Next]_vars, NEW c \in Call
    PROVE  Moves(c)
<1>1. ASSUME UNCHANGED <<handler, stream>> PROVE Moves(c)
    BY <1>1, SameIsQuiet DEF Moves
<1>2. ASSUME NEW p \in Publisher, M!PublisherStep(p) PROVE Moves(c)
    <2>1. CASE M!Broadcast(p)
        BY <2>1, BroadcastMoves
    <2>2. CASE ~M!Broadcast(p)
        <3>1. UNCHANGED <<handler, stream>>
            BY <1>2, <2>2 DEF M!PublisherStep, M!StartPublish, M!WriteContent, M!LogChange,
                M!FailPublish, M!subVars
        <3> QED
            BY <1>1, <3>1
    <2> QED
        BY <2>1, <2>2
<1>3. ASSUME NEW d \in Call, M!HandlerStep(d) PROVE Moves(c)
    BY <1>3, HandlerMoves
<1>4. CASE M!CrashMaster \/ M!ReplaceMaster
    BY <1>4, DieMoves DEF M!CrashMaster, M!ReplaceMaster
<1>5. CASE M!StartMaster \/ UNCHANGED vars
    BY <1>1, <1>5 DEF M!StartMaster, M!subVars, vars, masterVars
<1>6. CASE AgentStep
    BY <1>6, AgentMoves
<1> QED
    BY <1>2, <1>3, <1>4, <1>5, <1>6 DEF Next, MasterStep, M!Next

----------------------------------------------------------------------------
\* What a step does to an agent.

OfAgents(f) == f = [a \in Agent |-> f[a]]

Rests(a) == agent'[a] = agent[a] /\ cursor'[a] = cursor[a] /\ zone'[a] = zone[a]

Stops(a) ==
    /\ agent'[a] \in {F!Down, F!Retrying}
    /\ cursor'[a] = cursor[a] /\ zone'[a] = zone[a]

Subscribes(a) ==
    \E c \in Call :
        /\ F!Subscribe(a, c)
        /\ agent'[a] = [pc |-> "reading", call |-> c, current |-> cursor[a], recovering |-> TRUE]
        /\ cursor'[a] = cursor[a] /\ zone'[a] = zone[a]

Skips(a) ==
    /\ F!HasMessage(a) /\ F!Receive(a) /\ F!Verdict(agent[a], F!Message(a)) = "skip"
    /\ agent'[a] = [pc |-> "reading", call |-> agent[a].call, current |-> agent[a].current,
                    recovering |-> F!StillRecovering(a)]
    /\ cursor'[a] = cursor[a] /\ zone'[a] = zone[a]

Removes(a) ==
    /\ F!HasMessage(a) /\ F!Receive(a) /\ F!Verdict(agent[a], F!Message(a)) = "apply"
    /\ agent'[a] = [pc |-> "removed", call |-> agent[a].call, current |-> agent[a].current,
                    recovering |-> F!StillRecovering(a), change |-> F!Message(a)]
    /\ cursor'[a] = cursor[a]
    /\ zone'[a] = [zone[a] EXCEPT ![objectKey[F!Message(a).key]] = F!Missing]

Renames(a) ==
    /\ agent[a].pc = "removed"
    /\ agent'[a] = [pc |-> "renamed", call |-> agent[a].call, current |-> agent[a].current,
                    recovering |-> agent[a].recovering, change |-> agent[a].change]
    /\ cursor'[a] = cursor[a]
    /\ zone'[a] = [zone[a] EXCEPT ![objectKey[agent[a].change.key]] =
                        [ver |-> agent[a].change.index, val |-> agent[a].change.val]]

Saves(a) ==
    /\ agent[a].pc = "renamed"
    /\ agent'[a] = [pc |-> "reading", call |-> agent[a].call,
                    current |-> agent[a].change.index, recovering |-> agent[a].recovering]
    /\ cursor'[a] = IF agent[a].change.index <= cursor[a] THEN cursor[a]
                    ELSE agent[a].change.index
    /\ zone'[a] = zone[a]

Turns(a) ==
    \/ Rests(a)
    \/ /\ UNCHANGED masterVars
       /\ Stops(a) \/ Subscribes(a) \/ Skips(a) \/ Removes(a) \/ Renames(a) \/ Saves(a)

LEMMA SameEnvelope == F!Envelope = M!Envelope
BY DEF F!Envelope, M!Envelope, M!Index, M!Content

\* A process is a record.
LEMMA ProcessRecords ==
    ASSUME F!TypeOK, NEW a \in Agent
    PROVE  /\ agent[a].pc = "reading" =>
                agent[a] \in [pc : {"reading"}, call : Call, current : 0..MaxPublish,
                              recovering : BOOLEAN]
           /\ agent[a].pc \in Applying =>
                agent[a] \in [pc : {"removed", "renamed"}, call : Call, current : 0..MaxPublish,
                              recovering : BOOLEAN, change : M!Envelope]
           /\ agent[a].pc \in {"down", "retrying", "reading", "removed", "renamed"}
<1>1. agent[a] \in F!Processes
    BY DEF F!TypeOK
<1> QED
    BY <1>1, SameEnvelope DEF F!Processes, F!Down, F!Retrying, Applying

LEMMA AgentTurns ==
    ASSUME F!TypeOK, [Next]_vars
    PROVE  /\ OfAgents(agent') /\ OfAgents(cursor') /\ OfAgents(zone')
           /\ restarts' \in 0..MaxRestarts
           /\ \A a \in Agent : Turns(a)
<1>1. /\ agent \in [Agent -> F!Processes] /\ cursor \in [Agent -> 0..MaxPublish]
      /\ zone \in [Agent -> [Object -> F!ZoneFile \cup {F!Missing}]]
      /\ restarts \in 0..MaxRestarts
    BY DEF F!TypeOK
<1> DEFINE Goal == /\ OfAgents(agent') /\ OfAgents(cursor') /\ OfAgents(zone')
                   /\ restarts' \in 0..MaxRestarts
                   /\ \A a \in Agent : Turns(a)
<1>2. ASSUME UNCHANGED agentVars PROVE Goal
    BY <1>1, <1>2 DEF agentVars, OfAgents, Turns, Rests
<1>3. ASSUME NEW a \in Agent, NEW p, NEW i, NEW z, UNCHANGED masterVars,
             agent' = [agent EXCEPT ![a] = p], cursor' = [cursor EXCEPT ![a] = i],
             zone' = [zone EXCEPT ![a] = z], restarts' \in 0..MaxRestarts,
             (agent'[a] = p /\ cursor'[a] = i /\ zone'[a] = z) =>
                Stops(a) \/ Subscribes(a) \/ Skips(a) \/ Removes(a) \/ Renames(a) \/ Saves(a)
      PROVE  Goal
    <2>1. agent'[a] = p /\ cursor'[a] = i /\ zone'[a] = z
        BY <1>1, <1>3
    <2>2. \A b \in Agent \ {a} : Rests(b)
        BY <1>1, <1>3 DEF Rests
    <2>3. OfAgents(agent') /\ OfAgents(cursor') /\ OfAgents(zone')
        BY <1>1, <1>3 DEF OfAgents
    <2> QED
        BY <1>3, <2>1, <2>2, <2>3 DEF Turns
<1> HIDE DEF Goal
<1>4. \A a \in Agent : /\ agent = [agent EXCEPT ![a] = agent[a]]
                       /\ cursor = [cursor EXCEPT ![a] = cursor[a]]
                       /\ zone = [zone EXCEPT ![a] = zone[a]]
    BY <1>1
<1>5. ASSUME NEW a \in Agent, UNCHANGED masterVars, F!AgentStep(a) \/ F!KillAgent(a) PROVE Goal
    <2>1. ASSUME NEW p \in {F!Down, F!Retrying}, agent' = [agent EXCEPT ![a] = p],
                 UNCHANGED <<cursor, zone>>, restarts' \in 0..MaxRestarts
          PROVE  Goal
        <3>1. cursor' = [cursor EXCEPT ![a] = cursor[a]] /\ zone' = [zone EXCEPT ![a] = zone[a]]
            BY <1>4, <2>1
        <3>2. (agent'[a] = p /\ cursor'[a] = cursor[a] /\ zone'[a] = zone[a]) => Stops(a)
            BY DEF Stops
        <3> QED
            BY <1>3, <1>5, <2>1, <3>1, <3>2
    <2>2. CASE F!StartAgent(a) \/ F!Leave(a) \/ F!FailApply(a) \/ F!StreamOver(a)
        BY <1>1, <2>1, <2>2 DEF F!StartAgent, F!Leave, F!FailApply, F!StreamOver, F!Exit
    <2>3. CASE F!KillAgent(a)
        <3>1. /\ restarts < MaxRestarts /\ restarts' = restarts + 1
              /\ agent' = [agent EXCEPT ![a] = F!Down] /\ UNCHANGED <<cursor, zone>>
            BY <2>3 DEF F!KillAgent, F!Exit
        <3>2. restarts' \in 0..MaxRestarts
            BY <1>1, <3>1
        <3> QED
            BY <2>1, <3>1, <3>2
    <2>4. ASSUME NEW c \in Call, F!Subscribe(a, c) PROVE Goal
        <3>1. PICK p : p = [pc |-> "reading", call |-> c, current |-> cursor[a],
                            recovering |-> TRUE]
            OBVIOUS
        <3>2. agent' = [agent EXCEPT ![a] = p] /\ UNCHANGED <<cursor, zone, restarts>>
            BY <2>4, <3>1 DEF F!Subscribe
        <3>3. cursor' = [cursor EXCEPT ![a] = cursor[a]] /\ zone' = [zone EXCEPT ![a] = zone[a]]
            BY <1>4, <3>2
        <3>4. (agent'[a] = p /\ cursor'[a] = cursor[a] /\ zone'[a] = zone[a]) => Subscribes(a)
            BY <2>4, <3>1 DEF Subscribes
        <3> QED
            BY <1>1, <1>3, <1>5, <3>2, <3>3, <3>4
    <2>5. PICK r : r = agent[a]
        OBVIOUS
    <2>6. CASE F!Skip(a)
        <3>1. PICK b : b = F!StillRecovering(a)
            OBVIOUS
        <3>2. /\ F!HasMessage(a) /\ F!Receive(a)
              /\ F!Verdict(agent[a], F!Message(a)) = "skip"
              /\ agent' = [agent EXCEPT ![a] = [r EXCEPT !.recovering = b]]
              /\ UNCHANGED <<cursor, zone, restarts>>
            BY <2>5, <2>6, <3>1 DEF F!Skip
        <3>3. r \in [pc : {"reading"}, call : Call, current : 0..MaxPublish, recovering : BOOLEAN]
            BY <2>5, <3>2, ProcessRecords DEF F!HasMessage
        <3>4. PICK p : p = [r EXCEPT !.recovering = b]
            OBVIOUS
        <3>5. p = [pc |-> "reading", call |-> r.call, current |-> r.current, recovering |-> b]
            BY <3>3, <3>4
        <3>6. cursor' = [cursor EXCEPT ![a] = cursor[a]] /\ zone' = [zone EXCEPT ![a] = zone[a]]
            BY <1>4, <3>2
        <3>7. (agent'[a] = p /\ cursor'[a] = cursor[a] /\ zone'[a] = zone[a]) => Skips(a)
            BY <2>5, <3>1, <3>2, <3>5 DEF Skips
        <3>8. agent' = [agent EXCEPT ![a] = p]
            BY <3>2, <3>4
        <3>9. restarts' \in 0..MaxRestarts
            BY <1>1, <3>2
        <3> QED
            BY <1>3, <1>5, <3>6, <3>7, <3>8, <3>9
    <2>7. CASE F!RemoveZone(a)
        <3>1. PICK b, m : b = F!StillRecovering(a) /\ m = F!Message(a)
            OBVIOUS
        <3>2. PICK p : p = [pc |-> "removed", call |-> r.call, current |-> r.current,
                            recovering |-> b, change |-> m]
            OBVIOUS
        <3>3. PICK z : z = [zone[a] EXCEPT ![objectKey[m.key]] = F!Missing]
            OBVIOUS
        <3>4. /\ F!HasMessage(a) /\ F!Receive(a)
              /\ F!Verdict(agent[a], F!Message(a)) = "apply"
              /\ agent' = [agent EXCEPT ![a] = p] /\ zone' = [zone EXCEPT ![a] = z]
              /\ UNCHANGED <<cursor, restarts>>
            BY <2>5, <2>7, <3>1, <3>2, <3>3 DEF F!RemoveZone
        <3>5. cursor' = [cursor EXCEPT ![a] = cursor[a]]
            BY <1>4, <3>4
        <3>6. (agent'[a] = p /\ cursor'[a] = cursor[a] /\ zone'[a] = z) => Removes(a)
            BY <2>5, <3>1, <3>2, <3>3, <3>4 DEF Removes
        <3> QED
            BY <1>1, <1>3, <1>5, <3>4, <3>5, <3>6
    <2>8. CASE F!RenameZone(a)
        <3>1. PICK m : m = r.change
            OBVIOUS
        <3>2. PICK z : z = [zone[a] EXCEPT ![objectKey[m.key]] = [ver |-> m.index, val |-> m.val]]
            OBVIOUS
        <3>3. /\ r.pc = "removed"
              /\ agent' = [agent EXCEPT ![a] = [r EXCEPT !.pc = "renamed"]]
              /\ zone' = [zone EXCEPT ![a] = z]
              /\ UNCHANGED <<cursor, restarts>>
            BY <2>5, <2>8, <3>1, <3>2 DEF F!RenameZone
        <3>4. r \in [pc : {"removed", "renamed"}, call : Call, current : 0..MaxPublish,
                     recovering : BOOLEAN, change : M!Envelope]
            BY <2>5, <3>3, ProcessRecords DEF Applying
        <3>5. PICK p : p = [r EXCEPT !.pc = "renamed"]
            OBVIOUS
        <3>6. p = [pc |-> "renamed", call |-> r.call, current |-> r.current,
                   recovering |-> r.recovering, change |-> m]
            BY <3>1, <3>4, <3>5
        <3>7. cursor' = [cursor EXCEPT ![a] = cursor[a]]
            BY <1>4, <3>3
        <3>8. (agent'[a] = p /\ cursor'[a] = cursor[a] /\ zone'[a] = z) => Renames(a)
            BY <2>5, <3>1, <3>2, <3>3, <3>6 DEF Renames
        <3>9. agent' = [agent EXCEPT ![a] = p]
            BY <3>3, <3>5
        <3> QED
            BY <1>1, <1>3, <1>5, <3>3, <3>7, <3>8, <3>9
    <2>9. CASE F!SaveApplied(a)
        <3>1. PICK m : m = r.change
            OBVIOUS
        <3>2. PICK p : p = [pc |-> "reading", call |-> r.call, current |-> m.index,
                            recovering |-> r.recovering]
            OBVIOUS
        <3>3. PICK i : i = IF m.index <= cursor[a] THEN cursor[a] ELSE m.index
            OBVIOUS
        <3>4. /\ r.pc = "renamed"
              /\ agent' = [agent EXCEPT ![a] = p]
              /\ cursor' = [cursor EXCEPT ![a] = i]
              /\ UNCHANGED <<zone, restarts>>
            BY <2>5, <2>9, <3>1, <3>2, <3>3 DEF F!SaveApplied
        <3>5. zone' = [zone EXCEPT ![a] = zone[a]]
            BY <1>4, <3>4
        <3>6. (agent'[a] = p /\ cursor'[a] = i /\ zone'[a] = zone[a]) => Saves(a)
            BY <2>5, <3>1, <3>2, <3>3, <3>4 DEF Saves
        <3> QED
            BY <1>1, <1>3, <1>5, <3>4, <3>5, <3>6
    <2> QED
        BY <1>5, <2>2, <2>3, <2>4, <2>6, <2>7, <2>8, <2>9 DEF F!AgentStep
<1>6. ASSUME NEW c \in Call, F!Forget(c) PROVE Goal
    BY <1>2, <1>6 DEF F!Forget, agentVars
<1>7. ASSUME MasterStep \/ UNCHANGED vars PROVE Goal
    BY <1>2, <1>7 DEF MasterStep, vars, agentVars
<1>8. ASSUME AgentStep PROVE Goal
    BY <1>5, <1>6, <1>8 DEF AgentStep, F!Next
<1>9. Goal
    BY <1>7, <1>8 DEF Next
<1> QED
    BY <1>9 DEF Goal

----------------------------------------------------------------------------
\* Types.

\* What the two queues of a call hold.
CallTypes ==
    \A c \in Call :
        /\ Runs(c) => handler[c].chan \in Seq(M!Envelope) /\ handler[c].cap \in Nat
        /\ Exists(c) =>
            /\ stream[c].msgs \in Seq(M!Envelope)
            /\ stream[c].from \in 0..MaxPublish /\ stream[c].alive \in BOOLEAN

SkipTypes == skipped \in [Agent -> SUBSET (Key \X M!Index)]

TypeInv == LogInv /\ SubInv /\ CallTypes /\ ReadersOwn /\ SkipTypes /\ F!TypeOK

LEMMA TypeInvInit == Init => TypeInv
<1> SUFFICES ASSUME Init PROVE TypeInv
    OBVIOUS
<1>1. /\ handler = [c \in Call |-> M!NotRunning] /\ stream = [c \in Call |-> M!NoStream]
      /\ skipped = [a \in Agent |-> {}]
      /\ agent = [a \in Agent |-> F!Down] /\ cursor = [a \in Agent |-> 0]
      /\ zone = [a \in Agent |-> [o \in Object |-> F!Missing]] /\ restarts = 0
    BY DEF Init, M!Init, F!Init
<1>2. CallTypes /\ ReadersOwn /\ SkipTypes
    BY <1>1 DEF CallTypes, ReadersOwn, SkipTypes, Runs, Exists, Reader, F!Down
<1>3. F!TypeOK
    BY <1>1 DEF F!TypeOK, F!Processes
<1> QED
    BY <1>2, <1>3, LogInvInit, SubInvInit DEF TypeInv

\* TypeInv is stronger than the type invariant of the specification.
LEMMA TypeInvTypes == TypeInv => TypeOK
<1> SUFFICES ASSUME TypeInv PROVE TypeOK
    OBVIOUS
<1>1. ASSUME NEW c \in Call PROVE handler[c] \in M!Handlers \cup {M!NotRunning}
    <2>1. CASE ~Runs(c)
        BY <2>1 DEF Runs
    <2>2. CASE Runs(c)
        <3>1. PICK h : h = handler[c]
            OBVIOUS
        <3>2. IsHandler(h) /\ h.chan \in Seq(M!Envelope) /\ h.cap \in Nat
            BY <2>2, <3>1, CallRecords DEF TypeInv, CallTypes
        <3> QED
            BY <3>1, <3>2 DEF IsHandler, M!Handlers
    <2> QED
        BY <2>1, <2>2
<1>2. ASSUME NEW c \in Call PROVE stream[c] \in M!Streams \cup {M!NoStream}
    <2>1. CASE ~Exists(c)
        BY <2>1 DEF Exists
    <2>2. CASE Exists(c)
        <3>1. PICK s : s = stream[c]
            OBVIOUS
        <3>2. /\ IsStream(s) /\ s.msgs \in Seq(M!Envelope)
              /\ s.from \in 0..MaxPublish /\ s.alive \in BOOLEAN
            BY <2>2, <3>1, CallRecords DEF TypeInv, CallTypes
        <3> QED
            BY <3>1, <3>2 DEF IsStream, M!Streams
    <2> QED
        BY <2>1, <2>2
<1>3. /\ handler \in [Call -> M!Handlers \cup {M!NotRunning}]
      /\ stream \in [Call -> M!Streams \cup {M!NoStream}]
      /\ subscribers \in [Agent -> Call \cup {None}]
    BY <1>1, <1>2 DEF TypeInv, SubInv, CallTyping, OfCalls
<1> QED
    BY <1>3, LogInvTypes DEF TypeInv, SkipTypes, TypeOK, M!TypeOK

LEMMA QueueTypes ==
    ASSUME CallTypes, NEW c \in Call
    PROVE  Msgs(c) \in Seq(M!Envelope) /\ Chan(c) \in Seq(M!Envelope) /\ InFlight(c) \in Seq(M!Envelope)
<1>1. Msgs(c) \in Seq(M!Envelope) /\ Chan(c) \in Seq(M!Envelope)
    BY EmptySeq DEF CallTypes, Msgs, Chan, Runs, Exists
<1> QED
    BY <1>1, ConcatProperties DEF InFlight

LEMMA SentType ==
    ASSUME LogInv, NEW p \in Publisher, publisher[p].pc = "logged"
    PROVE  Sent(p) \in M!Envelope
<1>1. publisher[p] \in {M!Done} \cup
            [pc : {"writing", "stored"}, key : Key, val : M!Index] \cup
            [pc : {"logged"}, key : Key, val : M!Index, index : M!Index]
    BY LogInvTypes
<1>2. publisher[p] \in [pc : {"logged"}, key : Key, val : M!Index, index : M!Index]
    BY <1>1 DEF M!Done
<1> QED
    BY <1>2 DEF Sent, M!Envelope, M!Content, M!Index

\* A replay, of the log and the store as they are.
LEMMA ReplayedBacklog ==
    ASSUME LogInv, NEW v \in 0..MaxPublish, NEW unreadable \in SUBSET Key
    PROVE  IsRecovery(M!Since(v, unreadable), v, unreadable)
<1>1. /\ top \in [Key -> 0..latest] /\ latest \in 0..MaxPublish /\ store \in [Object -> M!Content]
      /\ \A k, h \in Key : top[k] # 0 /\ top[k] = top[h] => k = h
    BY LogInvTypes DEF LogInv, StoreInv, LogTyping, DistinctTops
<1>2. v \in Nat
    OBVIOUS
<1> QED
    BY <1>1, <1>2, SinceIsRecovery

LEMMA NextKeepsCallTypes ==
    ASSUME TypeInv, SubInv', [Next]_vars
    PROVE  CallTypes'
<1> SUFFICES ASSUME NEW c \in Call
             PROVE  /\ Runs(c)' => handler'[c].chan \in Seq(M!Envelope) /\ handler'[c].cap \in Nat
                    /\ Exists(c)' =>
                        /\ stream'[c].msgs \in Seq(M!Envelope)
                        /\ stream'[c].from \in 0..MaxPublish /\ stream'[c].alive \in BOOLEAN
    BY DEF CallTypes
<1>1. SubInv /\ ReadersOwn /\ LogInv /\ CallTypes /\ F!TypeOK
    BY DEF TypeInv
<1>2. Moves(c)
    BY <1>1, NextMoves
<1>3. Msgs(c) \in Seq(M!Envelope) /\ Chan(c) \in Seq(M!Envelope)
    BY <1>1, QueueTypes
<1>4. /\ Exists(c)' => stream'[c].msgs = Msgs(c)'
      /\ Runs(c)' => handler'[c].chan = Chan(c)'
    BY DEF Msgs, Chan, Exists, Runs
<1>5. /\ Exists(c) => stream[c].from \in 0..MaxPublish /\ stream[c].alive \in BOOLEAN
      /\ Runs(c) => handler[c].cap \in Nat
    BY <1>1 DEF CallTypes
<1>6. ASSUME Msgs(c)' \in Seq(M!Envelope), Chan(c)' \in Seq(M!Envelope),
             HandlerKept(c) \/ ~Runs(c)', StreamKept(c) \/ ~Exists(c)'
      PROVE  /\ Runs(c)' => handler'[c].chan \in Seq(M!Envelope) /\ handler'[c].cap \in Nat
             /\ Exists(c)' =>
                /\ stream'[c].msgs \in Seq(M!Envelope)
                /\ stream'[c].from \in 0..MaxPublish /\ stream'[c].alive \in BOOLEAN
    BY <1>4, <1>5, <1>6 DEF HandlerKept, StreamKept
<1>7. CASE Quiet(c) \/ Ends(c) \/ Forgets(c)
    BY <1>3, <1>6, <1>7, EmptySeq DEF Quiet, Ends, Forgets
<1>8. CASE Sends(c)
    BY <1>3, <1>6, <1>8, SentStaysInFlight DEF Sends
<1>9. CASE Adds(c)
    <2>1. PICK p \in Publisher :
            /\ M!Broadcast(p) /\ HandlerKept(c) /\ StreamKept(c)
            /\ Msgs(c)' = Msgs(c) /\ Chan(c)' = Append(Chan(c), Sent(p))
        BY <1>9 DEF Adds
    <2>2. Sent(p) \in M!Envelope
        BY <1>1, <2>1, SentType DEF M!Broadcast
    <2>3. Chan(c)' \in Seq(M!Envelope)
        BY <1>3, <2>1, <2>2, AppendProperties
    <2> QED
        BY <1>3, <1>6, <2>1, <2>3
<1>10. CASE Replays(c)
    <2>1. PICK unreadable \in SUBSET Key : \E backlog :
            /\ backlog = M!Since(stream[c].from, unreadable)
            /\ Exists(c) /\ Chan(c)' = backlog /\ Msgs(c)' = Msgs(c)
            /\ handler'[c].cap = Len(backlog) + SubscriberBuffer
            /\ stream'[c].from = stream[c].from /\ stream'[c].alive = stream[c].alive
        BY <1>10 DEF Replays
    <2>2. PICK backlog :
            /\ backlog = M!Since(stream[c].from, unreadable)
            /\ Exists(c) /\ Chan(c)' = backlog /\ Msgs(c)' = Msgs(c)
            /\ handler'[c].cap = Len(backlog) + SubscriberBuffer
            /\ stream'[c].from = stream[c].from /\ stream'[c].alive = stream[c].alive
        BY <2>1
    <2>3. backlog \in Seq(M!Envelope)
        <3>1. stream[c].from \in 0..MaxPublish
            BY <1>5, <2>2
        <3> QED
            BY <1>1, <2>2, <3>1, ReplayedBacklog DEF IsRecovery
    <2>4. Len(backlog) + SubscriberBuffer \in Nat
        BY <2>3, LenProperties
    <2> QED
        BY <1>3, <1>4, <1>5, <2>2, <2>3, <2>4
<1>11. CASE Empties(c)
    <2>1. /\ HandlerKept(c) /\ Chan(c)' = Chan(c) /\ Exists(c) /\ Msgs(c)' = <<>>
          /\ stream'[c].from = stream[c].from /\ stream'[c].alive = FALSE
        BY <1>11 DEF Empties
    <2> QED
        BY <1>3, <1>4, <1>5, <2>1, EmptySeq DEF HandlerKept
<1>12. CASE Takes(c)
    <2>1. /\ HandlerKept(c) /\ StreamKept(c) /\ Msgs(c) # <<>> /\ Msgs(c)' = Tail(Msgs(c))
          /\ Chan(c)' = Chan(c)
        BY <1>12 DEF Takes
    <2> QED
        BY <1>3, <1>6, <2>1, HeadTailProperties
<1>13. CASE Opens(c)
    <2>1. /\ ~Runs(c)' /\ Msgs(c)' = <<>> /\ stream'[c].alive = TRUE
          /\ \E a \in Agent : stream'[c].from = cursor[a]
        BY <1>13 DEF Opens
    <2>2. stream'[c].from \in 0..MaxPublish
        BY <1>1, <2>1 DEF F!TypeOK
    <2> QED
        BY <1>4, <2>1, <2>2, EmptySeq
<1> QED
    BY <1>2, <1>7, <1>8, <1>9, <1>10, <1>11, <1>12, <1>13 DEF Moves

\* The stream that an agent reads stays its own.
LEMMA StreamStaysOwn ==
    ASSUME SubInv, ReadersOwn, [Next]_vars, NEW a \in Agent, Reader(a)
    PROVE  stream'[agent[a].call] # M!NoStream /\ stream'[agent[a].call].agent = a
<1>1. PICK c \in Call : c = agent[a].call /\ Exists(c) /\ stream[c].agent = a
    BY DEF ReadersOwn
<1>2. Moves(c)
    BY NextMoves
<1>3. ~F!Forget(c)
    BY <1>1 DEF F!Forget, Reader
<1>4. StreamKept(c) \/ Replays(c) \/ Empties(c)
    BY <1>1, <1>2, <1>3 DEF Moves, Quiet, Sends, Adds, Ends, Takes, Opens, Forgets
<1>5. Exists(c)' /\ stream'[c].agent = stream[c].agent
    BY <1>1, <1>4 DEF StreamKept, Replays, Empties
<1> QED
    BY <1>1, <1>5 DEF Exists

\* The message an agent looks at.
LEMMA NextMessage ==
    ASSUME TypeInv, NEW a \in Agent, F!HasMessage(a)
    PROVE  LET c == agent[a].call
               m == F!Message(a)
           IN  /\ agent[a].pc = "reading" /\ Reader(a) /\ c \in Call /\ Exists(c)
               /\ stream[c].agent = a
               /\ Msgs(c) # <<>> /\ Msgs(c) \in Seq(M!Envelope)
               /\ m = Head(Msgs(c)) /\ m \in M!Envelope
<1> DEFINE c == agent[a].call
<1>1. agent[a].pc = "reading" /\ Reader(a)
    BY DEF F!HasMessage, Reader
<1>2. c \in Call /\ Exists(c) /\ stream[c].agent = a
    BY <1>1 DEF TypeInv, ReadersOwn
<1>3. Msgs(c) # <<>> /\ F!Message(a) = Head(Msgs(c))
    BY <1>2 DEF F!HasMessage, F!Message, Msgs, Exists
<1>4. Msgs(c) \in Seq(M!Envelope)
    BY <1>2, QueueTypes DEF TypeInv
<1>5. Head(Msgs(c)) \in M!Envelope
    BY <1>3, <1>4, HeadTailProperties
<1> QED
    BY <1>1, <1>2, <1>3, <1>4, <1>5

\* What agent.consume applies.
LEMMA Applied ==
    ASSUME NEW proc, NEW m \in M!Envelope, F!Verdict(proc, m) = "apply", proc.current \in Nat
    PROVE  /\ m.val # M!Empty /\ m.index > proc.current
           /\ m.tier # "RECOVER" => m.index = proc.current + 1
<1>1. m.index \in Nat /\ m.tier \in {"RECOVER", "NORMAL"}
    BY DEF M!Envelope, M!Index
<1>2. m.tier = "NORMAL" => ~(m.index < proc.current + 1) /\ ~(m.index > proc.current + 1)
    BY <1>1 DEF F!Verdict
<1>3. m.tier = "RECOVER" => ~(m.index <= proc.current)
    BY <1>1 DEF F!Verdict
<1>4. m.val # M!Empty
    BY <1>1 DEF F!Verdict, F!Empty, M!Empty
<1> QED
    BY <1>1, <1>2, <1>3, <1>4

LEMMA NextKeepsReadersOwn ==
    ASSUME TypeInv, [Next]_vars
    PROVE  ReadersOwn'
<1>1. SubInv /\ ReadersOwn /\ F!TypeOK
    BY DEF TypeInv
<1> SUFFICES ASSUME NEW a \in Agent, Reader(a)'
             PROVE  /\ agent'[a].call \in Call /\ stream'[agent'[a].call] # M!NoStream
                    /\ stream'[agent'[a].call].agent = a
                    /\ agent'[a].pc \in Applying => agent'[a].change.val # M!Empty
    BY DEF ReadersOwn, Exists
<1>2. Turns(a) /\ ~Stops(a)
    BY <1>1, AgentTurns DEF Stops, Reader, F!Down, F!Retrying
<1>3. CASE Subscribes(a)
    <2>1. PICK c \in Call : F!Subscribe(a, c) /\ agent'[a].call = c /\ agent'[a].pc = "reading"
        BY <1>3 DEF Subscribes
    <2>2. PICK s :
            /\ s = [status |-> "called", agent |-> a, from |-> cursor[a], msgs |-> <<>>,
                    alive |-> TRUE]
            /\ stream' = [stream EXCEPT ![c] = s]
        BY <2>1 DEF F!Subscribe
    <2>3. stream'[c] = s
        BY <1>1, <2>2 DEF SubInv, CallTyping, OfCalls
    <2>4. stream'[c] # M!NoStream /\ stream'[c].agent = a
        BY <2>2, <2>3 DEF M!NoStream
    <2> QED
        BY <2>1, <2>4 DEF Applying
<1>4. CASE Rests(a) \/ Skips(a) \/ Removes(a) \/ Renames(a) \/ Saves(a)
    <2>1. Reader(a) /\ agent'[a].call = agent[a].call
        BY <1>4 DEF Rests, Skips, Removes, Renames, Saves, Reader, F!HasMessage
    <2>2. /\ agent[a].call \in Call /\ stream'[agent[a].call] # M!NoStream
          /\ stream'[agent[a].call].agent = a
        BY <1>1, <2>1, StreamStaysOwn DEF ReadersOwn
    <2>3. agent'[a].pc \in Applying => agent'[a].change.val # M!Empty
        <3>1. CASE Rests(a) \/ Renames(a)
            BY <1>1, <2>1, <3>1 DEF ReadersOwn, Rests, Renames, Applying
        <3>2. CASE Removes(a)
            <4>1. F!HasMessage(a) /\ F!Verdict(agent[a], F!Message(a)) = "apply"
                  /\ agent'[a].change = F!Message(a)
                BY <3>2 DEF Removes
            <4>2. F!Message(a) \in M!Envelope /\ agent[a].pc = "reading"
                BY <4>1, NextMessage
            <4>3. agent[a].current \in Nat
                BY <1>1, <4>2, ProcessRecords
            <4> QED
                BY <4>1, <4>2, <4>3, Applied
        <3>3. CASE Skips(a) \/ Saves(a)
            BY <3>3 DEF Skips, Saves, Applying
        <3> QED
            BY <1>4, <3>1, <3>2, <3>3
    <2> QED
        BY <2>1, <2>2, <2>3
<1> QED
    BY <1>2, <1>3, <1>4 DEF Turns

LEMMA NextKeepsFollowerTypes ==
    ASSUME TypeInv, [Next]_vars
    PROVE  F!TypeOK'
<1>1. ReadersOwn /\ F!TypeOK
    BY DEF TypeInv
<1>2. /\ OfAgents(agent') /\ OfAgents(cursor') /\ OfAgents(zone')
      /\ restarts' \in 0..MaxRestarts
    BY <1>1, AgentTurns
<1>3. ASSUME NEW a \in Agent
      PROVE  /\ agent'[a] \in F!Processes /\ cursor'[a] \in 0..MaxPublish
             /\ zone'[a] \in [Object -> F!ZoneFile \cup {F!Missing}]
    <2>1. Turns(a)
        BY <1>1, AgentTurns
    <2>2. /\ agent[a] \in F!Processes /\ cursor[a] \in 0..MaxPublish
          /\ zone[a] \in [Object -> F!ZoneFile \cup {F!Missing}]
        BY <1>1 DEF F!TypeOK
    <2>3. CASE Rests(a) \/ Stops(a)
        BY <2>2, <2>3 DEF Rests, Stops, F!Processes
    <2>4. CASE Subscribes(a)
        BY <2>2, <2>4 DEF Subscribes, F!Processes
    <2>5. PICK r : r = agent[a]
        OBVIOUS
    <2>6. ASSUME F!HasMessage(a)
          PROVE  /\ r \in [pc : {"reading"}, call : Call, current : 0..MaxPublish,
                           recovering : BOOLEAN]
                 /\ F!Message(a) \in F!Envelope
                 /\ F!StillRecovering(a) \in BOOLEAN
        <3>1. agent[a].pc = "reading" /\ F!Message(a) \in M!Envelope
            BY <2>6, NextMessage
        <3>2. r \in [pc : {"reading"}, call : Call, current : 0..MaxPublish, recovering : BOOLEAN]
            BY <1>1, <2>5, <3>1, ProcessRecords
        <3> QED
            BY <2>5, <3>1, <3>2, SameEnvelope DEF F!StillRecovering
    <2>7. CASE Skips(a)
        BY <2>2, <2>5, <2>6, <2>7 DEF Skips, F!Processes
    <2>8. CASE Removes(a)
        <3>1. PICK m, b : m = F!Message(a) /\ b = F!StillRecovering(a)
            OBVIOUS
        <3>2. /\ agent'[a] = [pc |-> "removed", call |-> r.call, current |-> r.current,
                              recovering |-> b, change |-> m]
              /\ cursor'[a] = cursor[a]
              /\ zone'[a] = [zone[a] EXCEPT ![objectKey[m.key]] = F!Missing]
              /\ F!HasMessage(a)
            BY <2>5, <2>8, <3>1 DEF Removes
        <3>3. /\ r \in [pc : {"reading"}, call : Call, current : 0..MaxPublish,
                        recovering : BOOLEAN]
              /\ m \in F!Envelope /\ b \in BOOLEAN
            BY <2>6, <3>1, <3>2
        <3>4. agent'[a] \in F!Processes
            BY <3>2, <3>3 DEF F!Processes
        <3>5. PICK w, f : f = F!Missing /\ zone'[a] = [zone[a] EXCEPT ![w] = f]
            BY <3>2
        <3>6. zone'[a] \in [Object -> F!ZoneFile \cup {F!Missing}]
            <4>1. f \in F!ZoneFile \cup {F!Missing}
                BY <3>5
            <4> QED
                BY <2>2, <3>5, <4>1, FileReplaced
        <3> QED
            BY <2>2, <3>2, <3>4, <3>6
    <2>9. ASSUME r.pc \in Applying
          PROVE  /\ r \in [pc : {"removed", "renamed"}, call : Call, current : 0..MaxPublish,
                           recovering : BOOLEAN, change : F!Envelope]
                 /\ r.change \in F!Envelope /\ r.change.index \in 1..MaxPublish
                 /\ [ver |-> r.change.index, val |-> r.change.val] \in F!ZoneFile
        <3>1. r \in [pc : {"removed", "renamed"}, call : Call, current : 0..MaxPublish,
                     recovering : BOOLEAN, change : F!Envelope]
            BY <1>1, <2>5, <2>9, SameEnvelope, ProcessRecords
        <3>2. PICK m \in F!Envelope : m = r.change
            BY <3>1
        <3>3. m.val # F!Empty
            BY <1>1, <2>5, <2>9, <3>2 DEF ReadersOwn, Reader, Applying, F!Empty, M!Empty
        <3> QED
            BY <3>1, <3>2, <3>3 DEF F!Envelope, F!ZoneFile
    <2>10. CASE Renames(a)
        <3>1. PICK m, f : m = r.change /\ f = [ver |-> m.index, val |-> m.val]
            OBVIOUS
        <3>2. /\ r.pc = "removed"
              /\ agent'[a] = [pc |-> "renamed", call |-> r.call, current |-> r.current,
                              recovering |-> r.recovering, change |-> m]
              /\ cursor'[a] = cursor[a] /\ zone'[a] = [zone[a] EXCEPT ![objectKey[m.key]] = f]
            BY <2>5, <2>10, <3>1 DEF Renames
        <3>3. agent'[a] \in F!Processes
            BY <2>9, <3>1, <3>2 DEF F!Processes, Applying
        <3>4. f \in F!ZoneFile
            BY <2>9, <3>1, <3>2 DEF Applying
        <3>5. PICK w : zone'[a] = [zone[a] EXCEPT ![w] = f]
            BY <3>2
        <3>6. zone'[a] \in [Object -> F!ZoneFile \cup {F!Missing}]
            <4>1. f \in F!ZoneFile \cup {F!Missing}
                BY <3>4
            <4> QED
                BY <2>2, <3>5, <4>1, FileReplaced
        <3> QED
            BY <2>2, <3>2, <3>3, <3>6
    <2>11. CASE Saves(a)
        <3>1. /\ r.pc = "renamed"
              /\ agent'[a] = [pc |-> "reading", call |-> r.call,
                              current |-> r.change.index, recovering |-> r.recovering]
              /\ cursor'[a] = IF r.change.index <= cursor[a] THEN cursor[a] ELSE r.change.index
              /\ zone'[a] = zone[a]
            BY <2>5, <2>11 DEF Saves
        <3>2. r.change.index \in 1..MaxPublish /\ r.call \in Call /\ r.recovering \in BOOLEAN
            BY <2>9, <3>1 DEF Applying
        <3>3. agent'[a] \in F!Processes
            BY <3>1, <3>2 DEF F!Processes
        <3> QED
            BY <2>2, <3>1, <3>2, <3>3
    <2> QED
        BY <2>1, <2>3, <2>4, <2>7, <2>8, <2>10, <2>11 DEF Turns
<1> QED
    BY <1>2, <1>3 DEF F!TypeOK, OfAgents

\* Only a replay leaves changes out.
LEMMA SkippedSteps ==
    ASSUME [Next]_vars
    PROVE  skipped' = skipped \/ \E c \in Call : \E u \in SUBSET Key : M!Replay(c, u)
BY DEF Next, MasterStep, M!Next, M!PublisherStep, M!HandlerStep, M!StartPublish,
    M!WriteContent, M!LogChange, M!FailPublish, M!Broadcast, M!RejectFuture, M!Register, M!Send,
    M!LeaveClosed, M!LeaveCancelled, M!Unregister, M!PanicOnClose, M!CrashMaster,
    M!ReplaceMaster, M!StartMaster, M!ghosts, AgentStep, masterVars, vars

LEMMA NextKeepsSkipTypes ==
    ASSUME TypeInv, [Next]_vars
    PROVE  SkipTypes'
<1>1. CASE skipped' = skipped
    BY <1>1 DEF TypeInv, SkipTypes
<1>2. ASSUME NEW c \in Call, NEW u \in SUBSET Key, M!Replay(c, u) PROVE SkipTypes'
    <2>1. PICK more :
            /\ more = {<<k, top[k]>> : k \in {h \in u : top[h] > stream[c].from}}
            /\ skipped' = [skipped EXCEPT ![stream[c].agent] = @ \cup more]
        BY <1>2 DEF M!Replay
    <2>2. stream[c].from \in Nat
        <3>1. stream[c].status # "none"
            BY <1>2 DEF M!Replay
        <3> QED
            BY <3>1, CallRecords DEF TypeInv, CallTypes
    <2>3. top \in [Key -> 0..MaxPublish]
        BY LogInvTypes DEF TypeInv
    <2>4. \A k \in u : top[k] > stream[c].from => top[k] \in M!Index
        BY <2>2, <2>3 DEF M!Index
    <2>5. more \subseteq Key \X M!Index
        BY <2>1, <2>4
    <2> QED
        BY <2>1, <2>5 DEF TypeInv, SkipTypes
<1> QED
    BY <1>1, <1>2, SkippedSteps

LEMMA NextKeepsTypeInv == TypeInv /\ [Next]_vars => TypeInv'
<1> SUFFICES ASSUME TypeInv, [Next]_vars PROVE TypeInv'
    OBVIOUS
<1>1. LogInv' /\ SubInv'
    BY NextKeepsLog, NextKeepsSub DEF TypeInv
<1> QED
    BY <1>1, NextKeepsCallTypes, NextKeepsReadersOwn, NextKeepsFollowerTypes,
        NextKeepsSkipTypes DEF TypeInv

\* Every variable keeps its type, whatever fails and restarts: the log never has
\* more changes than were published, and only messages travel.
THEOREM ReplicationTyping == Spec => []TypeOK
BY TypeInvInit, NextKeepsTypeInv, TypeInvTypes, PTL DEF Spec

----------------------------------------------------------------------------
\* Order.

\* What a step does to all that is in flight on a call.
Keeps(c) == InFlight(c)' = InFlight(c)

Extends(c) ==
    \E p \in Publisher :
        M!Broadcast(p) /\ Runs(c) /\ Runs(c)' /\ InFlight(c)' = Append(InFlight(c), Sent(p))

Refills(c) ==
    \E unreadable \in SUBSET Key :
        /\ M!Replay(c, unreadable) /\ stream[c].from \in 0..MaxPublish
        /\ InFlight(c) = <<>> /\ InFlight(c)' = M!Since(stream[c].from, unreadable)

Cuts(c) ==
    /\ ~Runs(c)'
    /\ Len(InFlight(c)') <= Len(InFlight(c))
    /\ \A i \in 1..Len(InFlight(c)') : InFlight(c)'[i] = InFlight(c)[i]

Drops(c) == Empties(c) /\ Part(InFlight(c)', InFlight(c))

Advances(c) ==
    \E a \in Agent :
        /\ F!Skip(a) \/ F!Leave(a) \/ F!RemoveZone(a)
        /\ agent[a].call = c /\ (Runs(c)' => Runs(c))
        /\ InFlight(c) # <<>> /\ F!Message(a) = InFlight(c)[1]
        /\ Len(InFlight(c)') = Len(InFlight(c)) - 1
        /\ \A i \in 1..Len(InFlight(c)') : InFlight(c)'[i] = InFlight(c)[i + 1]

Vanishes(c) == (Opens(c) \/ Forgets(c)) /\ ~Runs(c)' /\ InFlight(c)' = <<>>

Flows(c) ==
    \/ Keeps(c) /\ (Runs(c)' => Runs(c))
    \/ Extends(c) \/ Refills(c) \/ Cuts(c) \/ Drops(c) \/ Advances(c) \/ Vanishes(c)

CalledEmpty == \A c \in Call : stream[c].status = "called" => Msgs(c) = <<>>

LEMMA NextFlows ==
    ASSUME TypeInv, CalledEmpty, [Next]_vars, NEW c \in Call
    PROVE  Flows(c)
<1>1. SubInv /\ ReadersOwn /\ LogInv /\ CallTypes /\ TypeInv'
    BY NextKeepsTypeInv DEF TypeInv
<1>2. Moves(c)
    BY <1>1, NextMoves
<1>3. Msgs(c) \in Seq(M!Envelope) /\ Chan(c) \in Seq(M!Envelope)
    BY <1>1, QueueTypes
<1>4. InFlight(c) = Msgs(c) \o Chan(c) /\ InFlight(c)' = Msgs(c)' \o Chan(c)'
    BY DEF InFlight
<1>5. CASE Quiet(c)
    BY <1>4, <1>5 DEF Quiet, HandlerKept, Flows, Keeps
<1>6. CASE Sends(c)
    <2>1. InFlight(c)' = InFlight(c)
        BY <1>3, <1>4, <1>6, SentStaysInFlight DEF Sends
    <2> QED
        BY <1>6, <2>1 DEF Sends, HandlerKept, Flows, Keeps
<1>7. CASE Adds(c)
    <2>1. PICK p \in Publisher :
            /\ M!Broadcast(p) /\ HandlerKept(c) /\ Runs(c)
            /\ Msgs(c)' = Msgs(c) /\ Chan(c)' = Append(Chan(c), Sent(p))
        BY <1>7 DEF Adds
    <2>2. Sent(p) \in M!Envelope
        BY <1>1, <2>1, SentType DEF M!Broadcast
    <2>3. InFlight(c)' = Append(InFlight(c), Sent(p))
        BY <1>3, <1>4, <2>1, <2>2, AppendedInFlight
    <2>4. Extends(c)
        BY <2>1, <2>3 DEF Extends, HandlerKept
    <2> QED
        BY <2>4 DEF Flows
<1>8. CASE Replays(c)
    <2>1. PICK unreadable \in SUBSET Key :
            /\ M!Replay(c, unreadable) /\ stream[c].status = "called" /\ Exists(c)
            /\ Chan(c) = <<>> /\ Msgs(c)' = Msgs(c)
            /\ Chan(c)' = M!Since(stream[c].from, unreadable)
        BY <1>8 DEF Replays
    <2>2. Msgs(c) = <<>>
        BY <2>1 DEF CalledEmpty
    <2>3. stream[c].from \in 0..MaxPublish
        BY <1>1, <2>1 DEF CallTypes
    <2>4. M!Since(stream[c].from, unreadable) \in Seq(M!Envelope)
        BY <1>1, <2>3, ReplayedBacklog DEF IsRecovery
    <2>5. InFlight(c) = <<>> /\ InFlight(c)' = M!Since(stream[c].from, unreadable)
        BY <1>3, <1>4, <2>1, <2>2, <2>4, ConcatEmptySeq
    <2>6. Refills(c)
        BY <2>1, <2>3, <2>5 DEF Refills
    <2> QED
        BY <2>6 DEF Flows
<1>9. CASE Ends(c)
    <2>1. ~Runs(c)' /\ Chan(c)' = <<>> /\ Msgs(c)' = Msgs(c)
        BY <1>9 DEF Ends
    <2>2. InFlight(c)' = Msgs(c)
        BY <1>3, <1>4, <2>1, ConcatEmptySeq
    <2>3. Cuts(c)
        BY <1>3, <1>4, <2>1, <2>2, PartsInFlight DEF Cuts
    <2> QED
        BY <2>3 DEF Flows
<1>10. CASE Empties(c)
    <2>1. Msgs(c)' = <<>> /\ Chan(c)' = Chan(c)
        BY <1>10 DEF Empties
    <2>2. InFlight(c)' = Chan(c)
        BY <1>3, <1>4, <2>1, ConcatEmptySeq
    <2>3. Drops(c)
        BY <1>3, <1>4, <1>10, <2>2, PartsInFlight DEF Drops
    <2> QED
        BY <2>3 DEF Flows
<1>11. CASE Takes(c)
    <2>1. PICK a \in Agent :
            /\ F!Skip(a) \/ F!Leave(a) \/ F!RemoveZone(a)
            /\ F!HasMessage(a) /\ agent[a].call = c /\ (Runs(c)' => Runs(c))
            /\ Msgs(c) # <<>> /\ Msgs(c)' = Tail(Msgs(c)) /\ Chan(c)' = Chan(c)
        BY <1>11 DEF Takes, HandlerKept
    <2>2. F!Message(a) = Head(Msgs(c))
        BY <2>1, NextMessage
    <2>3. /\ InFlight(c) # <<>> /\ Head(Msgs(c)) = InFlight(c)[1]
          /\ Len(Tail(Msgs(c)) \o Chan(c)) = Len(InFlight(c)) - 1
          /\ \A i \in 1..Len(Tail(Msgs(c)) \o Chan(c)) :
                (Tail(Msgs(c)) \o Chan(c))[i] = InFlight(c)[i + 1]
        BY <1>3, <1>4, <2>1, TakenInFlight
    <2>4. InFlight(c)' = Tail(Msgs(c)) \o Chan(c)
        BY <1>4, <2>1
    <2>5. Advances(c)
        BY <2>1, <2>2, <2>3, <2>4 DEF Advances
    <2> QED
        BY <2>5 DEF Flows
<1>12. CASE Opens(c) \/ Forgets(c)
    <2>1. ~Runs(c)' /\ Msgs(c)' = <<>> /\ Chan(c)' = <<>>
        BY <1>12 DEF Opens, Forgets
    <2>2. InFlight(c)' = <<>>
        BY <1>4, <2>1, EmptySeq, ConcatEmptySeq
    <2> QED
        BY <1>12, <2>1, <2>2 DEF Flows, Vanishes
<1> QED
    BY <1>2, <1>5, <1>6, <1>7, <1>8, <1>9, <1>10, <1>11, <1>12 DEF Moves

\* Messages of a replay come first, in the order of their indexes.
Ordered(s) ==
    \A i, j \in 1..Len(s) :
        (i < j /\ s[j].tier = "RECOVER") => s[i].tier = "RECOVER" /\ s[i].index < s[j].index

TiersInv == CalledEmpty /\ \A c \in Call : Ordered(InFlight(c))

LEMMA OrderedParts ==
    ASSUME NEW s, NEW t, Len(s) \in Nat, Len(t) \in Nat, Ordered(s), Part(t, s)
    PROVE  Ordered(t)
<1>1. PICK d \in Nat : d + Len(t) <= Len(s) /\ \A i \in 1..Len(t) : t[i] = s[i + d]
    BY DEF Part
<1> SUFFICES ASSUME NEW i \in 1..Len(t), NEW j \in 1..Len(t), i < j, t[j].tier = "RECOVER"
             PROVE  t[i].tier = "RECOVER" /\ t[i].index < t[j].index
    BY DEF Ordered
<1>2. i + d \in 1..Len(s) /\ j + d \in 1..Len(s) /\ i + d < j + d
    BY <1>1
<1>3. t[i] = s[i + d] /\ t[j] = s[j + d]
    BY <1>1
<1> QED
    BY <1>2, <1>3 DEF Ordered

LEMMA OrderedAppend ==
    ASSUME NEW E, NEW s \in Seq(E), NEW e \in E, Ordered(s), e.tier = "NORMAL"
    PROVE  Ordered(Append(s, e))
<1>1. /\ Len(Append(s, e)) = Len(s) + 1 /\ Append(s, e)[Len(s) + 1] = e
      /\ \A i \in 1..Len(s) : Append(s, e)[i] = s[i]
      /\ Len(s) \in Nat
    BY AppendProperties, LenProperties
<1> SUFFICES ASSUME NEW i \in 1..Len(s) + 1, NEW j \in 1..Len(s) + 1, i < j,
                    Append(s, e)[j].tier = "RECOVER"
             PROVE  /\ Append(s, e)[i].tier = "RECOVER"
                    /\ Append(s, e)[i].index < Append(s, e)[j].index
    BY <1>1 DEF Ordered
<1>2. j # Len(s) + 1
    BY <1>1
<1>3. i \in 1..Len(s) /\ j \in 1..Len(s)
    BY <1>1, <1>2
<1> QED
    BY <1>1, <1>3 DEF Ordered

LEMMA OrderedRecovery ==
    ASSUME NEW s, NEW v, NEW u, IsRecovery(s, v, u)
    PROVE  Ordered(s)
BY DEF IsRecovery, Ordered

LEMMA FlightTypes == CallTypes => \A d \in Call : InFlight(d) \in Seq(M!Envelope)
BY QueueTypes

LEMMA TiersInvInit == Init => TiersInv
<1> SUFFICES ASSUME Init PROVE TiersInv
    OBVIOUS
<1>1. handler = [c \in Call |-> M!NotRunning] /\ stream = [c \in Call |-> M!NoStream]
    BY DEF Init, M!Init
<1>2. \A c \in Call : Msgs(c) = <<>> /\ Chan(c) = <<>>
    BY <1>1 DEF Msgs, Chan
<1>3. \A c \in Call : InFlight(c) = <<>>
    BY <1>2, EmptySeq, ConcatEmptySeq DEF InFlight
<1>4. Len(<<>>) = 0
    BY EmptySeq
<1> QED
    BY <1>2, <1>3, <1>4 DEF TiersInv, CalledEmpty, Ordered

LEMMA NextKeepsTiers == TypeInv /\ TiersInv /\ [Next]_vars => TiersInv'
<1> SUFFICES ASSUME TypeInv, TiersInv, [Next]_vars PROVE TiersInv'
    OBVIOUS
<1>1. TypeInv' /\ SubInv /\ ReadersOwn /\ CallTypes /\ LogInv /\ CalledEmpty
    BY NextKeepsTypeInv DEF TypeInv, TiersInv
<1>2. ASSUME NEW c \in Call, stream'[c].status = "called" PROVE Msgs(c)' = <<>>
    <2>1. Moves(c)
        BY <1>1, NextMoves
    <2>2. CASE Quiet(c) \/ Adds(c) \/ Ends(c)
        <3>1. StreamKept(c) /\ Msgs(c)' = Msgs(c)
            BY <2>2 DEF Quiet, Adds, Ends
        <3>2. CASE Exists(c)
            BY <1>1, <1>2, <3>1, <3>2 DEF StreamKept, CalledEmpty
        <3>3. CASE ~Exists(c)
            BY <3>1, <3>3 DEF Msgs, Exists
        <3> QED
            BY <3>2, <3>3
    <2>3. CASE Sends(c) \/ Replays(c) \/ Forgets(c)
        BY <1>2, <2>3 DEF Sends, Replays, Forgets
    <2>4. CASE Empties(c) \/ Opens(c)
        BY <2>4 DEF Empties, Opens
    <2>5. CASE Takes(c)
        BY <1>1, <1>2, <2>5 DEF Takes, CalledEmpty
    <2> QED
        BY <2>1, <2>2, <2>3, <2>4, <2>5 DEF Moves
<1>3. ASSUME NEW c \in Call PROVE Ordered(InFlight(c))'
    <2> DEFINE s == InFlight(c)
               t == InFlight(c)'
    <2>1. Flows(c)
        BY <1>1, NextFlows
    <2>2. s \in Seq(M!Envelope) /\ Ordered(s) /\ Len(s) \in Nat
        BY <1>1, QueueTypes, LenProperties DEF TiersInv
    <2>3. t \in Seq(M!Envelope) /\ Len(t) \in Nat
        <3>1. (CallTypes => \A d \in Call : InFlight(d) \in Seq(M!Envelope))'
            BY FlightTypes, PTL
        <3>2. t \in Seq(M!Envelope)
            BY <1>1, <3>1 DEF TypeInv
        <3> HIDE DEF t
        <3> QED
            BY <3>2, LenProperties
    <2>4. CASE Keeps(c)
        BY <2>2, <2>4 DEF Keeps
    <2>5. CASE Extends(c)
        <3>1. PICK p \in Publisher : M!Broadcast(p) /\ t = Append(s, Sent(p))
            BY <2>5 DEF Extends
        <3>2. Sent(p) \in M!Envelope /\ Sent(p).tier = "NORMAL"
            BY <1>1, <3>1, SentType DEF M!Broadcast, Sent
        <3> QED
            BY <2>2, <3>1, <3>2, OrderedAppend
    <2>6. CASE Refills(c)
        <3>1. PICK u \in SUBSET Key : stream[c].from \in 0..MaxPublish /\ t = M!Since(stream[c].from, u)
            BY <2>6 DEF Refills
        <3>2. IsRecovery(t, stream[c].from, u)
            BY <1>1, <3>1, ReplayedBacklog
        <3> QED
            BY <3>2, OrderedRecovery
    <2>7. CASE Cuts(c) \/ Advances(c) \/ Drops(c)
        <3>1. Part(t, s)
            <4>1. CASE Cuts(c)
                <5>1. 0 + Len(t) <= Len(s) /\ \A i \in 1..Len(t) : t[i] = s[i + 0]
                    BY <2>2, <2>3, <4>1 DEF Cuts
                <5> QED
                    BY <5>1 DEF Part
            <4>2. CASE Advances(c)
                <5>1. 1 + Len(t) <= Len(s) /\ \A i \in 1..Len(t) : t[i] = s[i + 1]
                    BY <2>2, <2>3, <4>2 DEF Advances
                <5> QED
                    BY <5>1 DEF Part
            <4>3. CASE Drops(c)
                BY <4>3 DEF Drops
            <4> QED
                BY <2>7, <4>1, <4>2, <4>3
        <3> QED
            BY <2>2, <2>3, <3>1, OrderedParts
    <2>8. CASE Vanishes(c)
        <3>1. t = <<>>
            BY <2>8 DEF Vanishes
        <3> QED
            BY <3>1, EmptySeq DEF Ordered
    <2> QED
        BY <2>1, <2>4, <2>5, <2>6, <2>7, <2>8 DEF Flows
<1> QED
    BY <1>2, <1>3 DEF TiersInv, CalledEmpty

\* A subscriber never has to answer ErrRecoverAfterNormal, whatever is broadcast
\* while it is replayed to, and wherever streams are cut: on every stream the
\* replay comes first and in the order of the log.
THEOREM ReplicationTiersOrdered == Spec => []TiersOrdered
<1>1. TypeInv /\ TiersInv => TiersOrdered
    <2> SUFFICES ASSUME TypeInv, TiersInv, NEW c \in Call, handler[c].pc = "running",
                        NEW i \in DOMAIN (stream[c].msgs \o handler[c].chan),
                        NEW j \in DOMAIN (stream[c].msgs \o handler[c].chan),
                        i < j, (stream[c].msgs \o handler[c].chan)[j].tier = "RECOVER"
                 PROVE  /\ (stream[c].msgs \o handler[c].chan)[i].tier = "RECOVER"
                        /\ (stream[c].msgs \o handler[c].chan)[i].index
                                < (stream[c].msgs \o handler[c].chan)[j].index
        BY DEF TiersOrdered
    <2>1. Runs(c) /\ Exists(c)
        BY CallRecords DEF TypeInv
    <2>2. stream[c].msgs \o handler[c].chan = InFlight(c)
        BY <2>1 DEF InFlight, Msgs, Chan, Runs, Exists
    <2>3. DOMAIN InFlight(c) = 1..Len(InFlight(c))
        BY QueueTypes, LenProperties DEF TypeInv
    <2>4. Ordered(InFlight(c))
        BY DEF TiersInv
    <2> QED
        BY <2>2, <2>3, <2>4 DEF Ordered
<1> QED
    BY <1>1, TypeInvInit, NextKeepsTypeInv, TiersInvInit, NextKeepsTiers, PTL DEF Spec

----------------------------------------------------------------------------
\* What the log knows, while the master keeps its volume.

\* On an object without a race the store is never behind the log, under whatever
\* spelling the change was logged.
StoreAhead ==
    \A o \in Object \ raced, k \in Key : (objectKey[k] = o /\ top[k] # 0) =>
        /\ store[o] = M!Empty \/ store[o] >= content[top[k]]
        /\ \A p \in M!Busy(o) : publisher[p].val >= content[top[k]]

LEMMA StoreAheadInit == Init => StoreAhead
BY DEF Init, M!Init, StoreAhead

\* Publishers that end or go on, over a store and a log that stay.
LEMMA StoreAheadKept ==
    ASSUME LogInv, StoreAhead, UNCHANGED <<store, content>>, raced \subseteq raced',
           \A k \in Key : top'[k] \in {top[k], 0},
           \A o \in Object : M!Busy(o)' \subseteq M!Busy(o),
           \A o \in Object : \A p \in M!Busy(o)' : publisher'[p].val = publisher[p].val
    PROVE  StoreAhead'
<1> SUFFICES ASSUME NEW o \in Object \ raced', NEW k \in Key, objectKey[k] = o, top'[k] # 0
             PROVE  /\ store[o] = M!Empty \/ store[o] >= content[top'[k]]
                    /\ \A p \in M!Busy(o)' : publisher'[p].val >= content[top'[k]]
    BY DEF StoreAhead, M!Empty
<1>1. o \in Object \ raced /\ top'[k] = top[k] /\ top[k] # 0
    OBVIOUS
<1>2. /\ store[o] = M!Empty \/ store[o] >= content[top[k]]
      /\ \A p \in M!Busy(o) : publisher[p].val >= content[top[k]]
    BY <1>1 DEF StoreAhead
<1> QED
    BY <1>1, <1>2

LEMMA StartKeepsAhead ==
    ASSUME LogInv, StoreAhead, NEW p \in Publisher, NEW k \in Key, M!StartPublish(p, k)
    PROVE  StoreAhead'
<1> DEFINE new == [pc |-> "writing", key |-> k, val |-> published + 1]
<1>0. PICK o \in Object : o = objectKey[k]
    OBVIOUS
<1>1. /\ publisher[p] = M!Done
      /\ publisher' = [publisher EXCEPT ![p] = new]
      /\ store' = [store EXCEPT ![o] = M!Empty]
      /\ raced' = IF M!Busy(o) = {} THEN raced ELSE raced \cup {o}
      /\ UNCHANGED <<latest, top, content>>
    BY <1>0 DEF M!StartPublish, M!logVars
<1>2. LogTyping /\ ContentsOnce
    BY DEF LogInv, StoreInv
<1>3. new.pc = "writing" /\ new.key = k /\ new.val = published + 1
    OBVIOUS
<1> HIDE DEF new
<1>4. publisher'[p] = new /\ \A q \in Publisher \ {p} : publisher'[q] = publisher[q]
    BY <1>1, <1>2 DEF LogTyping
<1>5. /\ M!Busy(o)' = M!Busy(o) \cup {p}
      /\ \A w \in Object \ {o} : M!Busy(w)' = M!Busy(w)
      /\ \A w \in Object : p \notin M!Busy(w) /\ M!Busy(w) \subseteq Publisher
    BY <1>0, <1>1, <1>3, <1>4 DEF M!Busy, M!Done
<1>6. store'[o] = M!Empty /\ \A w \in Object \ {o} : store'[w] = store[w]
    BY <1>1, <1>2 DEF LogTyping
<1> SUFFICES ASSUME NEW w \in Object \ raced', NEW h \in Key, objectKey[h] = w, top[h] # 0
             PROVE  /\ store'[w] = M!Empty \/ store'[w] >= content[top[h]]
                    /\ \A q \in M!Busy(w)' : publisher'[q].val >= content[top[h]]
    BY <1>1 DEF StoreAhead, M!Empty
<1>7. w \in Object \ raced /\ (w = o => M!Busy(o) = {})
    BY <1>1
<1>8. CASE w = o
    <2>1. M!Busy(w)' = {p}
        BY <1>5, <1>7, <1>8
    <2>2. top[h] \in 1..latest
        BY <1>2 DEF LogTyping
    <2>3. content[top[h]] \in 1..published /\ published \in Nat
        BY <1>2, <2>2 DEF ContentsOnce, LogTyping
    <2> QED
        BY <1>3, <1>4, <1>6, <1>8, <2>1, <2>3
<1>9. CASE w # o
    BY <1>4, <1>5, <1>6, <1>7, <1>9 DEF StoreAhead
<1> QED
    BY <1>8, <1>9

LEMMA WriteKeepsAhead ==
    ASSUME LogInv, StoreAhead, NEW p \in Publisher, M!WriteContent(p)
    PROVE  StoreAhead'
<1> DEFINE k == publisher[p].key
<1>1. publisher[p].pc = "writing"
    BY DEF M!WriteContent
<1>2. LogTyping
    BY DEF LogInv, StoreInv
<1>3. k \in Key /\ p \in M!Busy(objectKey[k])
    BY <1>1, <1>2, BusyPublisher DEF Busy
<1>4. PICK r \in [pc : Busy, key : Key, val : Nat] : r = publisher[p]
    BY <1>1, <1>2, BusyPublisher DEF Busy
<1>5. PICK o \in Object : o = objectKey[k]
    BY <1>3
<1>6. PICK v \in {publisher[p].val} \cup (IF store[o] = M!Empty THEN {} ELSE {M!Mixed}) :
            store' = [store EXCEPT ![o] = v]
    BY <1>5 DEF M!WriteContent
<1>7. /\ publisher' = [publisher EXCEPT ![p].pc = "stored"]
      /\ UNCHANGED <<latest, top, content, raced>>
    BY DEF M!WriteContent, M!logVars, M!ghosts
<1>8. /\ [r EXCEPT !.pc = "stored"].pc = "stored" /\ [r EXCEPT !.pc = "stored"].key = r.key
      /\ [r EXCEPT !.pc = "stored"].val = r.val
    OBVIOUS
<1>9. publisher' = [publisher EXCEPT ![p] = [r EXCEPT !.pc = "stored"]]
    BY <1>4, <1>7
<1>10. /\ publisher'[p].pc = "stored" /\ publisher'[p].key = k
       /\ publisher'[p].val = publisher[p].val
    BY <1>2, <1>4, <1>8, <1>9 DEF LogTyping
<1>11. \A q \in Publisher \ {p} : publisher'[q] = publisher[q]
    BY <1>2, <1>9 DEF LogTyping
<1> HIDE DEF k
<1>12. /\ \A w \in Object : M!Busy(w)' = M!Busy(w) /\ M!Busy(w) \subseteq Publisher
       /\ \A q \in Publisher : publisher'[q].val = publisher[q].val
    BY <1>1, <1>10, <1>11 DEF M!Busy, k
<1>13. store'[o] = v /\ \A w \in Object \ {o} : store'[w] = store[w]
    BY <1>2, <1>6 DEF LogTyping
<1>14. p \in M!Busy(o)
    BY <1>3, <1>5
<1>15. o \notin raced => v = publisher[p].val
    BY <1>1, <1>6, <1>14 DEF LogInv, StoreInv, OwnContent
<1> SUFFICES ASSUME NEW w \in Object \ raced, NEW h \in Key, objectKey[h] = w, top[h] # 0
             PROVE  /\ store'[w] = M!Empty \/ store'[w] >= content[top[h]]
                    /\ \A q \in M!Busy(w)' : publisher'[q].val >= content[top[h]]
    BY <1>7 DEF StoreAhead, M!Empty
<1>16. /\ store[w] = M!Empty \/ store[w] >= content[top[h]]
       /\ \A q \in M!Busy(w) : publisher[q].val >= content[top[h]]
    BY DEF StoreAhead
<1>17. \A q \in M!Busy(w)' : publisher'[q].val >= content[top[h]]
    BY <1>12, <1>16
<1>18. CASE w = o
    BY <1>13, <1>14, <1>15, <1>16, <1>17, <1>18
<1>19. CASE w # o
    BY <1>13, <1>16, <1>17, <1>19
<1> QED
    BY <1>18, <1>19

\* What FileWAL.Append does to the log.
LEMMA LogGrows ==
    ASSUME LogInv, NEW p \in Publisher, M!LogChange(p)
    PROVE  /\ publisher[p].key \in Key /\ latest \in Nat /\ latest' = latest + 1
           /\ top' \in [Key -> 0..latest'] /\ top'[publisher[p].key] = latest + 1
           /\ \A h \in Key \ {publisher[p].key} : top'[h] = top[h]
           /\ content'[latest + 1] = publisher[p].val /\ publisher[p].val \in Nat
           /\ \A i \in 1..latest : content'[i] = content[i]
           /\ publisher'[p].pc = "logged" /\ publisher'[p].key = publisher[p].key
           /\ publisher'[p].val = publisher[p].val /\ publisher'[p].index = latest + 1
           /\ \A q \in Publisher \ {p} : publisher'[q] = publisher[q]
           /\ UNCHANGED <<store, raced, torn, skipped>>
<1> DEFINE k == publisher[p].key
           v == publisher[p].val
           new == [pc |-> "logged", key |-> k, val |-> v, index |-> latest + 1]
<1>1. /\ publisher[p].pc = "stored"
      /\ latest' = latest + 1 /\ top' = [top EXCEPT ![k] = latest + 1]
      /\ content' = Append(content, v)
      /\ publisher' = [publisher EXCEPT ![p] = new]
      /\ UNCHANGED <<store, raced, torn, skipped>>
    BY DEF M!LogChange, M!ghosts
<1>2. LogTyping
    BY DEF LogInv, StoreInv
<1>3. k \in Key /\ v \in Nat
    BY <1>1, <1>2, BusyPublisher DEF Busy
<1>4. new.pc = "logged" /\ new.key = k /\ new.val = v /\ new.index = latest + 1
    OBVIOUS
<1> HIDE DEF k, v, new
<1>5. /\ content'[latest + 1] = v /\ \A i \in 1..latest : content'[i] = content[i]
      /\ latest \in Nat
    BY <1>1, <1>2, <1>3 DEF LogTyping
<1>6. publisher'[p] = new /\ \A q \in Publisher \ {p} : publisher'[q] = publisher[q]
    BY <1>1, <1>2 DEF LogTyping
<1>7. /\ top' \in [Key -> 0..latest'] /\ top'[k] = latest + 1
      /\ \A h \in Key \ {k} : top'[h] = top[h]
    BY <1>1, <1>2, <1>3 DEF LogTyping
<1> QED
    BY <1>1, <1>3, <1>5, <1>6, <1>7, <1>4 DEF k, v

LEMMA LogChangeKeepsAhead ==
    ASSUME LogInv, StoreAhead, NEW p \in Publisher, M!LogChange(p)
    PROVE  StoreAhead'
<1>1. PICK k, v : k = publisher[p].key /\ v = publisher[p].val
    OBVIOUS
<1>2. LogTyping
    BY DEF LogInv, StoreInv
<1>3. /\ k \in Key /\ latest \in Nat /\ top'[k] = latest + 1
      /\ \A h \in Key \ {k} : top'[h] = top[h]
      /\ content'[latest + 1] = v /\ v \in Nat
      /\ \A i \in 1..latest : content'[i] = content[i]
      /\ publisher'[p].pc = "logged"
      /\ \A q \in Publisher \ {p} : publisher'[q] = publisher[q]
      /\ UNCHANGED <<store, raced>>
    BY <1>1, LogGrows
<1>4. publisher[p].pc = "stored" /\ p \in M!Busy(objectKey[k])
    BY <1>1 DEF M!LogChange, M!Busy
<1>5. \A w \in Object : M!Busy(w)' = M!Busy(w) \ {p} /\ M!Busy(w) \subseteq Publisher
    BY <1>3 DEF M!Busy
<1> SUFFICES ASSUME NEW o \in Object \ raced, NEW h \in Key, objectKey[h] = o, top'[h] # 0
             PROVE  /\ store[o] = M!Empty \/ store[o] >= content'[top'[h]]
                    /\ \A q \in M!Busy(o)' : publisher'[q].val >= content'[top'[h]]
    BY <1>3 DEF StoreAhead, M!Empty
<1>6. CASE h = k
    <2>1. store[o] = v
        BY <1>1, <1>4, <1>6 DEF LogInv, StoreInv, OwnContent
    <2>2. M!Busy(o)' = {}
        BY <1>4, <1>5, <1>6 DEF LogInv, StoreInv, OnePublisherPerObject
    <2> QED
        BY <1>3, <1>6, <2>1, <2>2
<1>7. CASE h # k
    <2>1. top'[h] = top[h] /\ top[h] \in 1..latest
        BY <1>2, <1>3, <1>7 DEF LogTyping
    <2>2. content'[top[h]] = content[top[h]]
        BY <1>3, <2>1
    <2>3. \A q \in M!Busy(o)' : q \in M!Busy(o) /\ publisher'[q] = publisher[q]
        BY <1>3, <1>5
    <2>4. /\ store[o] = M!Empty \/ store[o] >= content[top[h]]
          /\ \A q \in M!Busy(o) : publisher[q].val >= content[top[h]]
        BY <2>1 DEF StoreAhead
    <2> QED
        BY <2>1, <2>2, <2>3, <2>4
<1> QED
    BY <1>6, <1>7

LEMMA TearsTop ==
    ASSUME LogInv, NEW k \in Key, M!Tear(k)
    PROVE  /\ top'[k] = 0 /\ \A h \in Key \ {k} : top'[h] = top[h]
           /\ torn' = torn \cup {k}
BY DEF M!Tear, LogInv, StoreInv, LogTyping

\* What a step does to the log of a master that keeps its volume.
Held == UNCHANGED <<latest, top, content, torn>>

Tears ==
    \E k \in Key :
        /\ UNCHANGED <<latest, content>> /\ torn' = torn \cup {k}
        /\ top'[k] = 0 /\ \A h \in Key \ {k} : top'[h] = top[h]

LEMMA TearingPublisher ==
    ASSUME LogInv, NEW p \in Publisher, publisher[p].pc = "stored", M!Tear(publisher[p].key),
           UNCHANGED <<latest, content>>
    PROVE  Tears
<1>1. PICK k \in Key : k = publisher[p].key
    BY BusyPublisher DEF LogInv, StoreInv, Busy
<1>2. M!Tear(k)
    BY <1>1
<1> QED
    BY <1>2, TearsTop DEF Tears

LEMMA LogMoves ==
    ASSUME LogInv, ~CanReplace, [Next]_vars
    PROVE  /\ Held \/ Tears \/ \E p \in Publisher : M!LogChange(p)
           /\ raced \subseteq raced'
<1>1. ASSUME NEW p \in Publisher, M!PublisherStep(p)
      PROVE  Held \/ Tears \/ M!LogChange(p)
    <2>1. CASE M!FailPublish(p)
        BY <2>1, TearingPublisher DEF M!FailPublish, Held
    <2>2. CASE ~M!FailPublish(p)
        BY <1>1, <2>2 DEF M!PublisherStep, M!StartPublish, M!WriteContent, M!Broadcast,
            M!logVars, M!ghosts, Held
    <2> QED
        BY <2>1, <2>2
<1>2. ASSUME NEW c \in Call, M!HandlerStep(c) PROVE Held
    BY <1>2 DEF M!HandlerStep, M!Replay, M!RejectFuture, M!Register, M!Send, M!LeaveClosed,
        M!LeaveCancelled, M!Unregister, M!PanicOnClose, M!logVars, M!ghosts, Held
<1>3. CASE M!CrashMaster
    BY <1>3, TearingPublisher DEF M!CrashMaster, Held
<1>4. CASE M!StartMaster \/ AgentStep \/ UNCHANGED vars
    BY <1>4 DEF M!StartMaster, M!logVars, M!ghosts, AgentStep, masterVars, vars, Held
<1>5. raced \subseteq raced'
    BY DEF Next, MasterStep, M!Next, M!PublisherStep, M!HandlerStep, M!StartPublish,
        M!WriteContent, M!LogChange, M!FailPublish, M!Broadcast, M!Replay, M!RejectFuture,
        M!Register, M!Send, M!LeaveClosed, M!LeaveCancelled, M!Unregister, M!PanicOnClose,
        M!CrashMaster, M!ReplaceMaster, M!StartMaster, M!ghosts, AgentStep, masterVars, vars
<1> QED
    BY <1>1, <1>2, <1>3, <1>4, <1>5 DEF Next, MasterStep, M!Next, M!ReplaceMaster

LEMMA NextKeepsAhead ==
    ASSUME LogInv, StoreAhead, ~CanReplace, [Next]_vars
    PROVE  StoreAhead'
<1>1. LogTyping
    BY DEF LogInv, StoreInv
<1>2. ASSUME ~\E p \in Publisher : M!WriteContent(p) \/ M!LogChange(p) \/ \E k \in Key : M!StartPublish(p, k)
      PROVE  /\ UNCHANGED store
             /\ \A p \in Publisher : publisher'[p] \in {publisher[p], M!Done}
    <2>1. CASE UNCHANGED <<store, publisher>>
        BY <2>1
    <2>2. ASSUME NEW p \in Publisher, M!FailPublish(p) \/ M!Broadcast(p)
          PROVE  UNCHANGED store /\ publisher' = [publisher EXCEPT ![p] = M!Done]
        BY <2>2 DEF M!FailPublish, M!Broadcast
    <2>3. CASE \E p \in Publisher : M!FailPublish(p) \/ M!Broadcast(p)
        BY <1>1, <2>2, <2>3 DEF LogTyping
    <2>4. CASE M!CrashMaster \/ \E c \in Call : M!PanicOnClose(c)
        BY <2>4 DEF M!CrashMaster, M!PanicOnClose, M!Die
    <2>5. ASSUME NEW c \in Call, M!HandlerStep(c), ~M!PanicOnClose(c)
          PROVE  UNCHANGED <<store, publisher>>
        BY <2>5 DEF M!HandlerStep, M!Replay, M!RejectFuture, M!Register, M!Send, M!LeaveClosed,
            M!LeaveCancelled, M!Unregister
    <2>6. CASE M!StartMaster \/ AgentStep \/ UNCHANGED vars
        BY <2>6 DEF M!StartMaster, AgentStep, masterVars, vars
    <2> QED
        BY <1>2, <2>1, <2>3, <2>4, <2>5, <2>6 DEF Next, MasterStep, M!Next, M!PublisherStep,
            M!ReplaceMaster
<1>3. CASE \E p \in Publisher : M!WriteContent(p) \/ M!LogChange(p) \/ \E k \in Key : M!StartPublish(p, k)
    BY <1>3, WriteKeepsAhead, LogChangeKeepsAhead, StartKeepsAhead
<1>4. CASE ~\E p \in Publisher : M!WriteContent(p) \/ M!LogChange(p) \/ \E k \in Key : M!StartPublish(p, k)
    <2>1. /\ UNCHANGED store
          /\ \A p \in Publisher : publisher'[p] \in {publisher[p], M!Done}
        BY <1>2, <1>4
    <2>2. (Held \/ Tears) /\ raced \subseteq raced'
        BY <1>4, LogMoves
    <2>3. UNCHANGED content /\ \A k \in Key : top'[k] \in {top[k], 0}
        <3>1. CASE Held
            BY <3>1 DEF Held
        <3>2. CASE Tears
            BY <3>2 DEF Tears
        <3> QED
            BY <2>2, <3>1, <3>2
    <2>4. \A o \in Object : /\ M!Busy(o)' \subseteq M!Busy(o)
                            /\ \A p \in M!Busy(o)' : publisher'[p].val = publisher[p].val
        BY <2>1 DEF M!Busy, M!Done
    <2> QED
        BY <2>1, <2>2, <2>3, <2>4, StoreAheadKept
<1> QED
    BY <1>3, <1>4

\* The log knows a change of k: no other key has its index, the key has no older one
\* on top, and its content is not older than what was logged under the index.  What is
\* in a zone file is a change of one of the spellings of its name.
Known(k, i, v) ==
    /\ i \in 1..latest
    /\ \A h \in Key : top[h] = i => h = k
    /\ top[k] >= i \/ (top[k] = 0 /\ k \in torn)
    /\ objectKey[k] \in raced \/ v = M!Empty \/ v >= content[i]

KnownMessages ==
    \A c \in Call : \A j \in 1..Len(InFlight(c)) :
        Known(InFlight(c)[j].key, InFlight(c)[j].index, InFlight(c)[j].val)

KnownPublished ==
    \A p \in Publisher : publisher[p].pc = "logged" =>
        Known(publisher[p].key, publisher[p].index, publisher[p].val)

KnownChanges ==
    \A a \in Agent : agent[a].pc \in Applying =>
        Known(agent[a].change.key, agent[a].change.index, agent[a].change.val)

KnownZones ==
    \A a \in Agent, o \in Object : zone[a][o] # F!Missing =>
        \E k \in Key : objectKey[k] = o /\ Known(k, zone[a][o].ver, zone[a][o].val)

KnownInv == KnownMessages /\ KnownPublished /\ KnownChanges /\ KnownZones

LEMMA KnownStays ==
    ASSUME LogInv, ~CanReplace, [Next]_vars, NEW k \in Key, NEW i, NEW v, Known(k, i, v)
    PROVE  Known(k, i, v)'
<1>1. LogTyping
    BY DEF LogInv, StoreInv
<1>2. (Held \/ Tears \/ \E p \in Publisher : M!LogChange(p)) /\ raced \subseteq raced'
    BY LogMoves
<1>3. /\ i \in 1..latest /\ \A h \in Key : top[h] = i => h = k
      /\ top[k] >= i \/ (top[k] = 0 /\ k \in torn)
      /\ objectKey[k] \in raced \/ v = M!Empty \/ v >= content[i]
    BY DEF Known
<1>4. SUFFICES /\ i \in 1..latest' /\ \A h \in Key : top'[h] = i => h = k
               /\ top'[k] >= i \/ (top'[k] = 0 /\ k \in torn')
               /\ content'[i] = content[i]
    BY <1>2, <1>3 DEF Known, M!Empty
<1>5. CASE Held
    BY <1>3, <1>5 DEF Held
<1>6. CASE Tears
    <2>1. PICK h \in Key :
            /\ UNCHANGED <<latest, content>> /\ torn' = torn \cup {h}
            /\ top'[h] = 0 /\ \A g \in Key \ {h} : top'[g] = top[g]
        BY <1>6 DEF Tears
    <2>2. \A g \in Key : top'[g] = i => top[g] = i
        BY <1>3, <2>1
    <2> QED
        BY <1>3, <2>1, <2>2
<1>7. ASSUME NEW p \in Publisher, M!LogChange(p)
      PROVE  /\ i \in 1..latest' /\ \A h \in Key : top'[h] = i => h = k
             /\ top'[k] >= i \/ (top'[k] = 0 /\ k \in torn')
             /\ content'[i] = content[i]
    <2>1. PICK g \in Key :
            /\ latest \in Nat /\ latest' = latest + 1 /\ top'[g] = latest + 1
            /\ \A h \in Key \ {g} : top'[h] = top[h]
            /\ \A j \in 1..latest : content'[j] = content[j]
            /\ torn' = torn
        BY <1>7, LogGrows
    <2>2. i \in 1..latest' /\ i # latest + 1 /\ content'[i] = content[i]
        BY <1>3, <2>1
    <2>3. \A h \in Key : top'[h] = i => top[h] = i
        BY <2>1, <2>2
    <2>4. top'[k] >= i \/ (top'[k] = 0 /\ k \in torn')
        <3>1. CASE k = g
            BY <1>3, <2>1, <3>1
        <3>2. CASE k # g
            BY <1>3, <2>1, <3>2
        <3> QED
            BY <3>1, <3>2
    <2> QED
        BY <1>3, <2>2, <2>3, <2>4
<1> QED
    BY <1>2, <1>5, <1>6, <1>7

\* A change that a replay reads.
LEMMA ReplayedIsKnown ==
    ASSUME LogInv, StoreAhead, NEW s, NEW v \in Nat, NEW u, IsRecovery(s, v, u),
           NEW j \in 1..Len(s)
    PROVE  Known(s[j].key, s[j].index, s[j].val)
<1>1. PICK k, i, w : k = s[j].key /\ i = s[j].index /\ w = s[j].val
    OBVIOUS
<1>2. k \in Key /\ top[k] = i /\ w = store[objectKey[k]] /\ i > v
    BY <1>1 DEF IsRecovery
<1>3. top \in [Key -> 0..latest] /\ latest \in Nat
    BY DEF LogInv, StoreInv, LogTyping
<1>4. i \in 1..latest
    BY <1>2, <1>3
<1>5. \A h \in Key : top[h] = i => h = k
    BY <1>2, <1>4 DEF LogInv, DistinctTops
<1>6. objectKey[k] \in raced \/ w = M!Empty \/ w >= content[i]
    <2>1. PICK o \in Object : o = objectKey[k]
        BY <1>2
    <2> QED
        BY <1>2, <1>4, <2>1 DEF StoreAhead
<1>7. top[k] >= i
    BY <1>2, <1>4
<1>8. Known(k, i, w)
    BY <1>4, <1>5, <1>6, <1>7 DEF Known
<1> QED
    BY <1>1, <1>8

\* The change that an append logs.
LEMMA LoggedIsKnown ==
    ASSUME LogInv, NEW p \in Publisher, M!LogChange(p)
    PROVE  Known(publisher[p].key, publisher[p].index, publisher[p].val)'
<1>1. PICK k, w : k = publisher[p].key /\ w = publisher[p].val
    OBVIOUS
<1>2. /\ k \in Key /\ latest \in Nat /\ latest' = latest + 1
      /\ top'[k] = latest + 1 /\ \A h \in Key \ {k} : top'[h] = top[h]
      /\ content'[latest + 1] = w /\ w \in Nat
      /\ publisher'[p].key = k /\ publisher'[p].val = w /\ publisher'[p].index = latest + 1
    BY <1>1, LogGrows
<1>3. top \in [Key -> 0..latest]
    BY DEF LogInv, StoreInv, LogTyping
<1>4. \A h \in Key : top'[h] = latest + 1 => h = k
    BY <1>2, <1>3
<1>5. latest + 1 \in 1..latest' /\ top'[k] >= latest + 1 /\ w >= content'[latest + 1]
    BY <1>2
<1> QED
    BY <1>2, <1>4, <1>5 DEF Known

\* A publisher that has logged a change keeps it until it broadcasts it.
LEMMA PublisherMoves ==
    ASSUME LogInv, [Next]_vars, NEW p \in Publisher, publisher'[p].pc = "logged"
    PROVE  publisher'[p] = publisher[p] \/ M!LogChange(p)
<1>1. publisher \in [Publisher -> PublisherState]
    BY DEF LogInv, StoreInv, LogTyping
<1>2. ASSUME NEW q \in Publisher, M!PublisherStep(q), q # p
      PROVE  publisher'[p] = publisher[p]
    <2>1. \E r : publisher' = [publisher EXCEPT ![q] = r]
        BY <1>2 DEF M!PublisherStep, M!StartPublish, M!WriteContent, M!LogChange,
            M!FailPublish, M!Broadcast
    <2> QED
        BY <1>1, <1>2, <2>1
<1>3. ASSUME M!PublisherStep(p), ~M!LogChange(p) PROVE FALSE
    <2>1. CASE \E k \in Key : M!StartPublish(p, k)
        <3>1. \E r : r.pc = "writing" /\ publisher' = [publisher EXCEPT ![p] = r]
            BY <2>1 DEF M!StartPublish
        <3> QED
            BY <1>1, <3>1
    <2>2. CASE M!WriteContent(p)
        <3>1. PICK r : r = publisher[p]
            OBVIOUS
        <3>2. publisher' = [publisher EXCEPT ![p] = [r EXCEPT !.pc = "stored"]] /\ r.pc = "writing"
            BY <2>2, <3>1 DEF M!WriteContent
        <3>3. r \in [pc : Busy, key : Key, val : Nat]
            BY <3>1, <3>2, BusyPublisher DEF Busy, LogInv, StoreInv
        <3>4. [r EXCEPT !.pc = "stored"].pc = "stored"
            BY <3>3
        <3> QED
            BY <1>1, <3>2, <3>4
    <2>3. CASE M!FailPublish(p) \/ M!Broadcast(p)
        <3>1. publisher' = [publisher EXCEPT ![p] = M!Done]
            BY <2>3 DEF M!FailPublish, M!Broadcast
        <3> QED
            BY <1>1, <3>1 DEF M!Done
    <2> QED
        BY <1>3, <2>1, <2>2, <2>3 DEF M!PublisherStep
<1>4. CASE M!CrashMaster \/ M!ReplaceMaster \/ \E c \in Call : M!PanicOnClose(c)
    <2>1. publisher' = [q \in Publisher |-> M!Done]
        BY <1>4 DEF M!CrashMaster, M!ReplaceMaster, M!PanicOnClose, M!Die
    <2> QED
        BY <2>1 DEF M!Done
<1>5. ASSUME NEW c \in Call, M!HandlerStep(c), ~M!PanicOnClose(c)
      PROVE  publisher' = publisher
    BY <1>5 DEF M!HandlerStep, M!Replay, M!RejectFuture, M!Register, M!Send, M!LeaveClosed,
        M!LeaveCancelled, M!Unregister
<1>6. CASE M!StartMaster \/ AgentStep \/ UNCHANGED vars
    BY <1>6 DEF M!StartMaster, AgentStep, masterVars, vars
<1> QED
    BY <1>2, <1>3, <1>4, <1>5, <1>6 DEF Next, MasterStep, M!Next

LEMMA KnownInvInit == Init => KnownInv
<1> SUFFICES ASSUME Init PROVE KnownInv
    OBVIOUS
<1>1. /\ handler = [c \in Call |-> M!NotRunning] /\ stream = [c \in Call |-> M!NoStream]
      /\ publisher = [p \in Publisher |-> M!Done] /\ agent = [a \in Agent |-> F!Down]
      /\ zone = [a \in Agent |-> [o \in Object |-> F!Missing]]
    BY DEF Init, M!Init, F!Init
<1>2. \A c \in Call : Msgs(c) = <<>> /\ Chan(c) = <<>>
    BY <1>1 DEF Msgs, Chan
<1>3. \A c \in Call : Len(InFlight(c)) = 0
    BY <1>2, EmptySeq, ConcatEmptySeq DEF InFlight
<1> QED
    BY <1>1, <1>3 DEF KnownInv, KnownMessages, KnownPublished, KnownChanges, KnownZones, M!Done,
        F!Down, Applying

\* The first message of a stream is the one its reader looks at.
LEMMA MessageInFlight ==
    ASSUME TypeInv, NEW a \in Agent, F!HasMessage(a), NEW c \in Call, c = agent[a].call
    PROVE  /\ Len(InFlight(c)) \in Nat /\ 1 \in 1..Len(InFlight(c))
           /\ F!Message(a) = InFlight(c)[1] /\ F!Message(a) \in M!Envelope
<1>1. /\ Msgs(c) # <<>> /\ Msgs(c) \in Seq(M!Envelope)
      /\ F!Message(a) = Head(Msgs(c)) /\ F!Message(a) \in M!Envelope
    BY NextMessage
<1>2. Chan(c) \in Seq(M!Envelope)
    BY QueueTypes DEF TypeInv
<1>3. InFlight(c) # <<>> /\ Head(Msgs(c)) = InFlight(c)[1] /\ InFlight(c) \in Seq(M!Envelope)
    BY <1>1, <1>2, TakenInFlight, ConcatProperties DEF InFlight
<1>4. Len(InFlight(c)) \in Nat \ {0}
    BY <1>3, EmptySeq, LenProperties
<1> QED
    BY <1>1, <1>3, <1>4

LEMMA EnvelopeKey ==
    ASSUME CallTypes, NEW c \in Call, NEW j \in 1..Len(InFlight(c))
    PROVE  InFlight(c)[j] \in M!Envelope /\ InFlight(c)[j].key \in Key
<1>1. InFlight(c)[j] \in M!Envelope
    BY QueueTypes, ElementOfSeq
<1> QED
    BY <1>1 DEF M!Envelope

LEMMA NextKeepsMessages ==
    ASSUME TypeInv, TiersInv, StoreAhead, KnownInv, ~CanReplace, [Next]_vars
    PROVE  KnownMessages'
<1>1. LogInv /\ CallTypes /\ CalledEmpty /\ TypeInv'
    BY NextKeepsTypeInv DEF TypeInv, TiersInv
<1> SUFFICES ASSUME NEW c \in Call, NEW j \in 1..Len(InFlight(c)')
             PROVE  Known(InFlight(c)[j].key, InFlight(c)[j].index, InFlight(c)[j].val)'
    BY DEF KnownMessages
<1>2. PICK s, t : s = InFlight(c) /\ t = InFlight(c)'
    OBVIOUS
<1>3. PICK m : m = t[j]
    OBVIOUS
<1>4. ASSUME m.key \in Key, Known(m.key, m.index, m.val)
      PROVE  Known(InFlight(c)[j].key, InFlight(c)[j].index, InFlight(c)[j].val)'
    <2>1. PICK k \in Key, i \in {m.index}, v \in {m.val} : k = m.key
        BY <1>4
    <2>2. Known(k, i, v)'
        BY <1>1, <1>4, <2>1, KnownStays
    <2> QED
        BY <1>2, <1>3, <2>1, <2>2 DEF Known
<1>5. ASSUME NEW i \in 1..Len(s), t[j] = s[i]
      PROVE  m.key \in Key /\ Known(m.key, m.index, m.val)
    BY <1>1, <1>2, <1>3, <1>5, EnvelopeKey DEF KnownInv, KnownMessages
<1>6. s \in Seq(M!Envelope) /\ Len(s) \in Nat
    BY <1>1, <1>2, QueueTypes, LenProperties
<1>7. t \in Seq(M!Envelope) /\ Len(t) \in Nat
    <2>1. (CallTypes => \A d \in Call : InFlight(d) \in Seq(M!Envelope))'
        BY FlightTypes, PTL
    <2>2. t \in Seq(M!Envelope)
        BY <1>1, <1>2, <2>1 DEF TypeInv
    <2> QED
        BY <2>2, LenProperties
<1>8. Flows(c)
    BY <1>1, NextFlows
<1>9. CASE Keeps(c)
    BY <1>2, <1>4, <1>5, <1>9 DEF Keeps
<1>10. CASE Extends(c)
    <2>1. PICK p \in Publisher : M!Broadcast(p) /\ t = Append(s, Sent(p))
        BY <1>2, <1>10 DEF Extends
    <2>2. publisher[p].pc = "logged"
        BY <2>1 DEF M!Broadcast
    <2>3. Sent(p) \in M!Envelope
        BY <1>1, <2>2, SentType
    <2>4. /\ Len(t) = Len(s) + 1 /\ t[Len(s) + 1] = Sent(p)
          /\ \A i \in 1..Len(s) : t[i] = s[i]
        BY <1>6, <2>1, <2>3, AppendProperties
    <2>5. CASE j \in 1..Len(s)
        BY <1>4, <1>5, <2>4, <2>5
    <2>6. CASE j = Len(s) + 1
        <3>1. m.key = publisher[p].key /\ m.index = publisher[p].index /\ m.val = publisher[p].val
            BY <1>3, <2>4, <2>6 DEF Sent
        <3>2. Known(m.key, m.index, m.val)
            BY <2>2, <3>1 DEF KnownInv, KnownPublished
        <3>3. m.key \in Key
            BY <1>3, <2>3, <2>4, <2>6 DEF M!Envelope
        <3> QED
            BY <1>4, <3>2, <3>3
    <2> QED
        BY <1>2, <1>6, <2>4, <2>5, <2>6
<1>11. CASE Refills(c)
    <2>1. PICK u \in SUBSET Key, v \in 0..MaxPublish : v = stream[c].from /\ t = M!Since(v, u)
        BY <1>2, <1>11 DEF Refills
    <2>2. IsRecovery(t, v, u)
        BY <1>1, <2>1, ReplayedBacklog
    <2>3. v \in Nat /\ j \in 1..Len(t)
        BY <1>2
    <2>4. Known(t[j].key, t[j].index, t[j].val)
        BY <1>1, <2>2, <2>3, ReplayedIsKnown
    <2>5. t[j].key \in Key
        BY <2>2, <2>3 DEF IsRecovery
    <2>6. Known(m.key, m.index, m.val) /\ m.key \in Key
        BY <1>3, <2>4, <2>5
    <2> QED
        BY <1>4, <2>6
<1>12. CASE Cuts(c) \/ Advances(c) \/ Drops(c)
    <2>1. CASE Cuts(c)
        <3>1. j \in 1..Len(s) /\ t[j] = s[j]
            BY <1>2, <1>6, <1>7, <2>1 DEF Cuts
        <3> QED
            BY <1>4, <1>5, <3>1
    <2>2. CASE Advances(c)
        <3>1. j + 1 \in 1..Len(s) /\ t[j] = s[j + 1]
            BY <1>2, <1>6, <1>7, <2>2 DEF Advances
        <3> QED
            BY <1>4, <1>5, <3>1
    <2>3. CASE Drops(c)
        <3>1. PICK d \in Nat : d + Len(t) <= Len(s) /\ \A i \in 1..Len(t) : t[i] = s[i + d]
            BY <1>2, <2>3 DEF Drops, Part
        <3>2. j + d \in 1..Len(s) /\ t[j] = s[j + d]
            BY <1>2, <1>6, <1>7, <3>1
        <3> QED
            BY <1>4, <1>5, <3>2
    <2> QED
        BY <1>12, <2>1, <2>2, <2>3
<1>13. CASE Vanishes(c)
    BY <1>13, EmptySeq DEF Vanishes
<1> QED
    BY <1>8, <1>9, <1>10, <1>11, <1>12, <1>13 DEF Flows

LEMMA NextKeepsPublished ==
    ASSUME LogInv, KnownPublished, ~CanReplace, [Next]_vars
    PROVE  KnownPublished'
<1> SUFFICES ASSUME NEW p \in Publisher, publisher'[p].pc = "logged"
             PROVE  Known(publisher[p].key, publisher[p].index, publisher[p].val)'
    BY DEF KnownPublished
<1>1. CASE M!LogChange(p)
    BY <1>1, LoggedIsKnown
<1>2. CASE publisher'[p] = publisher[p]
    <2>1. PICK k, i, v : k = publisher[p].key /\ i = publisher[p].index /\ v = publisher[p].val
        OBVIOUS
    <2>2. Known(k, i, v)
        BY <1>2, <2>1 DEF KnownPublished
    <2>3. k \in Key
        <3>1. Sent(p) \in M!Envelope
            BY <1>2, SentType
        <3> QED
            BY <2>1, <3>1 DEF Sent, M!Envelope
    <2>4. Known(k, i, v)'
        BY <2>2, <2>3, KnownStays
    <2> QED
        BY <1>2, <2>1, <2>4 DEF Known
<1> QED
    BY <1>1, <1>2, PublisherMoves

\* Only an agent that goes on with a change has one in hand.
LEMMA IdleAfter ==
    ASSUME NEW a \in Agent, agent'[a].pc \in Applying
    PROVE  ~Stops(a) /\ ~Subscribes(a) /\ ~Skips(a) /\ ~Saves(a)
<1>1. ~Stops(a)
    BY DEF Stops, Applying, F!Down, F!Retrying
<1>2. ASSUME Subscribes(a) PROVE FALSE
    <2>1. PICK c \in Call : agent'[a] = [pc |-> "reading", call |-> c, current |-> cursor[a],
                                        recovering |-> TRUE]
        BY <1>2 DEF Subscribes
    <2> QED
        BY <2>1 DEF Applying
<1>3. ~Skips(a) /\ ~Saves(a)
    BY DEF Skips, Saves, Applying
<1> QED
    BY <1>1, <1>2, <1>3

LEMMA NextKeepsChanges ==
    ASSUME TypeInv, KnownInv, ~CanReplace, [Next]_vars
    PROVE  KnownChanges' /\ KnownZones'
<1>1. LogInv /\ F!TypeOK /\ ReadersOwn /\ CallTypes
    BY DEF TypeInv
<1>2. ASSUME NEW a \in Agent, agent[a].pc \in Applying
      PROVE  LET m == agent[a].change IN m.key \in Key /\ Known(m.key, m.index, m.val)
    <2>1. agent[a].change \in M!Envelope
        BY <1>1, <1>2, ProcessRecords
    <2>2. agent[a].change.key \in Key
        BY <2>1 DEF M!Envelope
    <2> QED
        BY <1>2, <2>2 DEF KnownInv, KnownChanges
<1>3. KnownChanges'
    <2> SUFFICES ASSUME NEW a \in Agent, agent'[a].pc \in Applying
                 PROVE  Known(agent[a].change.key, agent[a].change.index, agent[a].change.val)'
        BY DEF KnownChanges
    <2>1. PICK m : m = agent'[a].change
        OBVIOUS
    <2>2. m.key \in Key /\ Known(m.key, m.index, m.val)
        <3>1. Turns(a)
            BY <1>1, AgentTurns
        <3>2. CASE Rests(a) \/ Renames(a)
            BY <1>2, <2>1, <3>2 DEF Rests, Renames, Applying
        <3>3. CASE Removes(a)
            <4>1. F!HasMessage(a) /\ m = F!Message(a)
                BY <2>1, <3>3 DEF Removes
            <4>2. PICK c \in Call : c = agent[a].call
                BY <4>1, NextMessage
            <4>3. m = InFlight(c)[1] /\ 1 \in 1..Len(InFlight(c))
                BY <4>1, <4>2, MessageInFlight
            <4> QED
                BY <1>1, <4>3, EnvelopeKey DEF KnownInv, KnownMessages
        <3>4. ~(Stops(a) \/ Subscribes(a) \/ Skips(a) \/ Saves(a))
            BY IdleAfter
        <3> QED
            BY <3>1, <3>2, <3>3, <3>4 DEF Turns
    <2>3. PICK k \in Key, i \in {m.index}, v \in {m.val} : k = m.key
        BY <2>2
    <2>4. Known(k, i, v)'
        BY <1>1, <2>2, <2>3, KnownStays
    <2> QED
        BY <2>1, <2>3, <2>4 DEF Known
<1>4. KnownZones'
    <2> SUFFICES ASSUME NEW a \in Agent, NEW o \in Object, zone'[a][o] # F!Missing
                 PROVE  \E k \in Key :
                            objectKey[k] = o /\ Known(k, zone[a][o].ver, zone[a][o].val)'
        BY DEF KnownZones, F!Missing, F!Empty
    <2>1. PICK i, v : i = zone'[a][o].ver /\ v = zone'[a][o].val
        OBVIOUS
    <2>2. \E k \in Key : objectKey[k] = o /\ Known(k, i, v)
        <3>1. Turns(a)
            BY <1>1, AgentTurns
        <3>2. zone[a] \in [Object -> F!ZoneFile \cup {F!Missing}]
            BY <1>1 DEF F!TypeOK
        <3>3. CASE zone'[a][o] = zone[a][o]
            BY <2>1, <3>3 DEF KnownInv, KnownZones
        <3>4. CASE Removes(a)
            <4>1. \E w : zone'[a] = [zone[a] EXCEPT ![w] = F!Missing]
                BY <3>4 DEF Removes
            <4>2. zone'[a][o] \in {zone[a][o], F!Missing}
                BY <3>2, <4>1
            <4> QED
                BY <3>3, <4>2
        <3>5. CASE Renames(a)
            <4>1. PICK m : m = agent[a].change
                OBVIOUS
            <4>2. PICK f, w : f = [ver |-> m.index, val |-> m.val] /\ w = objectKey[m.key]
                OBVIOUS
            <4>3. zone'[a] = [zone[a] EXCEPT ![w] = f] /\ agent[a].pc = "removed"
                BY <3>5, <4>1, <4>2 DEF Renames
            <4>4. CASE o = w
                <5>1. i = m.index /\ v = m.val
                    BY <2>1, <3>2, <4>2, <4>3, <4>4
                <5>2. m.key \in Key /\ Known(m.key, m.index, m.val)
                    BY <1>2, <4>1, <4>3 DEF Applying
                <5> QED
                    BY <4>2, <4>4, <5>1, <5>2
            <4>5. CASE o # w
                BY <3>2, <3>3, <4>3, <4>5
            <4> QED
                BY <4>4, <4>5
        <3>6. CASE Rests(a) \/ Stops(a) \/ Subscribes(a) \/ Skips(a) \/ Saves(a)
            BY <3>3, <3>6 DEF Rests, Stops, Subscribes, Skips, Saves
        <3> QED
            BY <3>1, <3>4, <3>5, <3>6 DEF Turns
    <2>3. PICK k \in Key : objectKey[k] = o /\ Known(k, i, v)
        BY <2>2
    <2>4. Known(k, i, v)'
        BY <1>1, <2>3, KnownStays
    <2>5. Known(k, zone[a][o].ver, zone[a][o].val)'
        BY <2>1, <2>4 DEF Known
    <2> QED
        BY <2>3, <2>5
<1> QED
    BY <1>3, <1>4

\* What holds while the master keeps its volume, without what agents have passed.
ContentInv == TypeInv /\ TiersInv /\ StoreAhead /\ KnownInv

LEMMA ContentInvInit == Init => ContentInv
BY TypeInvInit, TiersInvInit, StoreAheadInit, KnownInvInit DEF ContentInv

LEMMA NextKeepsContent ==
    ASSUME ~CanReplace, ContentInv, [Next]_vars
    PROVE  ContentInv'
<1>1. TypeInv /\ TiersInv /\ StoreAhead /\ KnownInv /\ LogInv
    BY DEF ContentInv, TypeInv
<1>2. TypeInv' /\ TiersInv'
    BY <1>1, NextKeepsTypeInv, NextKeepsTiers
<1>3. StoreAhead'
    BY <1>1, NextKeepsAhead
<1>4. KnownInv'
    BY <1>1, NextKeepsMessages, NextKeepsPublished, NextKeepsChanges DEF KnownInv
<1> QED
    BY <1>2, <1>3, <1>4 DEF ContentInv

\* No zone file ever holds content older than the index it is said to be at, unless
\* two publishers raced on its object, be it under two spellings, as long as the master
\* keeps its volume: however replays and broadcasts overtake each other and whatever is
\* killed.
THEOREM ReplicationNoStaleContent ==
    ASSUME ~CanReplace
    PROVE  Spec => []NoStaleContent
<1>1. ContentInv => NoStaleContent
    <2> SUFFICES ASSUME ContentInv, NEW a \in Agent, NEW o \in Object \ raced,
                        zone[a][o] # F!Missing
                 PROVE  zone[a][o].val >= content[zone[a][o].ver]
        BY DEF NoStaleContent
    <2>1. PICK k \in Key : objectKey[k] = o /\ Known(k, zone[a][o].ver, zone[a][o].val)
        BY DEF ContentInv, KnownInv, KnownZones
    <2>2. zone[a][o] \in F!ZoneFile
        BY DEF ContentInv, TypeInv, F!TypeOK
    <2>3. zone[a][o].val # M!Empty
        BY <2>2 DEF F!ZoneFile, F!Empty, M!Empty
    <2> QED
        BY <2>1, <2>3 DEF Known
<1>2. ContentInv /\ [Next]_vars => ContentInv'
    BY NextKeepsContent
<1> QED
    BY <1>1, <1>2, ContentInvInit, PTL DEF Spec

----------------------------------------------------------------------------
\* What agents have passed, while the master keeps its volume.

\* The index an agent will have passed when the change in its hands is saved.
Reached(a) == IF agent[a].pc \in Applying THEN agent[a].change.index ELSE cursor[a]

\* The agent must still have the newest change of k before it passes i.
Owed(a, k, i) == Reached(a) < top[k] /\ top[k] <= i /\ <<k, top[k]>> \notin skipped[a]

\* An agent is never ahead of the log, and subscribes from its cursor.
CursorInv ==
    \A a \in Agent :
        /\ cursor[a] <= latest
        /\ Reader(a) => agent[a].current = cursor[a]
        /\ (Reader(a) /\ stream[agent[a].call].status = "called") =>
            agent[a].pc = "reading" /\ stream[agent[a].call].from = cursor[a]

\* A change in hand is the next one the agent must have.
ChangeInv ==
    \A a \in Agent : agent[a].pc \in Applying =>
        /\ agent[a].change.index > cursor[a]
        /\ \A k \in Key : (cursor[a] < top[k] /\ top[k] < agent[a].change.index) =>
            <<k, top[k]>> \in skipped[a]
        /\ agent[a].pc = "renamed" =>
            zone[a][objectKey[agent[a].change.key]] =
                [ver |-> agent[a].change.index, val |-> agent[a].change.val]

\* Whatever a file ahead of its agent has passed, the agent need not have.
FileInv ==
    \A a \in Agent, o \in Object : zone[a][o] # F!Missing =>
        \A k \in Key : (cursor[a] < top[k] /\ top[k] < zone[a][o].ver) =>
            <<k, top[k]>> \in skipped[a]

\* Before a message of a replay come those of all newest changes up to it.
Covers(a, s) ==
    \A j \in 1..Len(s) : s[j].tier = "RECOVER" =>
        \A k \in Key : Owed(a, k, s[j].index) =>
            \E i \in 1..j : s[i].tier = "RECOVER" /\ s[i].index = top[k]

Covered ==
    \A a \in Agent, c \in Call : (Reader(a) /\ agent[a].call = c) => Covers(a, InFlight(c))

LostInv == CursorInv /\ ChangeInv /\ FileInv /\ Covered /\ NoLostUpdate

LEMMA LostInvInit == Init => LostInv
<1> SUFFICES ASSUME Init PROVE LostInv
    OBVIOUS
<1>1. /\ latest = 0 /\ top = [k \in Key |-> 0]
      /\ agent = [a \in Agent |-> F!Down] /\ cursor = [a \in Agent |-> 0]
      /\ zone = [a \in Agent |-> [o \in Object |-> F!Missing]]
    BY DEF Init, M!Init, F!Init
<1>2. \A a \in Agent : agent[a].pc = "down"
    BY <1>1 DEF F!Down
<1> QED
    BY <1>1, <1>2 DEF LostInv, CursorInv, ChangeInv, FileInv, Covered, NoLostUpdate, IsNewest,
        Reader, Applying

\* The log and the replays that leave changes out only go forward: what is on top up
\* to an index of now was there before.
LEMMA LogForward ==
    ASSUME TypeInv, ~CanReplace, [Next]_vars
    PROVE  /\ latest \in Nat /\ latest' \in Nat /\ latest <= latest' /\ torn \subseteq torn'
           /\ \A k \in Key : top[k] \in 0..latest /\ top'[k] \in 0..latest'
           /\ \A k \in Key : (top'[k] # 0 /\ top'[k] <= latest) => top'[k] = top[k]
           /\ \A k \in Key : top'[k] = top[k] \/ top'[k] > latest \/ (top'[k] = 0 /\ k \in torn')
           /\ \A a \in Agent : skipped[a] \subseteq skipped'[a]
<1>1. LogInv /\ LogInv'
    BY NextKeepsTypeInv DEF TypeInv
<1>2. /\ latest \in Nat /\ latest' \in Nat
      /\ \A k \in Key : top[k] \in 0..latest /\ top'[k] \in 0..latest'
    BY <1>1 DEF LogInv, StoreInv, LogTyping
<1>3. /\ latest <= latest' /\ torn \subseteq torn'
      /\ \A k \in Key : top'[k] = top[k] \/ top'[k] > latest \/ (top'[k] = 0 /\ k \in torn')
    <2>1. Held \/ Tears \/ \E p \in Publisher : M!LogChange(p)
        BY <1>1, LogMoves
    <2>2. CASE Held
        BY <1>2, <2>2 DEF Held
    <2>3. CASE Tears
        <3>1. PICK h \in Key :
                /\ UNCHANGED <<latest, content>> /\ torn' = torn \cup {h}
                /\ top'[h] = 0 /\ \A g \in Key \ {h} : top'[g] = top[g]
            BY <2>3 DEF Tears
        <3> QED
            BY <1>2, <3>1
    <2>4. ASSUME NEW p \in Publisher, M!LogChange(p)
          PROVE  /\ latest <= latest' /\ torn \subseteq torn'
                 /\ \A k \in Key :
                        top'[k] = top[k] \/ top'[k] > latest \/ (top'[k] = 0 /\ k \in torn')
        <3>1. PICK g \in Key :
                /\ latest' = latest + 1 /\ top'[g] = latest + 1
                /\ \A h \in Key \ {g} : top'[h] = top[h]
                /\ torn' = torn
            BY <1>1, <2>4, LogGrows
        <3> QED
            BY <1>2, <3>1
    <2> QED
        BY <2>1, <2>2, <2>3, <2>4
<1>4. ASSUME NEW a \in Agent PROVE skipped[a] \subseteq skipped'[a]
    <2>1. CASE skipped' = skipped
        BY <2>1
    <2>2. ASSUME NEW c \in Call, NEW u \in SUBSET Key, M!Replay(c, u)
          PROVE  skipped[a] \subseteq skipped'[a]
        <3>1. PICK more : skipped' = [skipped EXCEPT ![stream[c].agent] = @ \cup more]
            BY <2>2 DEF M!Replay
        <3> QED
            BY <3>1 DEF TypeInv, SkipTypes
    <2> QED
        BY <2>1, <2>2, SkippedSteps
<1> QED
    BY <1>2, <1>3, <1>4

\* Numbers.
LEMMA AgentNumbers ==
    ASSUME TypeInv, NEW a \in Agent
    PROVE  /\ cursor[a] \in Nat /\ Reached(a) \in Nat
           /\ agent[a].pc \in Applying =>
                /\ agent[a].change \in M!Envelope /\ agent[a].change.index \in Nat \ {0}
                /\ agent[a].change.key \in Key
           /\ Reader(a) => agent[a].call \in Call
<1>1. F!TypeOK
    BY DEF TypeInv
<1>2. cursor[a] \in Nat
    BY <1>1 DEF F!TypeOK
<1>3. agent[a].pc \in Applying => agent[a].change \in M!Envelope
    BY <1>1, ProcessRecords
<1>4. agent[a].pc \in Applying => agent[a].change.index \in Nat \ {0} /\ agent[a].change.key \in Key
    BY <1>3 DEF M!Envelope, M!Index
<1>5. Reader(a) => agent[a].call \in Call
    BY DEF TypeInv, ReadersOwn
<1> QED
    BY <1>2, <1>3, <1>4, <1>5 DEF Reached

LEMMA ReachedType == TypeInv => \A b \in Agent : Reached(b) \in Nat
BY AgentNumbers

LEMMA ReachedNext == TypeInv /\ [Next]_vars => \A a \in Agent : Reached(a)' \in Nat
<1>1. (TypeInv => \A b \in Agent : Reached(b) \in Nat)'
    BY ReachedType, PTL
<1> QED
    BY <1>1, NextKeepsTypeInv

\* What an agent is owed, it was owed before.
LEMMA OwedBefore ==
    ASSUME TypeInv, ~CanReplace, [Next]_vars, NEW a \in Agent, NEW k \in Key, NEW i \in 0..latest,
           Reached(a) <= Reached(a)', Owed(a, k, i)'
    PROVE  Owed(a, k, i) /\ top'[k] = top[k]
<1>1. Reached(a)' < top'[k] /\ top'[k] <= i /\ <<k, top'[k]>> \notin skipped'[a]
    BY DEF Owed
<1>2. Reached(a) \in Nat
    BY AgentNumbers
<1>3. Reached(a)' \in Nat
    BY ReachedNext
<1>4. /\ latest \in Nat /\ latest' \in Nat /\ top'[k] \in 0..latest'
      /\ (top'[k] # 0 /\ top'[k] <= latest) => top'[k] = top[k]
      /\ skipped[a] \subseteq skipped'[a]
    BY LogForward
<1>5. top'[k] = top[k]
    BY <1>1, <1>3, <1>4
<1>6. Reached(a) < top[k] /\ top[k] <= i /\ <<k, top[k]>> \notin skipped[a]
    BY <1>1, <1>2, <1>3, <1>4, <1>5
<1> QED
    BY <1>5, <1>6 DEF Owed

\* A stream on which a reader still waits to be answered has its cursor.
LEMMA CalledBefore ==
    ASSUME SubInv, ReadersOwn, [Next]_vars, NEW a \in Agent, Reader(a),
           stream'[agent[a].call].status = "called"
    PROVE  /\ stream[agent[a].call].status = "called"
           /\ stream'[agent[a].call].from = stream[agent[a].call].from
<1>1. PICK c \in Call : c = agent[a].call /\ Exists(c) /\ stream[c].agent = a
    BY DEF ReadersOwn
<1>2. Moves(c)
    BY NextMoves
<1>3. ~F!Forget(c)
    BY <1>1 DEF F!Forget, Reader
<1>4. CASE StreamKept(c)
    BY <1>1, <1>4 DEF StreamKept
<1>5. CASE Empties(c)
    BY <1>1, <1>5 DEF Empties
<1>6. StreamKept(c) \/ Empties(c)
    BY <1>1, <1>2, <1>3 DEF Moves, Quiet, Sends, Adds, Replays, Ends, Takes, Opens, Forgets
<1> QED
    BY <1>4, <1>5, <1>6

\* A reader that applies, or is about to, is past the call.
LEMMA WaitsForAnswer ==
    ASSUME TypeInv, CalledEmpty, CursorInv, NEW a \in Agent, Reader(a),
           stream[agent[a].call].status = "called"
    PROVE  agent[a].pc = "reading" /\ stream[agent[a].call].from = cursor[a] /\ ~F!HasMessage(a)
<1>1. agent[a].pc = "reading" /\ stream[agent[a].call].from = cursor[a]
    BY DEF CursorInv
<1>2. PICK c \in Call : c = agent[a].call /\ Exists(c)
    BY DEF TypeInv, ReadersOwn
<1>3. stream[c].msgs = <<>>
    BY <1>2 DEF CalledEmpty, Msgs, Exists
<1> QED
    BY <1>1, <1>2, <1>3 DEF F!HasMessage

\* The streams of a reader that goes on reading.
LEMMA ReaderFlows ==
    ASSUME TypeInv, TiersInv, CursorInv, [Next]_vars, NEW a \in Agent, Reader(a),
           agent'[a].pc \in {"reading", "removed", "renamed"}, agent'[a].call = agent[a].call,
           NEW c \in Call, c = agent[a].call
    PROVE  \/ Keeps(c) /\ (Runs(c)' => Runs(c))
           \/ Extends(c) \/ Cuts(c)
           \/ Refills(c) /\ stream[c].agent = a /\ stream[c].from = cursor[a] /\ Reached(a) = cursor[a]
           \/ Advances(c) /\ (F!Skip(a) \/ F!RemoveZone(a))
<1>1. SubInv /\ ReadersOwn /\ CalledEmpty /\ F!TypeOK
    BY DEF TypeInv, TiersInv
<1>2. Exists(c) /\ stream[c].agent = a
    BY <1>1 DEF ReadersOwn
<1>3. agent \in [Agent -> F!Processes]
    BY <1>1 DEF F!TypeOK
<1>4. CASE Refills(c)
    <2>1. stream[c].status = "called"
        BY <1>4 DEF Refills, M!Replay
    <2>2. agent[a].pc = "reading" /\ stream[c].from = cursor[a]
        BY <1>1, <2>1, WaitsForAnswer
    <2> QED
        BY <1>2, <1>4, <2>2 DEF Reached, Applying
<1>5. CASE Drops(c)
    <2>1. F!Exit(a)
        BY <1>2, <1>5 DEF Drops, Empties
    <2>2. agent'[a] = F!Down
        BY <1>3, <2>1 DEF F!Exit
    <2> QED
        BY <2>2 DEF F!Down
<1>6. CASE Advances(c)
    <2>1. PICK b \in Agent : agent[b].call = c /\ (F!Skip(b) \/ F!Leave(b) \/ F!RemoveZone(b))
        BY <1>6 DEF Advances
    <2>2. Reader(b)
        BY <2>1 DEF F!Skip, F!Leave, F!RemoveZone, F!HasMessage, Reader
    <2>3. b = a
        BY <1>1, <1>2, <2>1, <2>2 DEF ReadersOwn
    <2>4. ~F!Leave(a)
        BY <1>3 DEF F!Leave, F!Retrying
    <2> QED
        BY <1>6, <2>1, <2>3, <2>4
<1>7. ~Vanishes(c)
    BY <1>2 DEF Vanishes, Opens, Forgets, F!Forget, Reader
<1> QED
    BY <1>1, <1>4, <1>5, <1>6, <1>7, NextFlows DEF Flows

\* What an agent takes from a stream and goes on with is not after what it will have
\* passed, and every change it has in hand comes from such a message.
LEMMA TakenIsReached ==
    ASSUME TypeInv, CursorInv, [Next]_vars, NEW a \in Agent, NEW c \in Call, c = agent[a].call,
           F!Skip(a) \/ F!RemoveZone(a)
    PROVE  /\ Reached(a) <= Reached(a)'
           /\ InFlight(c)[1].tier = "RECOVER" => InFlight(c)[1].index <= Reached(a)'
<1>1. PICK m : m = F!Message(a)
    OBVIOUS
<1>2. F!HasMessage(a) /\ agent[a].pc = "reading" /\ Reader(a)
    BY DEF F!Skip, F!RemoveZone, F!HasMessage, Reader
<1>3. m = InFlight(c)[1] /\ m \in M!Envelope
    BY <1>1, <1>2, MessageInFlight
<1>4. m.index \in Nat /\ m.tier \in {"RECOVER", "NORMAL"}
    BY <1>3 DEF M!Envelope, M!Index
<1>5. agent \in [Agent -> F!Processes] /\ cursor[a] \in Nat
    BY AgentNumbers DEF TypeInv, F!TypeOK
<1>6. agent[a].current = cursor[a] /\ Reached(a) = cursor[a]
    BY <1>2 DEF CursorInv, Reached, Applying
<1>7. CASE F!Skip(a)
    <2>1. m.tier = "RECOVER" => m.index <= cursor[a]
        BY <1>1, <1>4, <1>6, <1>7 DEF F!Skip, F!Verdict
    <2>2. PICK r, b : r = agent[a] /\ b = F!StillRecovering(a)
        OBVIOUS
    <2>3. agent' = [agent EXCEPT ![a] = [r EXCEPT !.recovering = b]] /\ cursor' = cursor
        BY <1>7, <2>2 DEF F!Skip
    <2>4. r \in [pc : {"reading"}, call : Call, current : 0..MaxPublish, recovering : BOOLEAN]
        BY <1>2, <2>2, ProcessRecords DEF TypeInv
    <2>5. agent'[a].pc = "reading"
        BY <1>5, <2>3, <2>4
    <2>6. Reached(a)' = cursor[a]
        BY <2>3, <2>5 DEF Reached, Applying
    <2> QED
        BY <1>3, <1>5, <1>6, <2>1, <2>6
<1>8. CASE F!RemoveZone(a)
    <2>1. PICK r : r.pc = "removed" /\ r.change = m /\ agent' = [agent EXCEPT ![a] = r]
        <3>1. PICK r : /\ r = [pc |-> "removed", call |-> agent[a].call, current |-> agent[a].current,
                               recovering |-> F!StillRecovering(a), change |-> m]
                       /\ agent' = [agent EXCEPT ![a] = r]
            BY <1>1, <1>8 DEF F!RemoveZone
        <3> QED
            BY <3>1
    <2>2. Reached(a)' = m.index
        BY <1>5, <2>1 DEF Reached, Applying
    <2>3. F!Verdict(agent[a], m) = "apply"
        BY <1>1, <1>8 DEF F!RemoveZone
    <2>4. m.index > cursor[a]
        BY <1>3, <1>5, <1>6, <2>3, Applied
    <2> QED
        BY <1>3, <1>4, <1>5, <1>6, <2>2, <2>4
<1> QED
    BY <1>7, <1>8

\* Every message of a replay still comes after those it must not overtake.
LEMMA NextKeepsCovers ==
    ASSUME ContentInv, LostInv, ~CanReplace, [Next]_vars, NEW a \in Agent, Reader(a),
           agent'[a].pc \in {"reading", "removed", "renamed"}, agent'[a].call = agent[a].call,
           NEW c \in Call, c = agent[a].call, Reached(a) <= Reached(a)'
    PROVE  Covers(a, InFlight(c))'
<1>1. /\ TypeInv /\ TiersInv /\ KnownInv /\ CursorInv /\ Covered /\ LogInv /\ CallTypes
      /\ TypeInv'
    BY NextKeepsTypeInv DEF ContentInv, LostInv, TypeInv
<1>2. PICK s, t : s = InFlight(c) /\ t = InFlight(c)'
    OBVIOUS
<1>3. Covers(a, s)
    BY <1>1, <1>2 DEF Covered
<1>4. s \in Seq(M!Envelope) /\ Len(s) \in Nat
    BY <1>1, <1>2, QueueTypes, LenProperties
<1>5. t \in Seq(M!Envelope) /\ Len(t) \in Nat
    <2>1. (CallTypes => \A d \in Call : InFlight(d) \in Seq(M!Envelope))'
        BY FlightTypes, PTL
    <2>2. t \in Seq(M!Envelope)
        BY <1>1, <1>2, <2>1 DEF TypeInv
    <2> QED
        BY <2>2, LenProperties
<1>6. \A i \in 1..Len(s) : s[i].index \in 1..latest
    BY <1>1, <1>2 DEF KnownInv, KnownMessages, Known
<1> SUFFICES ASSUME NEW j \in 1..Len(t), t[j].tier = "RECOVER", NEW k \in Key,
                    Owed(a, k, t[j].index)'
             PROVE  \E i \in 1..j : t[i].tier = "RECOVER" /\ t[i].index = top'[k]
    <2>1. ASSUME \A j \in 1..Len(t) : t[j].tier = "RECOVER" =>
                    \A k \in Key : Owed(a, k, t[j].index)' =>
                        \E i \in 1..j : t[i].tier = "RECOVER" /\ t[i].index = top'[k]
          PROVE  Covers(a, InFlight(c))'
        BY <1>2, <2>1 DEF Covers, Owed
    <2> QED
        BY <2>1
<1>7. ASSUME NEW n \in 1..Len(s), t[j] = s[n]
      PROVE  /\ top'[k] = top[k] /\ Owed(a, k, s[n].index)
             /\ \E i \in 1..n : s[i].tier = "RECOVER" /\ s[i].index = top[k]
    <2>1. PICK x \in 0..latest : x = s[n].index
        BY <1>6
    <2>2. Owed(a, k, x)'
        BY <1>7, <2>1 DEF Owed
    <2>3. Owed(a, k, x) /\ top'[k] = top[k]
        BY <1>1, <2>2, OwedBefore
    <2> QED
        BY <1>3, <1>7, <2>1, <2>3 DEF Covers
<1>8. CASE Keeps(c) \/ Cuts(c)
    <2>1. \A i \in 1..j : i \in 1..Len(s) /\ t[i] = s[i]
        <3>1. CASE Keeps(c)
            BY <1>2, <3>1 DEF Keeps
        <3>2. CASE Cuts(c)
            <4>1. Len(t) <= Len(s) /\ \A i \in 1..Len(t) : t[i] = s[i]
                BY <1>2, <3>2 DEF Cuts
            <4> QED
                BY <1>4, <1>5, <4>1
        <3> QED
            BY <1>8, <3>1, <3>2
    <2>2. j \in 1..Len(s) /\ t[j] = s[j]
        BY <1>5, <2>1
    <2> QED
        BY <1>7, <2>1, <2>2
<1>9. CASE Extends(c)
    <2>1. PICK p \in Publisher : M!Broadcast(p) /\ t = Append(s, Sent(p))
        BY <1>2, <1>9 DEF Extends
    <2>2. Sent(p) \in M!Envelope /\ Sent(p).tier = "NORMAL"
        BY <1>1, <2>1, SentType DEF M!Broadcast, Sent
    <2>3. /\ Len(t) = Len(s) + 1 /\ t[Len(s) + 1] = Sent(p)
          /\ \A i \in 1..Len(s) : t[i] = s[i]
        BY <1>4, <2>1, <2>2, AppendProperties
    <2>4. j # Len(s) + 1
        BY <2>2, <2>3
    <2>5. j \in 1..Len(s) /\ \A i \in 1..j : i \in 1..Len(s)
        BY <1>4, <2>3, <2>4
    <2> QED
        BY <1>7, <2>3, <2>5
<1>10. CASE Refills(c) /\ stream[c].agent = a /\ stream[c].from = cursor[a] /\ Reached(a) = cursor[a]
    <2>1. PICK u \in SUBSET Key, v \in 0..MaxPublish :
            M!Replay(c, u) /\ v = stream[c].from /\ t = M!Since(v, u)
        BY <1>2, <1>10 DEF Refills
    <2>2. IsRecovery(t, v, u)
        BY <1>1, <2>1, ReplayedBacklog
    <2>3. top' = top
        BY <2>1 DEF M!Replay, M!logVars
    <2>4. v < top[k] /\ top[k] <= t[j].index /\ <<k, top[k]>> \notin skipped'[a]
        <3>1. Reached(a)' < top[k] /\ top[k] <= t[j].index /\ <<k, top[k]>> \notin skipped'[a]
            BY <2>3 DEF Owed
        <3>2. v \in Nat /\ top[k] \in Nat /\ Reached(a)' \in Nat /\ v <= Reached(a)'
            <4>1. top[k] \in 0..latest /\ latest \in Nat
                BY <1>1, LogForward
            <4> QED
                BY <1>1, <1>10, <2>1, <4>1, ReachedNext
        <3> QED
            BY <3>1, <3>2
    <2>5. k \notin u
        <3>1. PICK more :
                /\ more = {<<h, top[h]>> : h \in {g \in u : top[g] > stream[c].from}}
                /\ skipped' = [skipped EXCEPT ![stream[c].agent] = @ \cup more]
            BY <2>1 DEF M!Replay
        <3>2. <<k, top[k]>> \notin more
            BY <1>1, <1>10, <2>4, <3>1 DEF TypeInv, SkipTypes
        <3> QED
            BY <2>1, <2>4, <3>1, <3>2
    <2>6. PICK n \in 1..Len(t) : t[n].index = top[k]
        BY <2>2, <2>4, <2>5 DEF IsRecovery
    <2>7. t[n].tier = "RECOVER" /\ (j < n => t[j].index < t[n].index)
        BY <2>2 DEF IsRecovery
    <2>8. t[j].index \in Nat /\ t[n].index \in Nat
        <3>1. t[j] \in M!Envelope /\ t[n] \in M!Envelope
            BY <1>5, ElementOfSeq
        <3> QED
            BY <3>1 DEF M!Envelope, M!Index
    <2>9. n \in 1..j
        BY <1>5, <2>4, <2>6, <2>7, <2>8
    <2> QED
        BY <2>3, <2>6, <2>7, <2>9
<1>11. CASE Advances(c) /\ (F!Skip(a) \/ F!RemoveZone(a))
    <2>1. Len(t) = Len(s) - 1 /\ \A i \in 1..Len(t) : t[i] = s[i + 1]
        BY <1>2, <1>11 DEF Advances
    <2>2. j + 1 \in 1..Len(s) /\ t[j] = s[j + 1]
        BY <1>4, <1>5, <2>1
    <2>3. PICK i \in 1..j + 1 : s[i].tier = "RECOVER" /\ s[i].index = top[k]
        BY <1>7, <2>2
    <2>4. top'[k] = top[k]
        BY <1>7, <2>2
    <2>5. i # 1
        <3>1. s[1].tier = "RECOVER" => s[1].index <= Reached(a)'
            BY <1>1, <1>2, <1>11, TakenIsReached
        <3>2. Reached(a)' < top[k]
            BY <2>4 DEF Owed
        <3>3. Reached(a)' \in Nat /\ top[k] \in Nat
            <4>1. top[k] \in 0..latest /\ latest \in Nat
                BY <1>1, LogForward
            <4> QED
                BY <1>1, <4>1, ReachedNext
        <3> QED
            BY <2>3, <3>1, <3>2, <3>3
    <2>6. i - 1 \in 1..j /\ t[i - 1] = s[i]
        <3>1. i - 1 \in 1..j /\ i - 1 \in 1..Len(t) /\ (i - 1) + 1 = i
            BY <1>5, <2>5
        <3> QED
            BY <2>1, <3>1
    <2> QED
        BY <2>3, <2>4, <2>6
<1> QED
    BY <1>1, <1>8, <1>9, <1>10, <1>11, ReaderFlows

LEMMA NextKeepsCursor ==
    ASSUME ContentInv, LostInv, ~CanReplace, [Next]_vars
    PROVE  CursorInv'
<1>1. TypeInv /\ TiersInv /\ KnownInv /\ CursorInv /\ ChangeInv /\ SubInv /\ ReadersOwn /\ F!TypeOK
    BY DEF ContentInv, LostInv, TypeInv
<1> SUFFICES ASSUME NEW a \in Agent
             PROVE  /\ cursor'[a] <= latest'
                    /\ Reader(a)' => agent'[a].current = cursor'[a]
                    /\ (Reader(a)' /\ stream'[agent'[a].call].status = "called") =>
                        agent'[a].pc = "reading" /\ stream'[agent'[a].call].from = cursor'[a]
    BY DEF CursorInv
<1>2. /\ latest \in Nat /\ latest' \in Nat /\ latest <= latest' /\ cursor[a] \in Nat
      /\ cursor[a] <= latest
      /\ Reader(a) => agent[a].current = cursor[a]
    BY <1>1, LogForward, AgentNumbers DEF CursorInv
<1>3. Turns(a)
    BY <1>1, AgentTurns
<1>4. ASSUME Reader(a), stream'[agent[a].call].status = "called"
      PROVE  /\ agent[a].pc = "reading" /\ stream'[agent[a].call].from = cursor[a]
             /\ ~F!HasMessage(a)
    <2>1. /\ stream[agent[a].call].status = "called"
          /\ stream'[agent[a].call].from = stream[agent[a].call].from
        BY <1>1, <1>4, CalledBefore
    <2>2. agent[a].pc = "reading" /\ stream[agent[a].call].from = cursor[a] /\ ~F!HasMessage(a)
        BY <1>1, <1>4, <2>1, WaitsForAnswer DEF TiersInv
    <2> QED
        BY <2>1, <2>2
<1>5. CASE Rests(a)
    BY <1>2, <1>4, <1>5 DEF Rests, Reader
<1>6. CASE Stops(a)
    BY <1>2, <1>6 DEF Stops, Reader, F!Down, F!Retrying
<1>7. CASE Subscribes(a)
    <2>1. PICK c \in Call :
            /\ F!Subscribe(a, c) /\ cursor'[a] = cursor[a]
            /\ agent'[a].pc = "reading" /\ agent'[a].call = c /\ agent'[a].current = cursor[a]
        BY <1>7 DEF Subscribes
    <2>2. PICK s : s.from = cursor[a] /\ stream' = [stream EXCEPT ![c] = s]
        <3>1. PICK s :
                /\ s = [status |-> "called", agent |-> a, from |-> cursor[a], msgs |-> <<>>,
                        alive |-> TRUE]
                /\ stream' = [stream EXCEPT ![c] = s]
            BY <2>1 DEF F!Subscribe
        <3> QED
            BY <3>1
    <2>3. stream'[c].from = cursor[a]
        BY <1>1, <2>2 DEF SubInv, CallTyping, OfCalls
    <2> QED
        BY <1>2, <2>1, <2>3
<1>8. CASE Skips(a) \/ Removes(a)
    <2>1. /\ F!HasMessage(a) /\ Reader(a) /\ agent'[a].call = agent[a].call
          /\ agent'[a].current = agent[a].current /\ cursor'[a] = cursor[a]
        BY <1>8 DEF Skips, Removes, F!HasMessage, Reader
    <2> QED
        BY <1>2, <1>4, <2>1
<1>9. CASE Renames(a)
    <2>1. /\ agent[a].pc = "removed" /\ Reader(a) /\ agent'[a].call = agent[a].call
          /\ agent'[a].current = agent[a].current /\ cursor'[a] = cursor[a]
        BY <1>9 DEF Renames, Reader
    <2> QED
        BY <1>2, <1>4, <2>1
<1>10. CASE Saves(a)
    <2>1. PICK i : i = agent[a].change.index
        OBVIOUS
    <2>2. /\ agent[a].pc = "renamed" /\ Reader(a) /\ agent'[a].call = agent[a].call
          /\ agent'[a].current = i
          /\ cursor'[a] = IF i <= cursor[a] THEN cursor[a] ELSE i
        BY <1>10, <2>1 DEF Saves, Reader
    <2>3. i > cursor[a] /\ i \in 1..latest
        BY <1>1, <2>1, <2>2 DEF ChangeInv, KnownInv, KnownChanges, Known, Applying
    <2>4. cursor'[a] = i
        BY <1>2, <2>2, <2>3
    <2> QED
        BY <1>2, <1>4, <2>2, <2>3, <2>4
<1> QED
    BY <1>3, <1>5, <1>6, <1>7, <1>8, <1>9, <1>10 DEF Turns

\* A change that is applied is not below what is on top of its key, and only it is on
\* top at its index.
LEMMA ChangeOnTop ==
    ASSUME ContentInv, LostInv, NEW a \in Agent, agent[a].pc \in Applying, NEW k \in Key
    PROVE  /\ k = agent[a].change.key => top[k] = 0 \/ top[k] > cursor[a]
           /\ top[k] = agent[a].change.index => k = agent[a].change.key
<1>1. Known(agent[a].change.key, agent[a].change.index, agent[a].change.val)
    BY DEF ContentInv, KnownInv, KnownChanges
<1>2. agent[a].change.index > cursor[a]
    BY DEF LostInv, ChangeInv
<1>3. cursor[a] \in Nat /\ agent[a].change.index \in Nat
    BY AgentNumbers DEF ContentInv
<1>4. top[k] \in Nat
    BY DEF ContentInv, TypeInv, LogInv, StoreInv, LogTyping
<1> QED
    BY <1>1, <1>2, <1>3, <1>4 DEF Known

\* What an agent does when it applies a message.
LEMMA RemovedChange ==
    ASSUME ContentInv, LostInv, NEW a \in Agent, Removes(a), NEW m, m = F!Message(a)
    PROVE  /\ m \in M!Envelope /\ m.key \in Key /\ m.index \in Nat /\ m.index > cursor[a]
           /\ Known(m.key, m.index, m.val)
           /\ agent[a].pc = "reading" /\ Reader(a)
           /\ \A k \in Key : (cursor[a] < top[k] /\ top[k] < m.index) => <<k, top[k]>> \in skipped[a]
<1>1. F!HasMessage(a) /\ agent[a].pc = "reading" /\ Reader(a) /\ F!Verdict(agent[a], m) = "apply"
    BY DEF Removes, F!HasMessage, Reader
<1>2. TypeInv /\ KnownInv /\ CursorInv /\ Covered
    BY DEF ContentInv, LostInv
<1>3. PICK c \in Call : c = agent[a].call
    BY <1>1, <1>2, AgentNumbers
<1>4. m = InFlight(c)[1] /\ 1 \in 1..Len(InFlight(c)) /\ m \in M!Envelope
    BY <1>1, <1>2, <1>3, MessageInFlight
<1>5. m.key \in Key /\ m.index \in Nat /\ m.tier \in {"RECOVER", "NORMAL"}
    BY <1>4 DEF M!Envelope, M!Index
<1>6. Known(m.key, m.index, m.val)
    BY <1>2, <1>4 DEF KnownInv, KnownMessages
<1>7. agent[a].current = cursor[a] /\ cursor[a] \in Nat /\ Reached(a) = cursor[a]
    BY <1>1, <1>2, AgentNumbers DEF CursorInv, Reached, Applying
<1>8. m.index > cursor[a] /\ (m.tier # "RECOVER" => m.index = cursor[a] + 1)
    BY <1>1, <1>4, <1>7, Applied
<1>9. ASSUME NEW k \in Key, cursor[a] < top[k], top[k] < m.index, <<k, top[k]>> \notin skipped[a]
      PROVE  FALSE
    <2>1. top[k] \in Nat
        BY <1>2 DEF TypeInv, LogInv, StoreInv, LogTyping
    <2>2. m.tier = "RECOVER"
        BY <1>5, <1>7, <1>8, <1>9, <2>1
    <2>3. Owed(a, k, m.index)
        BY <1>5, <1>7, <1>9, <2>1 DEF Owed
    <2>4. Covers(a, InFlight(c))
        BY <1>1, <1>2, <1>3 DEF Covered
    <2>5. PICK i \in 1..1 : InFlight(c)[i].index = top[k]
        BY <1>4, <2>2, <2>3, <2>4 DEF Covers
    <2>6. m.index = top[k]
        BY <1>4, <2>5
    <2> QED
        BY <1>5, <1>9, <2>1, <2>6
<1> QED
    BY <1>1, <1>4, <1>5, <1>6, <1>8, <1>9

LEMMA NextKeepsChangeInv ==
    ASSUME ContentInv, LostInv, ~CanReplace, [Next]_vars
    PROVE  ChangeInv'
<1>1. TypeInv /\ KnownInv /\ CursorInv /\ ChangeInv /\ F!TypeOK
    BY DEF ContentInv, LostInv, TypeInv
<1> SUFFICES ASSUME NEW a \in Agent, agent'[a].pc \in Applying
             PROVE  /\ agent'[a].change.index > cursor'[a]
                    /\ \A k \in Key : (cursor'[a] < top'[k] /\ top'[k] < agent'[a].change.index) =>
                        <<k, top'[k]>> \in skipped'[a]
                    /\ agent'[a].pc = "renamed" =>
                        zone'[a][objectKey[agent'[a].change.key]] =
                            [ver |-> agent'[a].change.index, val |-> agent'[a].change.val]
    BY DEF ChangeInv
<1>2. Rests(a) \/ (UNCHANGED masterVars /\ (Removes(a) \/ Renames(a)))
    BY <1>1, AgentTurns, IdleAfter DEF Turns
<1>3. CASE Rests(a)
    <2>1. agent'[a] = agent[a] /\ cursor'[a] = cursor[a] /\ zone'[a] = zone[a]
        BY <1>3 DEF Rests
    <2>2. PICK m : m = agent[a].change
        OBVIOUS
    <2>3. /\ m.index > cursor[a]
          /\ \A k \in Key : (cursor[a] < top[k] /\ top[k] < m.index) => <<k, top[k]>> \in skipped[a]
          /\ agent[a].pc = "renamed" =>
                zone[a][objectKey[m.key]] = [ver |-> m.index, val |-> m.val]
        BY <1>1, <2>1, <2>2 DEF ChangeInv
    <2>4. m.index \in 1..latest
        BY <1>1, <2>1, <2>2 DEF KnownInv, KnownChanges, Known
    <2>5. ASSUME NEW k \in Key, cursor[a] < top'[k], top'[k] < m.index
          PROVE  <<k, top'[k]>> \in skipped'[a]
        <3>1. /\ latest \in Nat /\ latest' \in Nat /\ top'[k] \in 0..latest' /\ cursor[a] \in Nat
              /\ (top'[k] # 0 /\ top'[k] <= latest) => top'[k] = top[k]
              /\ skipped[a] \subseteq skipped'[a]
            BY <1>1, LogForward, AgentNumbers
        <3>2. top'[k] = top[k]
            BY <2>4, <2>5, <3>1
        <3> QED
            BY <2>3, <2>5, <3>1, <3>2
    <2> QED
        BY <2>1, <2>2, <2>3, <2>5
<1>4. CASE UNCHANGED masterVars /\ Removes(a)
    <2>1. PICK m : m = F!Message(a)
        OBVIOUS
    <2>2. /\ agent'[a].pc = "removed" /\ agent'[a].change = m /\ cursor'[a] = cursor[a]
          /\ UNCHANGED <<top, skipped>>
        BY <1>4, <2>1 DEF Removes, masterVars
    <2>3. /\ m.index > cursor[a]
          /\ \A k \in Key : (cursor[a] < top[k] /\ top[k] < m.index) => <<k, top[k]>> \in skipped[a]
        BY <1>4, <2>1, RemovedChange
    <2> QED
        BY <2>2, <2>3
<1>5. CASE UNCHANGED masterVars /\ Renames(a)
    <2>1. PICK m, f : m = agent[a].change /\ f = [ver |-> m.index, val |-> m.val]
        OBVIOUS
    <2>2. /\ agent[a].pc = "removed" /\ agent'[a].change = m /\ cursor'[a] = cursor[a]
          /\ zone'[a] = [zone[a] EXCEPT ![objectKey[m.key]] = f] /\ UNCHANGED <<top, skipped>>
        BY <1>5, <2>1 DEF Renames, masterVars
    <2>3. /\ m.index > cursor[a]
          /\ \A k \in Key : (cursor[a] < top[k] /\ top[k] < m.index) => <<k, top[k]>> \in skipped[a]
        BY <1>1, <2>1, <2>2 DEF ChangeInv, Applying
    <2>4. zone'[a][objectKey[m.key]] = f
        <3>1. m.key \in Key /\ zone[a] \in [Object -> F!ZoneFile \cup {F!Missing}]
            BY <1>1, <2>1, <2>2, AgentNumbers DEF Applying, F!TypeOK
        <3> QED
            BY <2>2, <3>1
    <2> QED
        BY <2>1, <2>2, <2>3, <2>4
<1> QED
    BY <1>2, <1>3, <1>4, <1>5

LEMMA NextKeepsFileInv ==
    ASSUME ContentInv, LostInv, ~CanReplace, [Next]_vars
    PROVE  FileInv'
<1>1. TypeInv /\ KnownInv /\ CursorInv /\ ChangeInv /\ FileInv /\ F!TypeOK
    BY DEF ContentInv, LostInv, TypeInv
<1> SUFFICES ASSUME NEW a \in Agent, NEW o \in Object, zone'[a][o] # F!Missing, NEW k \in Key,
                    cursor'[a] < top'[k], top'[k] < zone'[a][o].ver
             PROVE  <<k, top'[k]>> \in skipped'[a]
    BY DEF FileInv, F!Missing, F!Empty
<1>2. /\ latest \in Nat /\ latest' \in Nat /\ top'[k] \in 0..latest' /\ top[k] \in 0..latest
      /\ (top'[k] # 0 /\ top'[k] <= latest) => top'[k] = top[k]
      /\ skipped[a] \subseteq skipped'[a]
      /\ cursor[a] \in Nat /\ cursor[a] <= latest
    BY <1>1, LogForward, AgentNumbers DEF CursorInv
<1>3. zone[a] \in [Object -> F!ZoneFile \cup {F!Missing}]
    BY <1>1 DEF F!TypeOK
<1>4. Turns(a)
    BY <1>1, AgentTurns
<1>5. cursor[a] <= cursor'[a] /\ cursor'[a] \in Nat
    <2>1. CASE Rests(a) \/ Stops(a) \/ Subscribes(a) \/ Skips(a) \/ Removes(a) \/ Renames(a)
        <3>1. cursor'[a] = cursor[a]
            BY <2>1 DEF Rests, Stops, Subscribes, Skips, Removes, Renames
        <3> QED
            BY <1>2, <3>1
    <2>2. CASE Saves(a)
        <3>1. PICK i : i = agent[a].change.index
            OBVIOUS
        <3>2. agent[a].pc \in Applying /\ cursor'[a] = IF i <= cursor[a] THEN cursor[a] ELSE i
            BY <2>2, <3>1 DEF Saves, Applying
        <3>3. i \in Nat
            BY <1>1, <3>1, <3>2, AgentNumbers
        <3> QED
            BY <1>2, <3>2, <3>3
    <2> QED
        BY <1>4, <2>1, <2>2 DEF Turns
<1>6. CASE zone'[a][o] = zone[a][o]
    <2>1. zone[a][o].ver \in 1..latest
        BY <1>1, <1>6 DEF KnownInv, KnownZones, Known
    <2>2. top'[k] = top[k]
        BY <1>2, <1>5, <1>6, <2>1
    <2>3. <<k, top[k]>> \in skipped[a]
        BY <1>1, <1>2, <1>5, <1>6, <2>2 DEF FileInv
    <2> QED
        BY <1>2, <2>2, <2>3
<1>7. CASE Removes(a)
    <2>1. \E w : zone'[a] = [zone[a] EXCEPT ![w] = F!Missing]
        BY <1>7 DEF Removes
    <2>2. zone'[a][o] \in {zone[a][o], F!Missing}
        BY <1>3, <2>1
    <2> QED
        BY <1>6, <2>2
<1>8. CASE Renames(a) /\ UNCHANGED masterVars
    <2>1. PICK m, f, w : /\ m = agent[a].change /\ f = [ver |-> m.index, val |-> m.val]
                         /\ w = objectKey[m.key]
        OBVIOUS
    <2>2. /\ agent[a].pc \in Applying /\ zone'[a] = [zone[a] EXCEPT ![w] = f]
          /\ cursor'[a] = cursor[a] /\ UNCHANGED <<top, skipped>>
        BY <1>8, <2>1 DEF Renames, Applying, masterVars
    <2>3. (cursor[a] < top[k] /\ top[k] < m.index) => <<k, top[k]>> \in skipped[a]
        BY <1>1, <2>1, <2>2 DEF ChangeInv
    <2>4. CASE o = w
        <3>1. zone'[a][o].ver = m.index
            BY <1>3, <2>1, <2>2, <2>4
        <3> QED
            BY <2>2, <2>3, <3>1
    <2>5. CASE o # w
        BY <1>3, <1>6, <2>2, <2>5
    <2> QED
        BY <2>4, <2>5
<1>9. CASE Rests(a) \/ Stops(a) \/ Subscribes(a) \/ Skips(a) \/ Saves(a)
    BY <1>6, <1>9 DEF Rests, Stops, Subscribes, Skips, Saves
<1> QED
    BY <1>4, <1>7, <1>8, <1>9 DEF Turns

\* What an agent has in hand is not of the object of a newest change it has passed.
LEMMA PassedOthers ==
    ASSUME LogInv, NEW a \in Agent, cursor[a] \in Nat, NEW k \in Key, IsNewest(k), top[k] <= cursor[a],
           \A h \in Key \ {k} : objectKey[h] = objectKey[k] => h \notin torn,
           NEW g \in Key, NEW i \in Nat, i > cursor[a], NEW v, Known(g, i, v)
    PROVE  objectKey[g] # objectKey[k]
<1>1. top \in [Key -> 0..latest] /\ latest \in Nat
    BY DEF LogInv, StoreInv, LogTyping
<1>2. top[g] >= i \/ (top[g] = 0 /\ g \in torn)
    BY DEF Known
<1>3. top[k] # 0 /\ (objectKey[g] = objectKey[k] => top[g] <= top[k])
    BY DEF IsNewest
<1> QED
    BY <1>1, <1>2, <1>3

LEMMA NextKeepsNoLostUpdate ==
    ASSUME ContentInv, LostInv, ~CanReplace, [Next]_vars
    PROVE  NoLostUpdate'
<1>1. TypeInv /\ LogInv /\ KnownInv /\ CursorInv /\ ChangeInv /\ NoLostUpdate /\ F!TypeOK
    BY DEF ContentInv, LostInv, TypeInv
<1> SUFFICES ASSUME NEW a \in Agent, NEW k \in Key, IsNewest(k)', top'[k] <= cursor'[a],
                    <<k, top'[k]>> \notin skipped'[a],
                    \A h \in Key \ {k} : objectKey[h] = objectKey[k] => h \notin torn'
             PROVE  zone'[a][objectKey[k]].ver = top'[k]
    BY DEF NoLostUpdate
<1>2. /\ latest \in Nat /\ latest' \in Nat /\ torn \subseteq torn'
      /\ \A h \in Key : top'[h] \in 0..latest' /\ top[h] \in 0..latest
      /\ \A h \in Key : top'[h] = top[h] \/ top'[h] > latest \/ (top'[h] = 0 /\ h \in torn')
      /\ (top'[k] # 0 /\ top'[k] <= latest) => top'[k] = top[k]
      /\ skipped[a] \subseteq skipped'[a]
      /\ cursor[a] \in Nat /\ cursor[a] <= latest
    BY <1>1, LogForward, AgentNumbers DEF CursorInv
<1>3. zone[a] \in [Object -> F!ZoneFile \cup {F!Missing}]
    BY <1>1 DEF F!TypeOK
<1>4. PICK o \in Object : o = objectKey[k]
    OBVIOUS
<1>5. top'[k] # 0 /\ \A h \in Key : objectKey[h] = o => top'[h] <= top'[k]
    BY <1>4 DEF IsNewest
<1>6. \A h \in Key \ {k} : objectKey[h] = o => h \notin torn
    BY <1>2, <1>4
<1>7. ASSUME cursor'[a] = cursor[a]
      PROVE  /\ top'[k] = top[k] /\ IsNewest(k) /\ top[k] <= cursor[a] /\ zone[a][o].ver = top[k]
    <2>1. top'[k] = top[k] /\ top[k] <= cursor[a] /\ top'[k] <= latest
        BY <1>2, <1>5, <1>7
    <2>2. ASSUME NEW h \in Key, objectKey[h] = o PROVE top[h] <= top[k]
        <3>1. CASE h = k
            BY <1>2, <3>1
        <3>2. CASE h # k
            BY <1>2, <1>4, <1>5, <2>1, <2>2, <3>2
        <3> QED
            BY <3>1, <3>2
    <2>3. IsNewest(k)
        BY <1>4, <1>5, <2>1, <2>2 DEF IsNewest
    <2>4. <<k, top[k]>> \notin skipped[a]
        BY <1>2, <2>1
    <2> QED
        BY <1>1, <1>4, <1>6, <2>1, <2>3, <2>4 DEF NoLostUpdate
<1>8. ASSUME cursor'[a] = cursor[a], NEW g \in Key, NEW i \in Nat, i > cursor[a],
             NEW v, Known(g, i, v)
      PROVE  objectKey[g] # o
    <2>1. IsNewest(k) /\ top[k] <= cursor[a]
        BY <1>7, <1>8
    <2> QED
        BY <1>1, <1>2, <1>4, <1>6, <1>8, <2>1, PassedOthers
<1>9. Turns(a)
    BY <1>1, AgentTurns
<1>10. CASE Rests(a) \/ Stops(a) \/ Subscribes(a) \/ Skips(a)
    <2>1. cursor'[a] = cursor[a] /\ zone'[a] = zone[a]
        BY <1>10 DEF Rests, Stops, Subscribes, Skips
    <2> QED
        BY <1>4, <1>7, <2>1
<1>11. CASE Removes(a)
    <2>1. PICK m, w : m = F!Message(a) /\ w = objectKey[m.key]
        OBVIOUS
    <2>2. cursor'[a] = cursor[a] /\ zone'[a] = [zone[a] EXCEPT ![w] = F!Missing]
        BY <1>11, <2>1 DEF Removes
    <2>3. m.key \in Key /\ m.index \in Nat /\ m.index > cursor[a] /\ Known(m.key, m.index, m.val)
        BY <1>11, <2>1, RemovedChange
    <2>4. o # w
        <3>1. PICK g \in Key, i \in Nat : g = m.key /\ i = m.index
            BY <2>3
        <3>2. Known(g, i, m.val)
            BY <2>3, <3>1
        <3> QED
            BY <1>8, <2>1, <2>2, <2>3, <3>1, <3>2
    <2> QED
        BY <1>3, <1>4, <1>7, <2>2, <2>4
<1>12. CASE Renames(a)
    <2>1. PICK m, f, w : /\ m = agent[a].change /\ f = [ver |-> m.index, val |-> m.val]
                         /\ w = objectKey[m.key]
        OBVIOUS
    <2>2. /\ agent[a].pc \in Applying /\ cursor'[a] = cursor[a]
          /\ zone'[a] = [zone[a] EXCEPT ![w] = f]
        BY <1>12, <2>1 DEF Renames, Applying
    <2>3. m.key \in Key /\ m.index \in Nat /\ m.index > cursor[a] /\ Known(m.key, m.index, m.val)
        BY <1>1, <2>1, <2>2, AgentNumbers DEF KnownInv, KnownChanges, ChangeInv
    <2>4. o # w
        <3>1. PICK g \in Key, i \in Nat : g = m.key /\ i = m.index
            BY <2>3
        <3>2. Known(g, i, m.val)
            BY <2>3, <3>1
        <3> QED
            BY <1>8, <2>1, <2>2, <2>3, <3>1, <3>2
    <2> QED
        BY <1>3, <1>4, <1>7, <2>2, <2>4
<1>13. CASE Saves(a) /\ UNCHANGED masterVars
    <2>1. PICK m : m = agent[a].change
        OBVIOUS
    <2>2. /\ agent[a].pc = "renamed" /\ zone'[a] = zone[a] /\ UNCHANGED <<top, torn, skipped>>
          /\ cursor'[a] = IF m.index <= cursor[a] THEN cursor[a] ELSE m.index
        BY <1>13, <2>1 DEF Saves, masterVars
    <2>3. /\ m.index > cursor[a] /\ m.index \in Nat
          /\ (cursor[a] < top[k] /\ top[k] < m.index) => <<k, top[k]>> \in skipped[a]
          /\ zone[a][objectKey[m.key]] = [ver |-> m.index, val |-> m.val]
        BY <1>1, <2>1, <2>2, AgentNumbers DEF ChangeInv, Applying
    <2>4. cursor'[a] = m.index
        BY <1>2, <2>2, <2>3
    <2>5. CASE top[k] <= cursor[a]
        <3>1. IsNewest(k)
            BY <1>4, <1>5, <2>2 DEF IsNewest
        <3> QED
            BY <1>1, <1>4, <1>6, <2>2, <2>5, <3>1 DEF NoLostUpdate
    <2>6. CASE top[k] > cursor[a]
        <3>1. top[k] = m.index
            BY <1>2, <2>2, <2>3, <2>4, <2>6
        <3>2. k = m.key
            BY <2>1, <2>2, <3>1, ChangeOnTop DEF Applying
        <3>3. zone[a][o].ver = m.index
            BY <1>4, <2>3, <3>2
        <3> QED
            BY <1>4, <2>2, <3>1, <3>3
    <2> QED
        BY <1>2, <2>5, <2>6
<1> QED
    BY <1>9, <1>10, <1>11, <1>12, <1>13 DEF Turns, Rests

\* An agent never goes back: what it has, or is about to have, passed.
LEMMA ReachedGrows ==
    ASSUME ContentInv, LostInv, [Next]_vars, NEW a \in Agent, ~Stops(a)
    PROVE  Reached(a) <= Reached(a)'
<1>1. TypeInv /\ CursorInv /\ ChangeInv /\ F!TypeOK
    BY DEF ContentInv, LostInv, TypeInv
<1>2. Reached(a) \in Nat /\ cursor[a] \in Nat
    BY <1>1, AgentNumbers
<1>3. Turns(a)
    BY <1>1, AgentTurns
<1>4. CASE Rests(a)
    BY <1>2, <1>4 DEF Rests, Reached
<1>5. CASE Subscribes(a)
    <2>1. /\ agent[a].pc = "retrying" /\ cursor'[a] = cursor[a]
          /\ agent'[a].pc = "reading"
        BY <1>5 DEF Subscribes, F!Subscribe, F!Retrying
    <2> QED
        BY <1>2, <2>1 DEF Reached, Applying
<1>6. CASE Skips(a)
    BY <1>2, <1>6 DEF Skips, F!HasMessage, Reached, Applying
<1>7. CASE Removes(a)
    <2>1. PICK m : m = F!Message(a)
        OBVIOUS
    <2>2. m.index \in Nat /\ m.index > cursor[a] /\ agent[a].pc = "reading"
        BY <1>7, <2>1, RemovedChange
    <2>3. agent'[a].pc = "removed" /\ agent'[a].change = m
        BY <1>7, <2>1 DEF Removes
    <2> QED
        BY <1>2, <2>2, <2>3 DEF Reached, Applying
<1>8. CASE Renames(a)
    BY <1>2, <1>8 DEF Renames, Reached, Applying
<1>9. CASE Saves(a)
    <2>1. PICK i : i = agent[a].change.index
        OBVIOUS
    <2>2. i > cursor[a] /\ i \in Nat /\ agent[a].pc \in Applying
        BY <1>1, <1>9, <2>1, AgentNumbers DEF ChangeInv, Applying, Saves
    <2>3. agent'[a].pc = "reading" /\ cursor'[a] = IF i <= cursor[a] THEN cursor[a] ELSE i
        BY <1>9, <2>1 DEF Saves
    <2> QED
        BY <1>2, <2>1, <2>2, <2>3 DEF Reached, Applying
<1> QED
    BY <1>3, <1>4, <1>5, <1>6, <1>7, <1>8, <1>9 DEF Turns

\* Nothing is on a stream that was just called.
LEMMA SubscribedEmpty ==
    ASSUME SubInv, NEW a \in Agent, Subscribes(a), UNCHANGED masterVars,
           NEW c, c = agent'[a].call
    PROVE  c \in Call /\ ~Runs(c)' /\ InFlight(c)' = <<>>
<1>1. PICK d \in Call : F!Subscribe(a, d) /\ agent'[a].call = d
    BY DEF Subscribes
<1>2. c = d
    BY <1>1
<1>3. PICK s : s.msgs = <<>> /\ stream[c].status = "none" /\ stream' = [stream EXCEPT ![c] = s]
    <2>1. PICK s :
            /\ s = [status |-> "called", agent |-> a, from |-> cursor[a], msgs |-> <<>>,
                    alive |-> TRUE]
            /\ stream[c].status = "none" /\ stream' = [stream EXCEPT ![c] = s]
        BY <1>1, <1>2 DEF F!Subscribe
    <2> QED
        BY <2>1
<1>4. ~Runs(c)' /\ Chan(c)' = <<>>
    <2>1. ~Runs(c) /\ handler' = handler
        BY <1>1, <1>2, <1>3, CallRecords DEF masterVars
    <2> QED
        BY <2>1 DEF Runs, Chan
<1>5. Msgs(c)' = <<>>
    <2>1. stream'[c] = s
        BY <1>1, <1>2, <1>3 DEF SubInv, CallTyping, OfCalls
    <2> QED
        BY <1>3, <2>1 DEF Msgs
<1>6. InFlight(c)' = Msgs(c)' \o Chan(c)'
    BY DEF InFlight
<1>7. InFlight(c)' = <<>>
    BY <1>4, <1>5, <1>6, EmptySeq, ConcatEmptySeq
<1> QED
    BY <1>1, <1>2, <1>4, <1>7

\* A reader has just subscribed, or goes on reading the same stream.
LEMMA ReaderBefore ==
    ASSUME TypeInv, [Next]_vars, NEW a \in Agent, Reader(a)'
    PROVE  /\ Turns(a) /\ ~Stops(a)
           /\ \/ Subscribes(a) /\ UNCHANGED masterVars
              \/ Reader(a) /\ agent'[a].call = agent[a].call
<1>1. Turns(a) /\ ~Stops(a)
    BY AgentTurns DEF TypeInv, Stops, Reader, F!Down, F!Retrying
<1>2. CASE Rests(a) \/ Skips(a) \/ Removes(a) \/ Renames(a) \/ Saves(a)
    BY <1>1, <1>2 DEF Rests, Skips, Removes, Renames, Saves, Reader, F!HasMessage
<1> QED
    BY <1>1, <1>2 DEF Turns

LEMMA NextKeepsCovered ==
    ASSUME ContentInv, LostInv, ~CanReplace, [Next]_vars
    PROVE  Covered'
<1>1. TypeInv /\ SubInv
    BY DEF ContentInv, TypeInv
<1> SUFFICES ASSUME NEW a \in Agent, NEW c \in Call, Reader(a)', agent'[a].call = c
             PROVE  Covers(a, InFlight(c))'
    BY DEF Covered
<1>2. CASE Subscribes(a) /\ UNCHANGED masterVars
    <2>1. InFlight(c)' = <<>>
        BY <1>1, <1>2, SubscribedEmpty
    <2>2. Len(InFlight(c)') = 0
        BY <2>1, EmptySeq
    <2> QED
        BY <2>2 DEF Covers
<1>3. CASE Reader(a) /\ agent'[a].call = agent[a].call
    <2>1. c = agent[a].call
        BY <1>3
    <2>2. Reached(a) <= Reached(a)'
        BY <1>1, ReaderBefore, ReachedGrows
    <2>3. agent'[a].pc \in {"reading", "removed", "renamed"}
        BY DEF Reader
    <2> QED
        BY <1>3, <2>1, <2>2, <2>3, NextKeepsCovers
<1> QED
    BY <1>1, <1>2, <1>3, ReaderBefore

LEMMA NextKeepsLost == ASSUME ~CanReplace PROVE ContentInv /\ LostInv /\ [Next]_vars => LostInv'
BY NextKeepsCursor, NextKeepsChangeInv, NextKeepsFileInv, NextKeepsCovered, NextKeepsNoLostUpdate
    DEF LostInv

\* An agent that says it is at index n has the newest change of every object whose
\* newest one, under whatever spelling, is not after n, as long as the master keeps its
\* volume: whatever is lost, overtaken or broadcast before the agent is registered, and
\* wherever a process is killed; except changes that a replay could not read, and
\* objects with another spelling whose change the log has lost.
THEOREM ReplicationNoLostUpdate ==
    ASSUME ~CanReplace
    PROVE  Spec => []NoLostUpdate
<1>1. ContentInv /\ [Next]_vars => ContentInv'
    BY NextKeepsContent
<1>2. ContentInv /\ LostInv /\ [Next]_vars => LostInv'
    BY NextKeepsLost
<1>3. LostInv => NoLostUpdate
    BY DEF LostInv
<1> QED
    BY <1>1, <1>2, <1>3, ContentInvInit, LostInvInit, PTL DEF Spec

----------------------------------------------------------------------------
\* Zone files that are ahead of their agent, which a kill between rename and
\* SaveApplied leaves.

Ahead(a, o) == zone[a][o] # F!Missing /\ zone[a][o].ver > Reached(a)

\* A message of a replay that takes a reader to i.
Passes(m, i) == m.tier = "RECOVER" /\ m.index >= i

\* An older change of o, which no replay for a has left out.
Older(a, m, o, i) == objectKey[m.key] = o /\ m.index < i /\ <<m.key, m.index>> \notin skipped[a]

\* A stream brings a message that takes its reader to i, before any older change of o.
Catches(a, c, o, i) ==
    /\ Runs(c) => \E n \in 1..Len(InFlight(c)) : Passes(InFlight(c)[n], i)
    /\ \A j \in 1..Len(InFlight(c)) : Older(a, InFlight(c)[j], o, i) =>
            \E n \in 1..j : Passes(InFlight(c)[n], i)

AheadInv ==
    \A a \in Agent, c \in Call, o \in Object :
        (Reader(a) /\ agent[a].call = c /\ Ahead(a, o) /\ ~Hidden(a, o, zone[a][o].ver)) =>
            Catches(a, c, o, zone[a][o].ver)

LEMMA AheadInvInit == Init => AheadInv
BY DEF Init, F!Init, AheadInv, Reader, F!Down

\* What is hidden stays hidden.
LEMMA HiddenStays ==
    ASSUME TypeInv, ~CanReplace, [Next]_vars, NEW a \in Agent, NEW o \in Object, NEW i \in Nat,
           Hidden(a, o, i)
    PROVE  Hidden(a, o, i)'
<1>1. /\ latest \in Nat /\ latest' \in Nat /\ latest <= latest' /\ torn \subseteq torn'
      /\ skipped[a] \subseteq skipped'[a]
    BY LogForward
<1>2. PICK k \in Key : /\ objectKey[k] = o
                       /\ k \in torn \/ \E j \in i..latest : <<k, j>> \in skipped[a]
    BY DEF Hidden
<1>3. CASE k \in torn
    BY <1>1, <1>2, <1>3 DEF Hidden
<1>4. ASSUME NEW j \in i..latest, <<k, j>> \in skipped[a] PROVE Hidden(a, o, i)'
    <2>1. j \in i..latest' /\ <<k, j>> \in skipped'[a]
        BY <1>1, <1>4
    <2> QED
        BY <1>2, <2>1 DEF Hidden
<1> QED
    BY <1>2, <1>3, <1>4

\* A file that is ahead was there before, and ahead.
LEMMA AheadBefore ==
    ASSUME ContentInv, LostInv, [Next]_vars, NEW a \in Agent, ~Stops(a), NEW o \in Object,
           zone'[a][o] # F!Missing, zone'[a][o].ver > Reached(a)'
    PROVE  zone'[a][o] = zone[a][o] /\ zone[a][o].ver \in Nat /\ Ahead(a, o)
<1>1. TypeInv /\ F!TypeOK /\ zone[a] \in [Object -> F!ZoneFile \cup {F!Missing}]
    BY DEF ContentInv, TypeInv, F!TypeOK
<1>2. Turns(a)
    BY <1>1, AgentTurns
<1>3. zone'[a][o] = zone[a][o]
    <2>1. CASE Rests(a) \/ Subscribes(a) \/ Skips(a) \/ Saves(a)
        BY <2>1 DEF Rests, Subscribes, Skips, Saves
    <2>2. CASE Removes(a)
        <3>1. \E w : zone'[a] = [zone[a] EXCEPT ![w] = F!Missing]
            BY <2>2 DEF Removes
        <3>2. zone'[a][o] \in {zone[a][o], F!Missing}
            BY <1>1, <3>1
        <3> QED
            BY <3>2
    <2>3. CASE Renames(a)
        <3>1. PICK m, f, w : /\ m = agent[a].change /\ f = [ver |-> m.index, val |-> m.val]
                             /\ w = objectKey[m.key]
            OBVIOUS
        <3>2. /\ zone'[a] = [zone[a] EXCEPT ![w] = f] /\ agent[a].pc \in Applying
              /\ agent'[a].pc = "renamed" /\ agent'[a].change = m
            BY <2>3, <3>1 DEF Renames, Applying
        <3>3. m.index \in Nat /\ Reached(a)' = m.index
            BY <1>1, <3>1, <3>2, AgentNumbers DEF Reached, Applying
        <3>4. o # w
            BY <1>1, <3>1, <3>2, <3>3
        <3> QED
            BY <1>1, <3>2, <3>4
    <2> QED
        BY <1>2, <2>1, <2>2, <2>3 DEF Turns
<1>4. Reached(a) <= Reached(a)' /\ Reached(a) \in Nat /\ Reached(a)' \in Nat
    BY <1>1, ReachedGrows, ReachedType, ReachedNext
<1>5. zone[a][o].ver \in Nat
    BY <1>1 DEF F!ZoneFile, F!Missing
<1> QED
    BY <1>3, <1>4, <1>5 DEF Ahead

\* The stream of a reader goes on to bring what takes it past a file that is ahead.
LEMMA NextKeepsCatches ==
    ASSUME ContentInv, LostInv, ~CanReplace, [Next]_vars, NEW a \in Agent, Reader(a),
           agent'[a].pc \in {"reading", "removed", "renamed"}, agent'[a].call = agent[a].call,
           NEW c \in Call, c = agent[a].call, NEW o \in Object, NEW ver \in Nat,
           ver = zone[a][o].ver, zone[a][o] # F!Missing, ver > Reached(a)',
           Ahead(a, o), ~Hidden(a, o, ver)', Catches(a, c, o, ver)
    PROVE  Catches(a, c, o, ver)'
<1>1. TypeInv /\ TiersInv /\ KnownInv /\ CursorInv /\ FileInv /\ LogInv /\ CallTypes /\ TypeInv'
    BY NextKeepsTypeInv DEF ContentInv, LostInv, TypeInv
<1>2. PICK s, t : s = InFlight(c) /\ t = InFlight(c)'
    OBVIOUS
<1>3. /\ Runs(c) => \E n \in 1..Len(s) : Passes(s[n], ver)
      /\ \A j \in 1..Len(s) : Older(a, s[j], o, ver) => \E n \in 1..j : Passes(s[n], ver)
    BY <1>2 DEF Catches
<1>4. s \in Seq(M!Envelope) /\ Len(s) \in Nat
    BY <1>1, <1>2, QueueTypes, LenProperties
<1>5. t \in Seq(M!Envelope) /\ Len(t) \in Nat
    <2>1. (CallTypes => \A d \in Call : InFlight(d) \in Seq(M!Envelope))'
        BY FlightTypes, PTL
    <2>2. t \in Seq(M!Envelope)
        BY <1>1, <1>2, <2>1 DEF TypeInv
    <2> QED
        BY <2>2, LenProperties
<1> SUFFICES /\ Runs(c)' => \E n \in 1..Len(t) : Passes(t[n], ver)
             /\ \A j \in 1..Len(t) : Older(a, t[j], o, ver)' =>
                    \E n \in 1..j : Passes(t[n], ver)
    BY <1>2 DEF Catches, Passes, Older
<1>0. ASSUME NEW m, Older(a, m, o, ver)' PROVE Older(a, m, o, ver)
    <2>1. skipped[a] \subseteq skipped'[a]
        BY <1>1, LogForward
    <2> QED
        BY <1>0, <2>1 DEF Older
<1>6. CASE Keeps(c) /\ (Runs(c)' => Runs(c))
    BY <1>0, <1>2, <1>3, <1>6 DEF Keeps
<1>7. CASE Extends(c)
    <2>1. PICK p \in Publisher : M!Broadcast(p) /\ Runs(c) /\ t = Append(s, Sent(p))
        BY <1>2, <1>7 DEF Extends
    <2>2. Sent(p) \in M!Envelope
        BY <1>1, <2>1, SentType DEF M!Broadcast
    <2>3. Len(t) = Len(s) + 1 /\ \A i \in 1..Len(s) : t[i] = s[i]
        BY <1>4, <2>1, <2>2, AppendProperties
    <2>4. PICK n \in 1..Len(s) : Passes(s[n], ver)
        BY <1>3, <2>1
    <2>5. n \in 1..Len(t) /\ Passes(t[n], ver)
        BY <1>4, <2>3, <2>4
    <2>6. ASSUME NEW j \in 1..Len(t), Older(a, t[j], o, ver)'
          PROVE  \E i \in 1..j : Passes(t[i], ver)
        <3>1. CASE j \in 1..Len(s)
            <4>1. PICK i \in 1..j : Passes(s[i], ver)
                BY <1>0, <1>3, <2>3, <2>6, <3>1
            <4>2. i \in 1..Len(s)
                BY <1>4, <3>1
            <4> QED
                BY <2>3, <4>1, <4>2
        <3>2. CASE j = Len(s) + 1
            <4>1. n \in 1..j
                BY <1>4, <3>2
            <4> QED
                BY <2>5, <4>1
        <3> QED
            BY <1>4, <2>3, <3>1, <3>2
    <2> QED
        BY <2>5, <2>6
<1>8. CASE Cuts(c)
    <2>1. ~Runs(c)' /\ Len(t) <= Len(s) /\ \A i \in 1..Len(t) : t[i] = s[i]
        BY <1>2, <1>8 DEF Cuts
    <2>2. ASSUME NEW j \in 1..Len(t), Older(a, t[j], o, ver)'
          PROVE  \E i \in 1..j : Passes(t[i], ver)
        <3>1. j \in 1..Len(s) /\ t[j] = s[j]
            BY <1>4, <1>5, <2>1
        <3>2. PICK i \in 1..j : Passes(s[i], ver)
            BY <1>0, <1>3, <2>2, <3>1
        <3>3. t[i] = s[i]
            BY <1>5, <2>1
        <3> QED
            BY <3>2, <3>3
    <2> QED
        BY <2>1, <2>2
<1>9. CASE Refills(c) /\ stream[c].agent = a /\ stream[c].from = cursor[a] /\ Reached(a) = cursor[a]
    <2>1. PICK u \in SUBSET Key, v \in 0..MaxPublish :
            M!Replay(c, u) /\ v = stream[c].from /\ t = M!Since(v, u)
        BY <1>2, <1>9 DEF Refills
    <2>2. IsRecovery(t, v, u)
        BY <1>1, <2>1, ReplayedBacklog
    <2>3. top' = top /\ latest' = latest
        BY <2>1 DEF M!Replay, M!logVars
    <2>4. PICK k \in Key : objectKey[k] = o /\ Known(k, ver, zone[a][o].val)
        BY <1>1 DEF KnownInv, KnownZones
    <2>5. top[k] \in 0..latest /\ latest \in Nat /\ torn \subseteq torn'
        BY <1>1, LogForward
    <2>6. top[k] >= ver
        BY <2>4, <2>5 DEF Hidden, Known
    <2>7. top[k] > v
        BY <1>9, <2>1, <2>5, <2>6 DEF Ahead
    <2>8. k \notin u
        <3>1. PICK more :
                /\ more = {<<h, top[h]>> : h \in {g \in u : top[g] > stream[c].from}}
                /\ skipped' = [skipped EXCEPT ![stream[c].agent] = @ \cup more]
            BY <2>1 DEF M!Replay
        <3>2. k \in u => <<k, top[k]>> \in skipped'[a]
            BY <1>1, <1>9, <2>1, <2>7, <3>1 DEF TypeInv, SkipTypes
        <3>3. top[k] \in ver..latest'
            BY <2>3, <2>5, <2>6
        <3> QED
            BY <2>4, <3>2, <3>3 DEF Hidden
    <2>9. PICK n \in 1..Len(t) : t[n].index = top[k] /\ t[n].tier = "RECOVER"
        BY <2>2, <2>7, <2>8 DEF IsRecovery
    <2>10. \E i \in 1..Len(t) : Passes(t[i], ver)
        BY <2>6, <2>9 DEF Passes
    <2>11. ASSUME NEW j \in 1..Len(t) PROVE ~Older(a, t[j], o, ver)'
        <3>1. PICK h \in Key, i \in {t[j].index} : h = t[j].key
            BY <2>2 DEF IsRecovery
        <3>2. top[h] = i /\ i > v
            BY <2>2, <3>1 DEF IsRecovery
        <3>3. cursor[a] < top[h] /\ (top[h] < ver => <<h, top[h]>> \in skipped[a])
            BY <1>1, <1>9, <2>1, <3>2 DEF FileInv
        <3>4. ~Older(a, t[j], o, ver)
            BY <3>1, <3>2, <3>3 DEF Older
        <3> QED
            BY <1>0, <3>4
    <2> QED
        BY <2>10, <2>11
<1>10. CASE Advances(c) /\ (F!Skip(a) \/ F!RemoveZone(a))
    <2>1. /\ Len(t) = Len(s) - 1 /\ \A i \in 1..Len(t) : t[i] = s[i + 1]
          /\ Runs(c)' => Runs(c)
          /\ s # <<>>
        BY <1>2, <1>10 DEF Advances
    <2>2. ~Passes(s[1], ver)
        <3>1. s[1].tier = "RECOVER" => s[1].index <= Reached(a)'
            BY <1>1, <1>2, <1>10, TakenIsReached
        <3>2. Reached(a)' \in Nat
            BY <1>1, ReachedNext
        <3>3. s[1].index \in Nat
            <4>1. 1 \in 1..Len(s)
                BY <1>4, <2>1, EmptySeq
            <4>2. s[1] \in M!Envelope
                BY <1>4, <4>1, ElementOfSeq
            <4> QED
                BY <4>2 DEF M!Envelope, M!Index
        <3> QED
            BY <3>1, <3>2, <3>3 DEF Passes
    <2>3. ASSUME NEW i \in 1..Len(s), Passes(s[i], ver)
          PROVE  i - 1 \in 1..Len(t) /\ i - 1 \in Nat /\ Passes(t[i - 1], ver)
        <3>1. i # 1
            BY <2>2, <2>3
        <3>2. i - 1 \in 1..Len(t) /\ (i - 1) + 1 = i
            BY <1>4, <2>1, <3>1
        <3>3. t[i - 1] = s[i]
            BY <2>1, <3>2
        <3> QED
            BY <2>3, <3>2, <3>3
    <2>4. Runs(c)' => \E n \in 1..Len(t) : Passes(t[n], ver)
        BY <1>3, <2>1, <2>3
    <2>5. ASSUME NEW j \in 1..Len(t), Older(a, t[j], o, ver)'
          PROVE  \E i \in 1..j : Passes(t[i], ver)
        <3>1. j + 1 \in 1..Len(s) /\ t[j] = s[j + 1]
            BY <1>4, <1>5, <2>1
        <3>2. PICK i \in 1..j + 1 : Passes(s[i], ver)
            BY <1>0, <1>3, <2>5, <3>1
        <3>3. i \in 1..Len(s)
            BY <1>4, <3>1
        <3>4. i - 1 \in 1..Len(t) /\ Passes(t[i - 1], ver)
            BY <2>3, <3>2, <3>3
        <3>5. i - 1 \in 1..j
            BY <3>4
        <3> QED
            BY <3>4, <3>5
    <2> QED
        BY <2>4, <2>5
<1> QED
    BY <1>1, <1>6, <1>7, <1>8, <1>9, <1>10, ReaderFlows

LEMMA NextKeepsFilesAhead ==
    ASSUME ContentInv, LostInv, AheadInv, ~CanReplace, [Next]_vars
    PROVE  AheadInv'
<1>1. TypeInv /\ SubInv
    BY DEF ContentInv, TypeInv
<1> SUFFICES ASSUME NEW a \in Agent, NEW c \in Call, NEW o \in Object, Reader(a)',
                    agent'[a].call = c, Ahead(a, o)', ~Hidden(a, o, zone[a][o].ver)'
             PROVE  Catches(a, c, o, zone[a][o].ver)'
    BY DEF AheadInv
<1>2. PICK ver : ver = zone'[a][o].ver
    OBVIOUS
<1>3. ASSUME Catches(a, c, o, ver)' PROVE Catches(a, c, o, zone[a][o].ver)'
    BY <1>2, <1>3 DEF Catches, Passes, Older
<1>4. CASE Subscribes(a) /\ UNCHANGED masterVars
    <2>1. ~Runs(c)' /\ InFlight(c)' = <<>>
        BY <1>1, <1>4, SubscribedEmpty
    <2>2. Len(InFlight(c)') = 0
        BY <2>1, EmptySeq
    <2>3. Catches(a, c, o, ver)'
        BY <2>1, <2>2 DEF Catches
    <2> QED
        BY <1>3, <2>3
<1>5. CASE Reader(a) /\ agent'[a].call = agent[a].call
    <2>1. c = agent[a].call /\ ~Stops(a)
        BY <1>1, <1>5, ReaderBefore
    <2>2. zone'[a][o] # F!Missing /\ ver > Reached(a)'
        BY <1>2 DEF Ahead, F!Missing, F!Empty
    <2>3. zone'[a][o] = zone[a][o] /\ ver \in Nat /\ ver = zone[a][o].ver /\ Ahead(a, o)
        BY <1>2, <2>1, <2>2, AheadBefore
    <2>4. ~Hidden(a, o, ver)'
        BY <1>2 DEF Hidden
    <2>5. ~Hidden(a, o, zone[a][o].ver)
        <3>1. ~Hidden(a, o, ver)
            BY <1>1, <2>3, <2>4, HiddenStays
        <3> QED
            BY <2>3, <3>1
    <2>6. Catches(a, c, o, ver)
        <3>1. Catches(a, c, o, zone[a][o].ver)
            BY <1>5, <2>1, <2>3, <2>5 DEF AheadInv
        <3> QED
            BY <2>3, <3>1
    <2>7. agent'[a].pc \in {"reading", "removed", "renamed"}
        BY DEF Reader
    <2>8. zone[a][o] # F!Missing
        BY <2>3 DEF Ahead
    <2>9. Catches(a, c, o, ver)'
        BY <1>5, <2>1, <2>2, <2>3, <2>4, <2>6, <2>7, <2>8, NextKeepsCatches
    <2> QED
        BY <1>3, <2>9
<1> QED
    BY <1>1, <1>4, <1>5, ReaderBefore

DeliveryInv == ContentInv /\ LostInv /\ AheadInv

LEMMA DeliveryInvInit == Init => DeliveryInv
BY ContentInvInit, LostInvInit, AheadInvInit DEF DeliveryInv

LEMMA NextKeepsDelivery ==
    ASSUME ~CanReplace
    PROVE  DeliveryInv /\ [Next]_vars => DeliveryInv'
BY NextKeepsContent, NextKeepsLost, NextKeepsFilesAhead DEF DeliveryInv

\* A file is replaced only by a change at least as new, unless what was newer is
\* hidden from the agent, or a replay for it had left the change out.
LEMMA RemovesOlder ==
    ASSUME DeliveryInv, NEW a \in Agent, Removes(a), NEW m, m = F!Message(a),
           NEW o \in Object, objectKey[m.key] = o, zone[a][o] # F!Missing
    PROVE  \/ m.index >= zone[a][o].ver
           \/ Hidden(a, o, zone[a][o].ver)
           \/ <<m.key, m.index>> \in skipped[a]
<1>1. ContentInv /\ LostInv /\ AheadInv /\ TypeInv /\ F!TypeOK
    BY DEF DeliveryInv, ContentInv, TypeInv
<1>2. /\ m.key \in Key /\ m.index \in Nat /\ m.index > cursor[a]
      /\ agent[a].pc = "reading" /\ Reader(a)
    BY <1>1, RemovedChange
<1>3. PICK ver : ver = zone[a][o].ver
    OBVIOUS
<1>4. ver \in Nat
    <2>1. zone[a][o] \in F!ZoneFile \cup {F!Missing}
        BY <1>1, <1>2, <1>3 DEF F!TypeOK
    <2> QED
        BY <1>3, <2>1 DEF F!ZoneFile, F!Missing
<1> SUFFICES ASSUME m.index < ver, ~Hidden(a, o, ver), <<m.key, m.index>> \notin skipped[a]
             PROVE  FALSE
    BY <1>2, <1>3, <1>4
<1>5. F!HasMessage(a)
    BY DEF Removes
<1>6. PICK c \in Call : c = agent[a].call
    BY <1>1, <1>2, AgentNumbers
<1>7. m = InFlight(c)[1] /\ 1 \in 1..Len(InFlight(c))
    BY <1>1, <1>5, <1>6, MessageInFlight
<1>8. Ahead(a, o)
    <2>1. Reached(a) = cursor[a] /\ cursor[a] \in Nat
        BY <1>1, <1>2, AgentNumbers DEF Reached, Applying
    <2> QED
        BY <1>2, <1>3, <1>4, <2>1 DEF Ahead
<1>9. Catches(a, c, o, ver)
    <2>1. Catches(a, c, o, zone[a][o].ver)
        BY <1>1, <1>2, <1>3, <1>6, <1>8 DEF AheadInv
    <2> QED
        BY <1>3, <2>1
<1>10. PICK n \in 1..1 : Passes(InFlight(c)[n], ver)
    BY <1>7, <1>9 DEF Catches, Older
<1>11. m.index >= ver
    BY <1>7, <1>10 DEF Passes
<1> QED
    BY <1>2, <1>4, <1>11

LEMMA StepNoRegress ==
    ASSUME DeliveryInv, [Next]_vars, NEW a \in Agent
    PROVE  /\ cursor'[a] >= cursor[a]
           /\ \A o \in Object :
                (zone[a][o] # F!Missing /\ zone'[a][o] = F!Missing) =>
                    LET m == agent'[a].change
                    IN  /\ objectKey[m.key] = o
                        /\ \/ m.index >= zone[a][o].ver
                           \/ Hidden(a, o, zone[a][o].ver)
                           \/ <<m.key, m.index>> \in skipped[a]
<1>1. /\ ContentInv /\ LostInv /\ TypeInv /\ F!TypeOK
      /\ zone[a] \in [Object -> F!ZoneFile \cup {F!Missing}] /\ cursor[a] \in Nat
    BY AgentNumbers DEF DeliveryInv, ContentInv, TypeInv, F!TypeOK
<1>2. Turns(a)
    BY <1>1, AgentTurns
<1>3. CASE Rests(a) \/ Stops(a) \/ Subscribes(a) \/ Skips(a)
    <2>1. cursor'[a] = cursor[a] /\ zone'[a] = zone[a]
        BY <1>3 DEF Rests, Stops, Subscribes, Skips
    <2> QED
        BY <1>1, <2>1
<1>4. CASE Removes(a)
    <2>1. PICK m : m = F!Message(a)
        OBVIOUS
    <2>2. /\ agent'[a].change = m /\ cursor'[a] = cursor[a]
          /\ zone'[a] = [zone[a] EXCEPT ![objectKey[m.key]] = F!Missing]
        BY <1>4, <2>1 DEF Removes
    <2>3. ASSUME NEW o \in Object, zone[a][o] # F!Missing, zone'[a][o] = F!Missing
          PROVE  /\ objectKey[m.key] = o
                 /\ \/ m.index >= zone[a][o].ver
                    \/ Hidden(a, o, zone[a][o].ver)
                    \/ <<m.key, m.index>> \in skipped[a]
        <3>1. objectKey[m.key] = o
            BY <1>1, <2>2, <2>3
        <3> QED
            BY <1>4, <2>1, <2>3, <3>1, RemovesOlder
    <2> QED
        BY <1>1, <2>2, <2>3
<1>5. CASE Renames(a)
    <2>1. PICK m, f : m = agent[a].change /\ f = [ver |-> m.index, val |-> m.val]
        OBVIOUS
    <2>2. /\ cursor'[a] = cursor[a] /\ zone'[a] = [zone[a] EXCEPT ![objectKey[m.key]] = f]
          /\ agent[a].pc \in Applying
        BY <1>5, <2>1 DEF Renames, Applying
    <2>3. f # F!Missing
        BY <1>1, <2>1, <2>2, AgentNumbers DEF F!Missing
    <2>4. \A o \in Object : zone'[a][o] \in {zone[a][o], f}
        BY <1>1, <2>2
    <2> QED
        BY <1>1, <2>2, <2>3, <2>4
<1>6. CASE Saves(a)
    <2>1. PICK i : i = agent[a].change.index
        OBVIOUS
    <2>2. /\ agent[a].pc \in Applying /\ zone'[a] = zone[a]
          /\ cursor'[a] = IF i <= cursor[a] THEN cursor[a] ELSE i
        BY <1>6, <2>1 DEF Saves, Applying
    <2>3. i \in Nat
        BY <1>1, <2>1, <2>2, AgentNumbers
    <2> QED
        BY <1>1, <2>2, <2>3
<1> QED
    BY <1>2, <1>3, <1>4, <1>5, <1>6 DEF Turns

\* No step takes an agent back, as long as the master keeps its volume: its cursor
\* never falls, and a zone file gives way only to a change at least as new, across
\* restarts and changes delivered twice or late, unless the log has lost the newer
\* change, or a replay left one of the two out.
THEOREM ReplicationNoRegress ==
    ASSUME ~CanReplace
    PROVE  Spec => NoRegress
<1>1. DeliveryInv /\ [Next]_vars => DeliveryInv'
    BY NextKeepsDelivery
<1>2. DeliveryInv /\ [Next]_vars =>
        [\A a \in Agent :
            /\ cursor'[a] >= cursor[a]
            /\ \A o \in Object :
                (zone[a][o] # F!Missing /\ zone'[a][o] = F!Missing) =>
                    LET m == agent'[a].change
                    IN  /\ objectKey[m.key] = o
                        /\ \/ m.index >= zone[a][o].ver
                           \/ Hidden(a, o, zone[a][o].ver)
                           \/ <<m.key, m.index>> \in skipped[a]]_vars
    BY StepNoRegress
<1> QED
    BY <1>1, <1>2, DeliveryInvInit, PTL DEF Spec, NoRegress

----------------------------------------------------------------------------
\* The log of Coordinator is the one FileWAL implements.

Log == INSTANCE CompactedLog WITH MaxIndex <- MaxPublish

LogShape == latest \in 0..MaxPublish /\ top \in [Key -> 0..MaxPublish]

LEMMA LogInvShape == LogInv => LogShape
BY LogInvTypes DEF LogShape

LEMMA LogStep ==
    ASSUME LogInv, LogShape, LogShape', ~CanReplace, [Next]_vars
    PROVE  [Log!Next]_(Log!vars)
<1>1. /\ latest \in 0..MaxPublish /\ top \in [Key -> 0..MaxPublish]
      /\ latest' \in 0..MaxPublish /\ top' \in [Key -> 0..MaxPublish]
    BY DEF LogShape
<1>2. CASE Held
    BY <1>2 DEF Held, Log!vars
<1>3. CASE Tears
    <2>1. PICK k \in Key :
            /\ latest' = latest /\ top'[k] = 0
            /\ \A h \in Key \ {k} : top'[h] = top[h]
        BY <1>3 DEF Tears
    <2>2. top' = [top EXCEPT ![k] = 0]
        BY <1>1, <2>1
    <2>3. CASE top[k] = 0
        BY <1>1, <2>1, <2>2, <2>3 DEF Log!vars
    <2>4. CASE top[k] # 0
        BY <2>1, <2>2, <2>4 DEF Log!Next, Log!Lose
    <2> QED
        BY <2>3, <2>4
<1>4. ASSUME NEW p \in Publisher, M!LogChange(p)
      PROVE  Log!Next
    <2>1. PICK k \in Key : k = publisher[p].key
        BY <1>4, BusyPublisher DEF M!LogChange, LogInv, StoreInv, Busy
    <2>2. latest' = latest + 1 /\ top' = [top EXCEPT ![k] = latest + 1]
        BY <1>4, <2>1 DEF M!LogChange
    <2>3. latest + 1 \in 1..MaxPublish /\ latest + 1 > latest
        BY <1>1, <2>2
    <2> QED
        BY <2>1, <2>2, <2>3 DEF Log!Next, Log!Put
<1> QED
    BY <1>2, <1>3, <1>4, LogMoves

\* Refinement: to its readers the log under Publish is what FileWAL is shown to
\* implement.  Publishers that race, fail or die with the master number one change
\* or forget one key at a time, as long as the master keeps its volume.
THEOREM ReplicationImplementsLog ==
    ASSUME ~CanReplace
    PROVE  Spec => Log!Spec
<1>1. Init => Log!Init
    BY DEF Init, M!Init, Log!Init
<1>2. LogInv /\ [Next]_vars => LogInv'
    BY NextKeepsLog
<1>3. LogInv /\ LogShape /\ LogShape' /\ [Next]_vars => [Log!Next]_(Log!vars)
    BY LogStep
<1> QED
    BY <1>1, <1>2, <1>3, LogInvInit, LogInvShape, PTL DEF Spec, Log!Spec
=============================================================================
