------------------------- MODULE ReplicationProofs -------------------------
(***************************************************************************)
(* Proofs about Replication, for every number of keys, publishers, agents  *)
(* and calls and every size of the buffers: the store agrees with the log, *)
(* and the master never broadcasts into a closed channel.                  *)
(***************************************************************************)
EXTENDS Replication, TLAPS, SequenceTheorems

USE ReplicationAssumption

----------------------------------------------------------------------------
\* Store and log.

Busy == {"writing", "stored"}

PublisherState ==
    {M!Done} \cup [pc : Busy, key : Key, val : Nat]
             \cup [pc : {"logged"}, key : Key, val : Nat, index : Nat]

\* What the publishers and the log are; a bound on the indexes is not needed.
LogTyping ==
    /\ publisher \in [Publisher -> PublisherState]
    /\ store \in [Object -> Int]
    /\ published \in Nat
    /\ latest \in Nat
    /\ content \in Seq(Nat) /\ Len(content) = latest
    /\ top \in [Key -> 0..latest]

\* An object on which no publishers raced has one publisher at a time, under
\* whatever spelling, which finds the file as its own Put left it.
OnePublisherPerObject ==
    \A o \in Object \ raced : \A p, q \in M!Busy(o) : p = q

OwnContent ==
    \A o \in Object \ raced : \A p \in M!Busy(o) :
        store[o] = IF publisher[p].pc = "writing" THEN M!Empty ELSE publisher[p].val

StoreInv == LogTyping /\ OnePublisherPerObject /\ OwnContent /\ StoreMatchesLog

LEMMA StoreInvInit == Init => StoreInv
<1> SUFFICES ASSUME Init PROVE StoreInv
    OBVIOUS
<1>1. /\ publisher = [p \in Publisher |-> M!Done] /\ store = [o \in Object |-> M!Empty]
      /\ latest = 0 /\ top = [k \in Key |-> 0] /\ published = 0 /\ content = <<>>
    BY DEF Init, M!Init
<1>2. LogTyping
    BY <1>1 DEF LogTyping, PublisherState, M!Empty
<1>3. \A o \in Object : M!Busy(o) = {}
    BY <1>1 DEF M!Busy, M!Done
<1>4. StoreMatchesLog
    BY <1>1 DEF StoreMatchesLog, IsNewest
<1> QED
    BY <1>2, <1>3, <1>4 DEF StoreInv, OnePublisherPerObject, OwnContent

\* What a publisher at work looks like.
LEMMA BusyPublisher ==
    ASSUME LogTyping, NEW p \in Publisher, publisher[p].pc \in Busy
    PROVE  /\ publisher[p] \in [pc : Busy, key : Key, val : Nat]
           /\ publisher[p].key \in Key /\ publisher[p].val \in Nat
           /\ p \in M!Busy(objectKey[publisher[p].key])
<1>1. publisher[p] \in PublisherState
    BY DEF LogTyping
<1>2. publisher[p] \in [pc : Busy, key : Key, val : Nat]
    BY <1>1 DEF PublisherState, Busy, M!Done
<1> QED
    BY <1>2 DEF M!Busy, Busy

\* A step that keeps store and log and of the publishers changes only one that is
\* not at work, before and after, keeps the invariant.
LEMMA IdleStepKeepsStore ==
    ASSUME StoreInv, publisher' \in [Publisher -> PublisherState],
           \A o \in Object : M!Busy(o)' = M!Busy(o),
           \A o \in Object : \A p \in M!Busy(o) : publisher'[p] = publisher[p],
           UNCHANGED <<store, latest, top, content, published, raced, failed>>
    PROVE  StoreInv'
<1>1. StoreMatchesLog'
    BY DEF StoreInv, StoreMatchesLog, IsNewest
<1> QED
    BY <1>1 DEF StoreInv, LogTyping, OnePublisherPerObject, OwnContent, M!Empty

\* LocalFS.Put empties the file.
LEMMA StartKeepsStore ==
    ASSUME StoreInv, NEW p \in Publisher, NEW k \in Key, M!StartPublish(p, k)
    PROVE  StoreInv'
<1> DEFINE new == [pc |-> "writing", key |-> k, val |-> published + 1]
<1>0. PICK o \in Object : o = objectKey[k]
    OBVIOUS
<1>1. /\ publisher[p] = M!Done /\ published' = published + 1
      /\ publisher' = [publisher EXCEPT ![p] = new]
      /\ store' = [store EXCEPT ![o] = M!Empty]
      /\ raced' = IF M!Busy(o) = {} THEN raced ELSE raced \cup {o}
      /\ UNCHANGED <<latest, top, content, failed>>
    BY <1>0 DEF M!StartPublish, M!logVars
<1>2. LogTyping
    BY DEF StoreInv
<1>3. new \in PublisherState /\ new.pc = "writing" /\ new.key = k
    BY <1>2 DEF LogTyping, PublisherState, Busy
<1> HIDE DEF new
<1>4. LogTyping'
    BY <1>1, <1>2, <1>3 DEF LogTyping, M!Empty
<1>5. /\ M!Busy(o)' = M!Busy(o) \cup {p}
      /\ \A h \in Object \ {o} : M!Busy(h)' = M!Busy(h)
      /\ \A h \in Object : p \notin M!Busy(h)
    BY <1>0, <1>1, <1>2, <1>3 DEF M!Busy, M!Done, LogTyping
<1>6. \A q \in Publisher \ {p} : publisher'[q] = publisher[q]
    BY <1>1, <1>2 DEF LogTyping
<1>7. publisher'[p] = new
    BY <1>1, <1>2 DEF LogTyping
<1>8. /\ store'[o] = M!Empty /\ \A h \in Object \ {o} : store'[h] = store[h]
    BY <1>1, <1>2 DEF LogTyping
<1>9. \A h \in Object \ raced' : h \notin raced /\ (h = o => M!Busy(o) = {})
    BY <1>1
<1>10. \A h \in Object : M!Busy(h) \subseteq Publisher
    BY DEF M!Busy
<1>11. OnePublisherPerObject'
    BY <1>5, <1>9 DEF OnePublisherPerObject, StoreInv
<1>12. OwnContent'
    <2> SUFFICES ASSUME NEW h \in Object \ raced', NEW q \in M!Busy(h)'
                 PROVE  store'[h] = IF publisher'[q].pc = "writing" THEN M!Empty
                                    ELSE publisher'[q].val
        BY DEF OwnContent, M!Empty
    <2>1. CASE h = o
        BY <1>3, <1>5, <1>7, <1>8, <1>9, <2>1
    <2>2. CASE h # o
        BY <1>5, <1>6, <1>8, <1>9, <1>10, <2>2 DEF OwnContent, StoreInv
    <2> QED
        BY <2>1, <2>2
<1>13. StoreMatchesLog'
    <2> SUFFICES ASSUME NEW h \in Key, IsNewest(h)', M!Busy(objectKey[h])' = {},
                        objectKey[h] \notin raced' \cup failed'
                 PROVE  store'[objectKey[h]] = content[top[h]]
        BY <1>1 DEF StoreMatchesLog
    <2>1. PICK g \in Object : g = objectKey[h]
        OBVIOUS
    <2>2. g # o
        BY <1>5, <2>1
    <2>3. IsNewest(h)
        BY <1>1 DEF IsNewest
    <2>4. M!Busy(g) = {} /\ g \notin raced \cup failed
        BY <1>1, <1>5, <1>9, <2>1, <2>2
    <2>5. store[g] = content[top[h]]
        BY <2>1, <2>3, <2>4 DEF StoreMatchesLog, StoreInv
    <2> QED
        BY <1>8, <2>1, <2>2, <2>5
<1> QED
    BY <1>4, <1>11, <1>12, <1>13 DEF StoreInv

\* LocalFS.Put writes the file: nobody else has, on a key without a race.
LEMMA WriteKeepsStore ==
    ASSUME StoreInv, NEW p \in Publisher, M!WriteContent(p)
    PROVE  StoreInv'
<1> DEFINE k == objectKey[publisher[p].key]
           new == [publisher[p] EXCEPT !.pc = "stored"]
<1>1. /\ publisher[p].pc = "writing" /\ publisher' = [publisher EXCEPT ![p].pc = "stored"]
      /\ \E v \in {publisher[p].val} \cup (IF store[k] = M!Empty THEN {} ELSE {M!Mixed}) :
            store' = [store EXCEPT ![k] = v]
      /\ UNCHANGED <<latest, top, content, failed, raced, published>>
    BY DEF M!WriteContent, M!logVars, M!ghosts
<1>2. LogTyping
    BY DEF StoreInv
<1>3. PICK v \in {publisher[p].val} \cup (IF store[k] = M!Empty THEN {} ELSE {M!Mixed}) :
            store' = [store EXCEPT ![k] = v]
    BY <1>1
<1>4. PICK r \in [pc : Busy, key : Key, val : Nat] : r = publisher[p]
    BY <1>1, <1>2, BusyPublisher DEF Busy
<1>5. k \in Object /\ p \in M!Busy(k)
    BY <1>1, <1>2, BusyPublisher DEF Busy
<1>6. /\ [r EXCEPT !.pc = "stored"] \in PublisherState
      /\ [r EXCEPT !.pc = "stored"].pc = "stored"
      /\ [r EXCEPT !.pc = "stored"].key = r.key
      /\ [r EXCEPT !.pc = "stored"].val = r.val
    BY DEF PublisherState, Busy
<1>7. publisher' = [publisher EXCEPT ![p] = [r EXCEPT !.pc = "stored"]]
    BY <1>1, <1>4
<1>8. /\ publisher'[p].pc = "stored" /\ objectKey[publisher'[p].key] = k
      /\ publisher'[p].val = publisher[p].val
    BY <1>2, <1>4, <1>6, <1>7 DEF LogTyping, k
<1>9. \A q \in Publisher \ {p} : publisher'[q] = publisher[q]
    BY <1>2, <1>7 DEF LogTyping
<1>10. v \in Int
    BY <1>3, <1>4 DEF M!Mixed
<1> HIDE DEF k
<1>11. LogTyping'
    <2>1. store' \in [Object -> Int]
        BY <1>2, <1>3, <1>10 DEF LogTyping
    <2>2. publisher' \in [Publisher -> PublisherState]
        BY <1>2, <1>6, <1>7 DEF LogTyping
    <2> QED
        BY <1>1, <1>2, <2>1, <2>2 DEF LogTyping
<1>12. \A h \in Object : M!Busy(h)' = M!Busy(h)
    BY <1>1, <1>8, <1>9 DEF M!Busy, k
<1>13. \A h \in Object \ {k} : store'[h] = store[h]
    BY <1>2, <1>3 DEF LogTyping
<1>14. store'[k] = v
    BY <1>2, <1>3, <1>5 DEF LogTyping
<1>15. k \notin raced => v = publisher[p].val /\ M!Busy(k) = {p}
    <2>1. k \notin raced => store[k] = M!Empty
        BY <1>1, <1>5 DEF StoreInv, OwnContent
    <2>2. k \notin raced => M!Busy(k) = {p}
        BY <1>5 DEF StoreInv, OnePublisherPerObject
    <2> QED
        BY <1>3, <2>1, <2>2
<1>16. OnePublisherPerObject'
    BY <1>1, <1>12 DEF OnePublisherPerObject, StoreInv
<1>17. \A h \in Object : M!Busy(h) \subseteq Publisher
    BY DEF M!Busy
<1>18. OwnContent'
    <2> SUFFICES ASSUME NEW h \in Object \ raced, NEW q \in M!Busy(h)
                 PROVE  store'[h] = IF publisher'[q].pc = "writing" THEN M!Empty
                                    ELSE publisher'[q].val
        BY <1>1, <1>12 DEF OwnContent, M!Empty
    <2>1. CASE h = k
        BY <1>8, <1>14, <1>15, <2>1
    <2>2. CASE h # k
        <3>1. q # p
            BY <2>2 DEF M!Busy, k
        <3> QED
            BY <1>9, <1>13, <1>17, <2>2, <3>1 DEF OwnContent, StoreInv
    <2> QED
        BY <2>1, <2>2
<1>19. StoreMatchesLog'
    <2> SUFFICES ASSUME NEW h \in Key, IsNewest(h)', M!Busy(objectKey[h])' = {},
                        objectKey[h] \notin raced \cup failed
                 PROVE  store'[objectKey[h]] = content[top[h]]
        BY <1>1 DEF StoreMatchesLog
    <2>1. PICK g \in Object : g = objectKey[h]
        OBVIOUS
    <2>2. M!Busy(g) = {} /\ g # k
        BY <1>5, <1>12, <2>1
    <2>3. IsNewest(h)
        BY <1>1 DEF IsNewest
    <2>4. store[g] = content[top[h]]
        BY <2>1, <2>2, <2>3 DEF StoreMatchesLog, StoreInv
    <2> QED
        BY <1>13, <2>1, <2>2, <2>4
<1> QED
    BY <1>11, <1>16, <1>18, <1>19 DEF StoreInv

\* FileWAL.Append: the content logged is the one stored.
LEMMA LogChangeKeepsStore ==
    ASSUME StoreInv, NEW p \in Publisher, M!LogChange(p)
    PROVE  StoreInv'
<1> DEFINE k == publisher[p].key
           v == publisher[p].val
           new == [pc |-> "logged", key |-> k, val |-> v, index |-> latest + 1]
<1>1. /\ publisher[p].pc = "stored"
      /\ latest' = latest + 1 /\ top' = [top EXCEPT ![k] = latest + 1]
      /\ content' = Append(content, v)
      /\ publisher' = [publisher EXCEPT ![p] = new]
      /\ UNCHANGED <<store, published, raced, failed>>
    BY DEF M!LogChange, M!ghosts
<1>2. LogTyping
    BY DEF StoreInv
<1>3. k \in Key /\ v \in Nat /\ p \in M!Busy(objectKey[k])
    BY <1>1, <1>2, BusyPublisher DEF Busy
<1>4. new \in PublisherState /\ new.pc = "logged"
    BY <1>2, <1>3 DEF PublisherState, LogTyping
<1> HIDE DEF new, k, v
<1>5. /\ content' \in Seq(Nat) /\ Len(content') = latest + 1 /\ content'[latest + 1] = v
      /\ \A i \in 1..latest : content'[i] = content[i]
    BY <1>1, <1>2, <1>3 DEF LogTyping
<1>6. /\ top' \in [Key -> 0..(latest + 1)] /\ top'[k] = latest + 1
      /\ \A h \in Key \ {k} : top'[h] = top[h]
    BY <1>1, <1>2, <1>3 DEF LogTyping
<1>7. LogTyping'
    BY <1>1, <1>2, <1>4, <1>5, <1>6 DEF LogTyping
<1>8. publisher'[p] = new /\ \A q \in Publisher \ {p} : publisher'[q] = publisher[q]
    BY <1>1, <1>2 DEF LogTyping
<1>9. \A h \in Object : M!Busy(h)' = M!Busy(h) \ {p}
    BY <1>4, <1>8 DEF M!Busy
<1>10. \A h \in Object : M!Busy(h) \subseteq Publisher
    BY DEF M!Busy
<1>11. OnePublisherPerObject'
    BY <1>1, <1>9 DEF OnePublisherPerObject, StoreInv
<1>12. OwnContent'
    BY <1>1, <1>8, <1>9, <1>10 DEF OwnContent, StoreInv, M!Empty
<1>13. StoreMatchesLog'
    <2> SUFFICES ASSUME NEW h \in Key, IsNewest(h)', M!Busy(objectKey[h])' = {},
                        objectKey[h] \notin raced \cup failed
                 PROVE  store[objectKey[h]] = content'[top'[h]]
        BY <1>1 DEF StoreMatchesLog
    <2>0. PICK g \in Object : g = objectKey[h]
        OBVIOUS
    <2>1. CASE h = k
        <3>1. store[g] = v
            BY <1>1, <1>3, <2>0, <2>1 DEF StoreInv, OwnContent, v
        <3> QED
            BY <1>5, <1>6, <2>0, <2>1, <3>1
    <2>2. CASE h # k
        <3>0. top[h] \in 1..latest /\ top'[h] = top[h]
            BY <1>2, <1>6, <2>2 DEF LogTyping, IsNewest
        <3>1. objectKey[k] # g
            <4>1. SUFFICES ASSUME objectKey[k] = objectKey[h] PROVE FALSE
                BY <2>0
            <4>2. top'[k] <= top'[h]
                BY <1>3, <4>1 DEF IsNewest
            <4> QED
                BY <1>2, <1>6, <3>0, <4>2 DEF LogTyping
        <3>2. p \notin M!Busy(g)
            BY <3>1 DEF M!Busy, k
        <3>3. M!Busy(g) = {}
            BY <1>9, <2>0, <3>2
        <3>4. IsNewest(h)
            <4>1. ASSUME NEW f \in Key, objectKey[f] = objectKey[h] PROVE top[f] <= top[h]
                <5>1. f # k
                    BY <2>0, <3>1, <4>1
                <5>2. top'[f] <= top'[h]
                    BY <4>1 DEF IsNewest
                <5> QED
                    BY <1>6, <3>0, <5>1, <5>2
            <4> QED
                BY <1>2, <3>0, <4>1 DEF IsNewest, LogTyping
        <3>5. store[g] = content[top[h]]
            BY <2>0, <3>3, <3>4 DEF StoreInv, StoreMatchesLog
        <3> QED
            BY <1>5, <2>0, <3>0, <3>5
    <2> QED
        BY <2>1, <2>2
<1> QED
    BY <1>7, <1>11, <1>12, <1>13 DEF StoreInv

\* A failed Put or Append, also one that tore the log.
LEMMA FailKeepsStore ==
    ASSUME StoreInv, NEW p \in Publisher, M!FailPublish(p)
    PROVE  StoreInv'
<1> DEFINE k == publisher[p].key
<1>1. /\ publisher[p].pc \in Busy
      /\ top' = top \/ top' = [top EXCEPT ![k] = 0]
      /\ failed' = failed \cup {objectKey[k]}
      /\ publisher' = [publisher EXCEPT ![p] = M!Done]
      /\ UNCHANGED <<store, latest, content, published, raced>>
    BY DEF M!FailPublish, M!Tear, Busy
<1>2. LogTyping
    BY DEF StoreInv
<1>3. k \in Key /\ p \in M!Busy(objectKey[k])
    BY <1>1, <1>2, BusyPublisher
<1>4. M!Done \in PublisherState /\ M!Done.pc = "idle"
    BY DEF PublisherState, M!Done
<1> HIDE DEF k
<1>5. top' \in [Key -> 0..latest] /\ \A h \in Key \ {k} : top'[h] = top[h]
    <2>1. CASE top' = top
        BY <1>2, <2>1 DEF LogTyping
    <2>2. CASE top' = [top EXCEPT ![k] = 0]
        BY <1>2, <1>3, <2>2 DEF LogTyping
    <2> QED
        BY <1>1, <2>1, <2>2
<1>6. LogTyping'
    BY <1>1, <1>2, <1>4, <1>5 DEF LogTyping
<1>7. publisher'[p] = M!Done /\ \A q \in Publisher \ {p} : publisher'[q] = publisher[q]
    BY <1>1, <1>2 DEF LogTyping
<1>8. \A h \in Object : M!Busy(h)' = M!Busy(h) \ {p}
    BY <1>4, <1>7 DEF M!Busy
<1>9. \A h \in Object : M!Busy(h) \subseteq Publisher
    BY DEF M!Busy
<1>10. OnePublisherPerObject'
    BY <1>1, <1>8 DEF OnePublisherPerObject, StoreInv
<1>11. OwnContent'
    BY <1>1, <1>7, <1>8, <1>9 DEF OwnContent, StoreInv, M!Empty
<1>12. StoreMatchesLog'
    <2> SUFFICES ASSUME NEW h \in Key, IsNewest(h)', M!Busy(objectKey[h])' = {},
                        objectKey[h] \notin raced \cup failed'
                 PROVE  store[objectKey[h]] = content[top'[h]]
        BY <1>1 DEF StoreMatchesLog
    <2>0. PICK g \in Object : g = objectKey[h]
        OBVIOUS
    <2>1. g # objectKey[k] /\ g \notin failed
        BY <1>1, <2>0
    <2>2. p \notin M!Busy(g)
        BY <2>1 DEF M!Busy, k
    <2>3. M!Busy(g) = {}
        BY <1>8, <2>0, <2>2
    <2>4. \A f \in Key : objectKey[f] = g => top'[f] = top[f]
        BY <1>5, <2>1
    <2>5. IsNewest(h)
        BY <2>0, <2>4 DEF IsNewest
    <2> QED
        BY <1>1, <2>0, <2>1, <2>3, <2>4, <2>5 DEF StoreInv, StoreMatchesLog
<1> QED
    BY <1>6, <1>10, <1>11, <1>12 DEF StoreInv

\* When the master ends, what its publishers were doing has failed; an append may
\* be torn on a key being published, or store and log be lost together.
LEMMA DieKeepsStore ==
    ASSUME StoreInv, M!Die, UNCHANGED <<published, raced>>,
           \/ /\ UNCHANGED <<store, latest, content>>
              /\ \/ top' = top
                 \/ \E p \in Publisher : /\ publisher[p].pc = "stored"
                                         /\ top' = [top EXCEPT ![publisher[p].key] = 0]
           \/ /\ store' = [o \in Object |-> M!Empty]
              /\ latest' = 0 /\ top' = [k \in Key |-> 0] /\ content' = <<>>
    PROVE  StoreInv'
<1>1. /\ publisher' = [p \in Publisher |-> M!Done]
      /\ failed' = failed \cup {o \in Object : M!Busy(o) # {}}
    BY DEF M!Die
<1>2. LogTyping
    BY DEF StoreInv
<1>3. M!Done \in PublisherState /\ M!Done.pc = "idle"
    BY DEF PublisherState, M!Done
<1>4. \A h \in Object : M!Busy(h)' = {}
    BY <1>1, <1>3 DEF M!Busy
<1>5. CASE /\ UNCHANGED <<store, latest, content>>
           /\ \/ top' = top
              \/ \E p \in Publisher : /\ publisher[p].pc = "stored"
                                      /\ top' = [top EXCEPT ![publisher[p].key] = 0]
    <2>1. /\ top' \in [Key -> 0..latest]
          /\ \A h \in Key : top'[h] = top[h] \/ objectKey[h] \in failed'
        <3>1. CASE top' = top
            BY <1>2, <3>1 DEF LogTyping
        <3>2. CASE \E p \in Publisher : /\ publisher[p].pc = "stored"
                                        /\ top' = [top EXCEPT ![publisher[p].key] = 0]
            <4>1. PICK p \in Publisher : /\ publisher[p].pc = "stored"
                                         /\ top' = [top EXCEPT ![publisher[p].key] = 0]
                BY <3>2
            <4>2. publisher[p].key \in Key /\ p \in M!Busy(objectKey[publisher[p].key])
                BY <1>2, <4>1, BusyPublisher DEF Busy
            <4>3. objectKey[publisher[p].key] \in failed'
                BY <1>1, <4>2
            <4> QED
                BY <1>2, <4>1, <4>2, <4>3 DEF LogTyping
        <3> QED
            BY <1>5, <3>1, <3>2
    <2>2. LogTyping'
        BY <1>1, <1>2, <1>3, <1>5, <2>1 DEF LogTyping
    <2>3. StoreMatchesLog'
        <3> SUFFICES ASSUME NEW h \in Key, IsNewest(h)',
                            objectKey[h] \notin raced \cup failed'
                     PROVE  store[objectKey[h]] = content[top'[h]]
            BY <1>5 DEF StoreMatchesLog
        <3>0. PICK g \in Object : g = objectKey[h]
            OBVIOUS
        <3>1. \A f \in Key : objectKey[f] = g => top'[f] = top[f]
            BY <2>1, <3>0
        <3>2. IsNewest(h)
            BY <3>0, <3>1 DEF IsNewest
        <3>3. M!Busy(g) = {} /\ g \notin raced \cup failed
            BY <1>1, <3>0
        <3> QED
            BY <3>0, <3>1, <3>2, <3>3 DEF StoreInv, StoreMatchesLog
    <2> QED
        BY <1>4, <2>2, <2>3 DEF StoreInv, OnePublisherPerObject, OwnContent
<1>6. CASE /\ store' = [o \in Object |-> M!Empty]
           /\ latest' = 0 /\ top' = [k \in Key |-> 0] /\ content' = <<>>
    <2>1. LogTyping'
        BY <1>1, <1>2, <1>3, <1>6 DEF LogTyping, M!Empty
    <2>2. StoreMatchesLog'
        BY <1>6 DEF StoreMatchesLog, IsNewest
    <2> QED
        BY <1>4, <2>1, <2>2 DEF StoreInv, OnePublisherPerObject, OwnContent
<1> QED
    BY <1>5, <1>6

\* Steps that touch neither publishers nor store nor log.
storeVars == <<publisher, store, latest, top, content, published, raced, failed>>

LEMMA OtherStepKeepsStore ==
    ASSUME StoreInv, UNCHANGED storeVars
    PROVE  StoreInv'
<1>1. \A o \in Object : M!Busy(o)' = M!Busy(o)
    BY DEF M!Busy, storeVars
<1>2. publisher' \in [Publisher -> PublisherState]
    BY DEF StoreInv, LogTyping, storeVars
<1> QED
    BY <1>1, <1>2, IdleStepKeepsStore DEF storeVars

LEMMA BroadcastKeepsStore ==
    ASSUME StoreInv, NEW p \in Publisher, M!Broadcast(p)
    PROVE  StoreInv'
<1>1. /\ publisher[p].pc = "logged" /\ publisher' = [publisher EXCEPT ![p] = M!Done]
      /\ UNCHANGED <<store, latest, top, content, published, raced, failed>>
    BY DEF M!Broadcast, M!logVars, M!ghosts
<1>2. publisher \in [Publisher -> PublisherState]
    BY DEF StoreInv, LogTyping
<1>3. M!Done \in PublisherState /\ M!Done.pc = "idle"
    BY DEF PublisherState, M!Done
<1>4. /\ publisher' \in [Publisher -> PublisherState] /\ publisher'[p].pc = "idle"
      /\ \A q \in Publisher \ {p} : publisher'[q] = publisher[q]
    BY <1>1, <1>2, <1>3
<1>5. \A o \in Object : M!Busy(o)' = M!Busy(o) /\ p \notin M!Busy(o)
    BY <1>1, <1>4 DEF M!Busy
<1>6. \A o \in Object : \A q \in M!Busy(o) : publisher'[q] = publisher[q]
    BY <1>4, <1>5 DEF M!Busy
<1> QED
    BY <1>1, <1>4, <1>5, <1>6, IdleStepKeepsStore

LEMMA NextKeepsStore == StoreInv /\ [Next]_vars => StoreInv'
<1> SUFFICES ASSUME StoreInv, [Next]_vars PROVE StoreInv'
    OBVIOUS
<1>1. ASSUME NEW p \in Publisher, M!PublisherStep(p) PROVE StoreInv'
    BY <1>1, StartKeepsStore, WriteKeepsStore, LogChangeKeepsStore, FailKeepsStore,
        BroadcastKeepsStore DEF M!PublisherStep
<1>2. ASSUME NEW c \in Call, M!HandlerStep(c) PROVE StoreInv'
    <2>1. CASE M!PanicOnClose(c)
        BY <2>1, DieKeepsStore DEF M!PanicOnClose, M!logVars
    <2>2. CASE ~M!PanicOnClose(c)
        <3>1. UNCHANGED storeVars
            BY <1>2, <2>2 DEF M!HandlerStep, M!Replay, M!RejectFuture, M!Register, M!Send,
                M!LeaveClosed, M!LeaveCancelled, M!Unregister, M!logVars, M!ghosts, storeVars
        <3> QED
            BY <3>1, OtherStepKeepsStore
    <2> QED
        BY <2>1, <2>2
<1>3. CASE M!CrashMaster
    <2>1. \/ top' = top
          \/ \E p \in Publisher : /\ publisher[p].pc = "stored"
                                  /\ top' = [top EXCEPT ![publisher[p].key] = 0]
        BY <1>3 DEF M!CrashMaster, M!Tear
    <2>2. M!Die /\ UNCHANGED <<store, latest, content, published, raced>>
        BY <1>3 DEF M!CrashMaster
    <2> QED
        BY <2>1, <2>2, DieKeepsStore
<1>4. CASE M!ReplaceMaster
    BY <1>4, DieKeepsStore DEF M!ReplaceMaster
<1>5. CASE M!StartMaster \/ AgentStep \/ UNCHANGED vars
    <2>1. UNCHANGED storeVars
        BY <1>5 DEF M!StartMaster, M!logVars, M!ghosts, AgentStep, masterVars, vars, storeVars
    <2> QED
        BY <2>1, OtherStepKeepsStore
<1> QED
    BY <1>1, <1>2, <1>3, <1>4, <1>5 DEF Next, MasterStep, M!Next

\* What a replay reads from the store is what the log says, for every schedule of
\* the publishers, failed writes, ends of the master and spellings of the hostnames:
\* the newest change of an object has the object's content, and Put before Append, in
\* one publisher, is enough on one without a race and without a failed publish.
THEOREM ReplicationStoreMatchesLog == Spec => []StoreMatchesLog
<1>1. StoreInv => StoreMatchesLog
    BY DEF StoreInv
<1> QED
    BY <1>1, StoreInvInit, NextKeepsStore, PTL DEF Spec

----------------------------------------------------------------------------
\* Subscribers and handlers.

\* A handler and a stream, whatever they carry.
IsHandler(h) ==
    /\ h = [pc |-> h.pc, chan |-> h.chan, cap |-> h.cap, closed |-> h.closed,
            result |-> h.result]
    /\ h.pc \in {"replayed", "running", "exiting"} /\ h.closed \in BOOLEAN
    /\ h.result \in {"eof", "error"}

IsStream(s) ==
    /\ s = [status |-> s.status, agent |-> s.agent, from |-> s.from, msgs |-> s.msgs,
            alive |-> s.alive]
    /\ s.status \in {"called", "open", "eof", "error"} /\ s.agent \in Agent

OfCalls(f) == f = [c \in Call |-> f[c]]

CallTyping ==
    /\ OfCalls(handler)
    /\ OfCalls(stream)
    /\ \A c \in Call : handler[c] = M!NotRunning \/ IsHandler(handler[c])
    /\ \A c \in Call : stream[c] = M!NoStream \/ IsStream(stream[c])
    /\ subscribers \in [Agent -> Call \cup {None}]

\* A handler runs on an open stream, and its channel is not closed before anyone
\* can find it.
HandlersOpen ==
    \A c \in Call : handler[c] # M!NotRunning =>
        /\ stream[c].status = "open"
        /\ handler[c].pc = "replayed" => ~handler[c].closed

SubInv == CallTyping /\ HandlersOpen /\ SubscribersLive

LEMMA SubInvInit == Init => SubInv
<1> SUFFICES ASSUME Init PROVE SubInv
    OBVIOUS
<1>1. /\ handler = [c \in Call |-> M!NotRunning] /\ stream = [c \in Call |-> M!NoStream]
      /\ subscribers = [a \in Agent |-> None]
    BY DEF Init, M!Init
<1> QED
    BY <1>1 DEF SubInv, CallTyping, OfCalls, HandlersOpen, SubscribersLive

\* A step of one call, that may register or unregister it.
LEMMA OneCallKeepsSub ==
    ASSUME SubInv, NEW c \in Call,
           OfCalls(handler'),
           OfCalls(stream'),
           \A d \in Call \ {c} : handler'[d] = handler[d] /\ stream'[d] = stream[d],
           handler'[c] = M!NotRunning \/ IsHandler(handler'[c]),
           stream'[c] = M!NoStream \/ IsStream(stream'[c]),
           handler'[c] # M!NotRunning =>
                /\ stream'[c].status = "open"
                /\ handler'[c].pc = "replayed" => ~handler'[c].closed,
           subscribers' \in [Agent -> Call \cup {None}],
           \A a \in Agent : subscribers'[a] \in {subscribers[a], None, c},
           \A a \in Agent : subscribers'[a] = c =>
                /\ handler'[c].pc \in {"running", "exiting"} /\ ~handler'[c].closed
                /\ stream'[c].agent = a
    PROVE  SubInv'
<1>2. CallTyping'
    BY DEF SubInv, CallTyping, OfCalls
<1>3. HandlersOpen'
    BY DEF SubInv, HandlersOpen
<1>4. SubscribersLive'
    <2> SUFFICES ASSUME NEW a \in Agent, NEW d \in Call, subscribers'[a] = d
                 PROVE  /\ handler'[d].pc \in {"running", "exiting"}
                        /\ ~handler'[d].closed /\ stream'[d].agent = a
        BY <1>2 DEF SubscribersLive, CallTyping
    <2>1. CASE d = c
        BY <2>1
    <2>2. CASE d # c
        <3>1. subscribers[a] = d /\ d # None
            BY <2>2
        <3> QED
            BY <2>2, <3>1 DEF SubInv, SubscribersLive
    <2> QED
        BY <2>1, <2>2
<1> QED
    BY <1>2, <1>3, <1>4 DEF SubInv

\* The same, said of the values the step gives to the handler and to the stream.
LEMMA UpdateCall ==
    ASSUME CallTyping, NEW c \in Call, NEW h, NEW s,
           handler' = [handler EXCEPT ![c] = h],
           stream' = [stream EXCEPT ![c] = s]
    PROVE  /\ handler'[c] = h /\ stream'[c] = s
           /\ \A d \in Call \ {c} : handler'[d] = handler[d] /\ stream'[d] = stream[d]
           /\ OfCalls(handler')
           /\ OfCalls(stream')
BY DEF CallTyping, OfCalls

\* Streams carry and lose messages, and their clients die: it is all the same to
\* who is subscribed.
LEMMA TrafficKeepsSub ==
    ASSUME SubInv, UNCHANGED <<handler, subscribers>>,
           OfCalls(stream'),
           \A c \in Call : \/ stream'[c] = stream[c]
                           \/ /\ IsStream(stream'[c])
                              /\ stream'[c].status = stream[c].status
                              /\ stream'[c].agent = stream[c].agent
    PROVE  SubInv'
<1>1. CallTyping' /\ HandlersOpen'
    BY DEF SubInv, CallTyping, OfCalls, HandlersOpen
<1>2. SubscribersLive'
    <2> SUFFICES ASSUME NEW a \in Agent, NEW d \in Call, subscribers[a] = d
                 PROVE  /\ handler[d].pc \in {"running", "exiting"}
                        /\ ~handler[d].closed /\ stream'[d].agent = a
        BY <1>1 DEF SubscribersLive, CallTyping
    <2>1. /\ handler[d].pc \in {"running", "exiting"}
          /\ ~handler[d].closed /\ stream[d].agent = a
        BY DEF SubInv, SubscribersLive
    <2> QED
        BY <2>1
<1> QED
    BY <1>1, <1>2 DEF SubInv

\* Coordinator.broadcast drops the subscribers whose channels it closes.
LEMMA BroadcastKeepsSub ==
    ASSUME SubInv, NEW p \in Publisher, M!Broadcast(p)
    PROVE  SubInv'
<1> DEFINE subs == {c \in Call : \E a \in Agent : subscribers[a] = c}
<1>1. PICK msg :
        /\ handler' = [c \in Call |->
                IF c \notin subs THEN handler[c]
                ELSE IF M!IsFull(handler[c]) THEN [handler[c] EXCEPT !.closed = TRUE]
                ELSE [handler[c] EXCEPT !.chan = Append(@, msg)]]
        /\ subscribers' = [a \in Agent |->
                IF subscribers[a] \in subs /\ M!IsFull(handler[subscribers[a]])
                THEN None ELSE subscribers[a]]
        /\ stream' = stream
    BY DEF M!Broadcast
<1>2. CallTyping
    BY DEF SubInv
<1>3. ASSUME NEW c \in subs
      PROVE  /\ c \in Call /\ IsHandler(handler[c]) /\ handler[c].pc \in {"running", "exiting"}
             /\ ~handler[c].closed
    BY <1>2, <1>3 DEF SubInv, CallTyping, OfCalls, SubscribersLive, M!NotRunning
<1>4. ASSUME NEW c \in subs
      PROVE  /\ IsHandler(handler'[c]) /\ handler'[c].pc = handler[c].pc
             /\ M!IsFull(handler[c]) \/ ~handler'[c].closed
    <2> DEFINE h == handler[c]
    <2>1. c \in Call /\ IsHandler(h) /\ ~h.closed
        BY <1>3
    <2>2. handler'[c] = IF M!IsFull(h) THEN [h EXCEPT !.closed = TRUE]
                        ELSE [h EXCEPT !.chan = Append(@, msg)]
        BY <1>1, <1>4, <2>1
    <2> HIDE DEF h
    <2>3. CASE M!IsFull(h)
        BY <2>1, <2>2, <2>3 DEF IsHandler, h
    <2>4. CASE ~M!IsFull(h)
        <3>1. PICK new : new = Append(h.chan, msg)
            OBVIOUS
        <3>2. handler'[c] = [h EXCEPT !.chan = new]
            BY <2>2, <2>4, <3>1
        <3> QED
            BY <2>1, <3>2 DEF IsHandler, h
    <2> QED
        BY <2>3, <2>4 DEF h
<1>5. \A c \in Call \ subs : handler'[c] = handler[c]
    BY <1>1
<1>6. /\ OfCalls(handler')
      /\ subscribers' \in [Agent -> Call \cup {None}]
    BY <1>1, <1>2 DEF CallTyping, OfCalls
<1>7. CallTyping'
    BY <1>1, <1>2, <1>4, <1>5, <1>6 DEF CallTyping, OfCalls
<1>8. HandlersOpen'
    <2> SUFFICES ASSUME NEW c \in Call, handler'[c] # M!NotRunning
                 PROVE  /\ stream[c].status = "open"
                        /\ handler'[c].pc = "replayed" => ~handler'[c].closed
        BY <1>1 DEF HandlersOpen
    <2>1. CASE c \in subs
        <3>1. handler[c] # M!NotRunning
            BY <1>3, <2>1 DEF M!NotRunning
        <3> QED
            BY <1>3, <1>4, <2>1, <3>1 DEF SubInv, HandlersOpen
    <2>2. CASE c \notin subs
        BY <1>5, <2>2 DEF SubInv, HandlersOpen
    <2> QED
        BY <2>1, <2>2
<1>9. SubscribersLive'
    <2> SUFFICES ASSUME NEW a \in Agent, NEW c \in Call, subscribers'[a] = c
                 PROVE  /\ handler'[c].pc \in {"running", "exiting"}
                        /\ ~handler'[c].closed /\ stream'[c].agent = a
        BY <1>6 DEF SubscribersLive
    <2>1. subscribers[a] = c /\ ~(c \in subs /\ M!IsFull(handler[c]))
        BY <1>1
    <2>2. c \in subs
        BY <2>1
    <2>3. stream[c].agent = a
        BY <2>1 DEF SubInv, SubscribersLive
    <2> QED
        BY <1>1, <1>3, <1>4, <2>1, <2>2, <2>3
<1> QED
    BY <1>7, <1>8, <1>9 DEF SubInv

\* When the master ends nothing is subscribed and no handler runs.
LEMMA DieKeepsSub == SubInv /\ M!Die => SubInv'
<1> SUFFICES ASSUME SubInv, M!Die PROVE SubInv'
    OBVIOUS
<1>1. /\ handler' = [c \in Call |-> M!NotRunning] /\ subscribers' = [a \in Agent |-> None]
      /\ stream' = [c \in Call |-> IF stream[c].status \in {"called", "open"}
                                   THEN [stream[c] EXCEPT !.status = "error"]
                                   ELSE stream[c]]
    BY DEF M!Die
<1>2. ASSUME NEW c \in Call PROVE stream'[c] = M!NoStream \/ IsStream(stream'[c])
    <2>1. CASE stream[c].status \in {"called", "open"}
        <3>1. IsStream(stream[c])
            BY <2>1 DEF SubInv, CallTyping, OfCalls, M!NoStream
        <3>2. stream'[c] = [stream[c] EXCEPT !.status = "error"]
            BY <1>1, <2>1
        <3> QED
            BY <3>1, <3>2 DEF IsStream
    <2>2. CASE stream[c].status \notin {"called", "open"}
        BY <1>1, <2>2 DEF SubInv, CallTyping, OfCalls
    <2> QED
        BY <2>1, <2>2
<1>3. OfCalls(stream')
    BY <1>1 DEF OfCalls
<1> QED
    BY <1>1, <1>2, <1>3 DEF SubInv, CallTyping, OfCalls, HandlersOpen, SubscribersLive

LEMMA HandlerStepKeepsSub ==
    ASSUME SubInv, NEW c \in Call, M!HandlerStep(c)
    PROVE  SubInv'
<1>1. CallTyping
    BY DEF SubInv
<1>2. /\ handler = [handler EXCEPT ![c] = handler[c]]
      /\ stream = [stream EXCEPT ![c] = stream[c]]
    BY <1>1 DEF CallTyping, OfCalls
<1>3. /\ handler[c] = M!NotRunning \/ IsHandler(handler[c])
      /\ stream[c] = M!NoStream \/ IsStream(stream[c])
      /\ handler[c].pc # "none" => IsHandler(handler[c]) /\ stream[c].status = "open"
      /\ stream[c].status # "none" => IsStream(stream[c])
    BY <1>1 DEF SubInv, CallTyping, OfCalls, HandlersOpen, M!NotRunning, M!NoStream
<1>4. \A a \in Agent : subscribers[a] = c =>
        /\ handler[c].pc \in {"running", "exiting"} /\ ~handler[c].closed
        /\ stream[c].agent = a
    BY DEF SubInv, SubscribersLive
<1>5. ASSUME NEW unreadable \in SUBSET Key, M!Replay(c, unreadable) PROVE SubInv'
    <2>1. PICK backlog, n :
            /\ handler' = [handler EXCEPT ![c] =
                    [pc |-> "replayed", chan |-> backlog, cap |-> n, closed |-> FALSE,
                     result |-> "error"]]
            /\ stream[c].status = "called" /\ stream' = [stream EXCEPT ![c].status = "open"]
            /\ subscribers' = subscribers
        BY <1>5 DEF M!Replay
    <2>2. PICK h : h = [pc |-> "replayed", chan |-> backlog, cap |-> n, closed |-> FALSE,
                        result |-> "error"]
        OBVIOUS
    <2>3. IsHandler(h) /\ h.pc = "replayed" /\ ~h.closed
        BY <2>2 DEF IsHandler
    <2>4. PICK s : s = [stream[c] EXCEPT !.status = "open"]
        OBVIOUS
    <2>5. IsStream(s) /\ s.status = "open"
        BY <1>3, <2>1, <2>4 DEF IsStream
    <2>6. handler' = [handler EXCEPT ![c] = h] /\ stream' = [stream EXCEPT ![c] = s]
        BY <2>1, <2>2, <2>4
    <2>7. \A a \in Agent : subscribers[a] # c
        BY <1>3, <1>4, <2>1 DEF SubInv, HandlersOpen, M!NotRunning
    <2>8. /\ \A a \in Agent : subscribers'[a] # c
          /\ subscribers' \in [Agent -> Call \cup {None}]
          /\ \A a \in Agent : subscribers'[a] \in {subscribers[a], None, c}
        BY <1>1, <2>1, <2>7 DEF CallTyping, OfCalls
    <2>9. /\ handler'[c] = h /\ stream'[c] = s
          /\ \A d \in Call \ {c} : handler'[d] = handler[d] /\ stream'[d] = stream[d]
          /\ OfCalls(handler')
          /\ OfCalls(stream')
        BY <1>1, <2>6, UpdateCall
    <2> QED
        BY <2>3, <2>5, <2>8, <2>9, OneCallKeepsSub
<1>6. CASE M!RejectFuture(c)
    <2>1. /\ stream[c].status = "called" /\ stream' = [stream EXCEPT ![c].status = "error"]
          /\ UNCHANGED <<handler, subscribers>>
        BY <1>6 DEF M!RejectFuture
    <2>2. PICK s : s = [stream[c] EXCEPT !.status = "error"]
        OBVIOUS
    <2>3. IsStream(s)
        BY <1>3, <2>1, <2>2 DEF IsStream
    <2>4. handler[c] = M!NotRunning
        BY <1>3, <2>1 DEF SubInv, HandlersOpen
    <2>5. \A a \in Agent : subscribers[a] # c
        BY <1>4, <2>4 DEF M!NotRunning
    <2>6. handler' = [handler EXCEPT ![c] = handler[c]] /\ stream' = [stream EXCEPT ![c] = s]
        BY <1>2, <2>1, <2>2
    <2>7. /\ handler'[c] = M!NotRunning /\ stream'[c] = s
          /\ \A d \in Call \ {c} : handler'[d] = handler[d] /\ stream'[d] = stream[d]
          /\ OfCalls(handler')
          /\ OfCalls(stream')
        BY <1>1, <2>4, <2>6, UpdateCall
    <2>8. /\ subscribers' \in [Agent -> Call \cup {None}]
          /\ \A a \in Agent : subscribers'[a] \in {subscribers[a], None, c}
          /\ \A a \in Agent : subscribers'[a] # c
        BY <1>1, <2>1, <2>5 DEF CallTyping, OfCalls
    <2> QED
        BY <2>3, <2>7, <2>8, OneCallKeepsSub
<1>7. CASE M!Register(c)
    <2>1. /\ handler[c].pc = "replayed" /\ handler' = [handler EXCEPT ![c].pc = "running"]
          /\ subscribers' = [subscribers EXCEPT ![stream[c].agent] = c]
          /\ stream' = stream
        BY <1>7 DEF M!Register
    <2>2. PICK h : h = [handler[c] EXCEPT !.pc = "running"]
        OBVIOUS
    <2>3. IsHandler(h) /\ h.pc = "running" /\ h.closed = handler[c].closed
        BY <1>3, <2>1, <2>2 DEF IsHandler
    <2>4. ~handler[c].closed /\ stream[c].status = "open" /\ IsStream(stream[c])
        BY <1>3, <2>1 DEF SubInv, HandlersOpen, M!NotRunning, M!NoStream
    <2>5. stream[c].agent \in Agent
        BY <2>4 DEF IsStream
    <2>6. /\ subscribers' \in [Agent -> Call \cup {None}]
          /\ \A a \in Agent : subscribers'[a] \in {subscribers[a], None, c}
          /\ \A a \in Agent : subscribers'[a] = c => stream[c].agent = a
        BY <1>1, <1>3, <1>4, <2>1, <2>5 DEF CallTyping, OfCalls
    <2>7. handler' = [handler EXCEPT ![c] = h] /\ stream' = [stream EXCEPT ![c] = stream[c]]
        BY <1>2, <2>1, <2>2
    <2>8. /\ h # M!NotRunning => stream[c].status = "open" /\ (h.pc = "replayed" => ~h.closed)
          /\ \A a \in Agent : subscribers'[a] = c =>
                h.pc \in {"running", "exiting"} /\ ~h.closed /\ stream[c].agent = a
        BY <2>3, <2>4, <2>6
    <2>9. /\ handler'[c] = h /\ stream'[c] = stream[c]
          /\ \A d \in Call \ {c} : handler'[d] = handler[d] /\ stream'[d] = stream[d]
          /\ OfCalls(handler')
          /\ OfCalls(stream')
        BY <1>1, <2>7, UpdateCall
    <2> QED
        BY <2>3, <2>4, <2>6, <2>8, <2>9, OneCallKeepsSub
<1>8. CASE M!Send(c)
    <2>1. /\ handler[c].pc = "running"
          /\ handler' = [handler EXCEPT ![c].chan = Tail(@)]
          /\ stream' = [stream EXCEPT ![c].msgs = Append(@, Head(handler[c].chan))]
          /\ subscribers' = subscribers
        BY <1>8 DEF M!Send
    <2>2. PICK h, rest : rest = Tail(handler[c].chan) /\ h = [handler[c] EXCEPT !.chan = rest]
        OBVIOUS
    <2>3. IsHandler(h) /\ h.pc = "running" /\ h.closed = handler[c].closed
        BY <1>3, <2>1, <2>2 DEF IsHandler
    <2>4. PICK s, msgs : /\ msgs = Append(stream[c].msgs, Head(handler[c].chan))
                         /\ s = [stream[c] EXCEPT !.msgs = msgs]
        OBVIOUS
    <2>5. IsStream(stream[c]) /\ stream[c].status = "open"
        BY <1>3, <2>1
    <2>6. IsStream(s) /\ s.status = "open" /\ s.agent = stream[c].agent
        BY <2>4, <2>5 DEF IsStream
    <2>7. handler' = [handler EXCEPT ![c] = h] /\ stream' = [stream EXCEPT ![c] = s]
        BY <2>1, <2>2, <2>4
    <2>8. /\ h # M!NotRunning => s.status = "open" /\ (h.pc = "replayed" => ~h.closed)
          /\ \A a \in Agent : subscribers'[a] = c =>
                h.pc \in {"running", "exiting"} /\ ~h.closed /\ s.agent = a
        BY <1>4, <2>1, <2>3, <2>6
    <2>9. /\ subscribers' \in [Agent -> Call \cup {None}]
          /\ \A a \in Agent : subscribers'[a] \in {subscribers[a], None, c}
        BY <1>1, <2>1 DEF CallTyping, OfCalls
    <2>10. /\ handler'[c] = h /\ stream'[c] = s
           /\ \A d \in Call \ {c} : handler'[d] = handler[d] /\ stream'[d] = stream[d]
           /\ OfCalls(handler')
           /\ OfCalls(stream')
        BY <1>1, <2>7, UpdateCall
    <2> QED
        BY <2>3, <2>6, <2>8, <2>9, <2>10, OneCallKeepsSub
<1>9. CASE M!LeaveClosed(c) \/ M!LeaveCancelled(c)
    <2>1. /\ handler[c].pc = "running"
          /\ \E result \in {"eof", "error"} :
                handler' = [handler EXCEPT ![c].pc = "exiting", ![c].result = result]
          /\ UNCHANGED <<stream, subscribers>>
        BY <1>9 DEF M!LeaveClosed, M!LeaveCancelled
    <2>2. PICK result \in {"eof", "error"} :
                handler' = [handler EXCEPT ![c].pc = "exiting", ![c].result = result]
        BY <2>1
    <2>3. PICK h : h = [handler[c] EXCEPT !.pc = "exiting", !.result = result]
        OBVIOUS
    <2>4. IsHandler(h) /\ h.pc = "exiting" /\ h.closed = handler[c].closed
        BY <1>3, <2>1, <2>3 DEF IsHandler
    <2>5. handler' = [handler EXCEPT ![c] = h]
        BY <1>1, <2>2, <2>3 DEF CallTyping, OfCalls
    <2>6. IsStream(stream[c]) /\ stream[c].status = "open"
        BY <1>3, <2>1
    <2>7. /\ h # M!NotRunning => stream[c].status = "open" /\ (h.pc = "replayed" => ~h.closed)
          /\ \A a \in Agent : subscribers'[a] = c =>
                h.pc \in {"running", "exiting"} /\ ~h.closed /\ stream[c].agent = a
        BY <1>4, <2>1, <2>4, <2>6
    <2>8. /\ subscribers' \in [Agent -> Call \cup {None}]
          /\ \A a \in Agent : subscribers'[a] \in {subscribers[a], None, c}
        BY <1>1, <2>1 DEF CallTyping, OfCalls
    <2>9. stream' = [stream EXCEPT ![c] = stream[c]]
        BY <1>2, <2>1
    <2>10. /\ handler'[c] = h /\ stream'[c] = stream[c]
           /\ \A d \in Call \ {c} : handler'[d] = handler[d] /\ stream'[d] = stream[d]
           /\ OfCalls(handler')
           /\ OfCalls(stream')
        BY <1>1, <2>5, <2>9, UpdateCall
    <2> QED
        BY <2>4, <2>6, <2>7, <2>8, <2>10, OneCallKeepsSub
<1>10. CASE M!Unregister(c)
    <2>1. /\ handler[c].pc = "exiting"
          /\ subscribers' = [subscribers EXCEPT ![stream[c].agent] = None]
          /\ stream' = [stream EXCEPT ![c].status = handler[c].result]
          /\ handler' = [handler EXCEPT ![c] = M!NotRunning]
        BY <1>10 DEF M!Unregister
    <2>2. IsStream(stream[c]) /\ handler[c].result \in {"eof", "error"}
        BY <1>3, <2>1 DEF IsHandler
    <2>3. PICK s : s = [stream[c] EXCEPT !.status = handler[c].result]
        OBVIOUS
    <2>4. IsStream(s)
        BY <2>2, <2>3 DEF IsStream
    <2>5. stream[c].agent \in Agent
        BY <2>2 DEF IsStream
    <2>6. /\ subscribers' \in [Agent -> Call \cup {None}]
          /\ \A a \in Agent : subscribers'[a] \in {subscribers[a], None}
          /\ \A a \in Agent : subscribers'[a] # c
        BY <1>1, <1>4, <2>1, <2>5 DEF CallTyping, OfCalls
    <2>7. stream' = [stream EXCEPT ![c] = s]
        BY <2>1, <2>3
    <2>8. /\ handler'[c] = M!NotRunning /\ stream'[c] = s
          /\ \A d \in Call \ {c} : handler'[d] = handler[d] /\ stream'[d] = stream[d]
          /\ OfCalls(handler')
          /\ OfCalls(stream')
        BY <1>1, <2>1, <2>7, UpdateCall
    <2> QED
        BY <2>4, <2>6, <2>8, OneCallKeepsSub
<1>11. CASE M!PanicOnClose(c)
    BY <1>11, DieKeepsSub DEF M!PanicOnClose
<1> QED
    BY <1>5, <1>6, <1>7, <1>8, <1>9, <1>10, <1>11 DEF M!HandlerStep

\* An agent that ends leaves its streams; a message taken shortens one.
LEMMA AgentTrafficKeepsSub ==
    ASSUME SubInv, NEW a \in Agent, UNCHANGED <<handler, subscribers>>,
           F!Exit(a) \/ F!Receive(a) \/ UNCHANGED stream
    PROVE  SubInv'
<1>1. \A c \in Call : stream[c] = M!NoStream \/ IsStream(stream[c])
    BY DEF SubInv, CallTyping, OfCalls
<1>2. CASE F!Exit(a)
    <2>1. stream' = [c \in Call |->
                IF stream[c].status # "none" /\ stream[c].agent = a
                THEN [stream[c] EXCEPT !.alive = FALSE, !.msgs = <<>>] ELSE stream[c]]
        BY <1>2 DEF F!Exit
    <2>2. ASSUME NEW c \in Call
          PROVE  \/ stream'[c] = stream[c]
                 \/ /\ IsStream(stream'[c])
                    /\ stream'[c].status = stream[c].status
                    /\ stream'[c].agent = stream[c].agent
        <3>1. CASE stream[c].status # "none" /\ stream[c].agent = a
            <4>1. IsStream(stream[c])
                BY <1>1, <3>1 DEF M!NoStream
            <4>2. stream'[c] = [stream[c] EXCEPT !.alive = FALSE, !.msgs = <<>>]
                BY <2>1, <3>1
            <4> QED
                BY <4>1, <4>2 DEF IsStream
        <3>2. CASE ~(stream[c].status # "none" /\ stream[c].agent = a)
            BY <2>1, <3>2
        <3> QED
            BY <3>1, <3>2
    <2>3. OfCalls(stream')
        BY <2>1 DEF OfCalls
    <2> QED
        BY <2>2, <2>3, TrafficKeepsSub
<1>3. CASE F!Receive(a)
    <2>1. PICK d, rest : stream' = [stream EXCEPT ![d] = [stream[d] EXCEPT !.msgs = rest]]
        BY <1>3 DEF F!Receive
    <2>2. ASSUME NEW c \in Call
          PROVE  \/ stream'[c] = stream[c]
                 \/ /\ IsStream(stream'[c])
                    /\ stream'[c].status = stream[c].status
                    /\ stream'[c].agent = stream[c].agent
        <3>1. CASE c = d
            <4>1. stream'[c] = [stream[c] EXCEPT !.msgs = rest]
                BY <2>1, <3>1 DEF SubInv, CallTyping, OfCalls
            <4>2. CASE stream[c] = M!NoStream
                BY <4>1, <4>2 DEF M!NoStream
            <4>3. CASE IsStream(stream[c])
                BY <4>1, <4>3 DEF IsStream
            <4> QED
                BY <1>1, <4>2, <4>3
        <3>2. CASE c # d
            BY <2>1, <3>2 DEF SubInv, CallTyping, OfCalls
        <3> QED
            BY <3>1, <3>2
    <2>3. OfCalls(stream')
        BY <2>1 DEF SubInv, CallTyping, OfCalls
    <2> QED
        BY <2>2, <2>3, TrafficKeepsSub
<1>4. CASE UNCHANGED stream
    <2>1. \A c \in Call : stream'[c] = stream[c]
        BY <1>4
    <2>2. OfCalls(stream')
        BY <1>4 DEF SubInv, CallTyping, OfCalls
    <2> QED
        BY <2>1, <2>2, TrafficKeepsSub
<1> QED
    BY <1>2, <1>3, <1>4

LEMMA AgentStepKeepsSub ==
    ASSUME SubInv, AgentStep
    PROVE  SubInv'
<1>1. F!Next /\ UNCHANGED <<handler, subscribers>>
    BY DEF AgentStep, masterVars
<1>2. ASSUME NEW a \in Agent, NEW c \in Call, F!Subscribe(a, c) PROVE SubInv'
    <2>1. PICK n \in {cursor[a]} :
            /\ stream[c].status = "none"
            /\ stream' = [stream EXCEPT ![c] =
                [status |-> "called", agent |-> a, from |-> n, msgs |-> <<>>, alive |-> TRUE]]
        BY <1>2 DEF F!Subscribe
    <2>2. PICK s : s = [status |-> "called", agent |-> a, from |-> n, msgs |-> <<>>,
                        alive |-> TRUE]
        OBVIOUS
    <2>3. IsStream(s)
        BY <2>2 DEF IsStream
    <2>4. handler[c] = M!NotRunning
        BY <2>1 DEF SubInv, HandlersOpen
    <2>5. \A b \in Agent : subscribers[b] # c
        BY <2>4 DEF SubInv, SubscribersLive, M!NotRunning
    <2>6. handler' = [handler EXCEPT ![c] = M!NotRunning] /\ stream' = [stream EXCEPT ![c] = s]
        BY <1>1, <2>1, <2>2, <2>4 DEF SubInv, CallTyping, OfCalls
    <2>7. subscribers' \in [Agent -> Call \cup {None}]
        BY <1>1 DEF SubInv, CallTyping, OfCalls
    <2>8. /\ handler'[c] = M!NotRunning /\ stream'[c] = s
          /\ \A d \in Call \ {c} : handler'[d] = handler[d] /\ stream'[d] = stream[d]
          /\ OfCalls(handler')
          /\ OfCalls(stream')
        BY <2>6, UpdateCall DEF SubInv
    <2> QED
        BY <1>1, <2>3, <2>5, <2>7, <2>8, OneCallKeepsSub
<1>3. ASSUME NEW c \in Call, F!Forget(c) PROVE SubInv'
    <2>1. /\ stream[c].status \in {"eof", "error"}
          /\ stream' = [stream EXCEPT ![c] = M!NoStream]
        BY <1>3 DEF F!Forget, M!NoStream
    <2>2. handler[c] = M!NotRunning
        BY <2>1 DEF SubInv, HandlersOpen
    <2>3. \A b \in Agent : subscribers[b] # c
        BY <2>2 DEF SubInv, SubscribersLive, M!NotRunning
    <2>4. handler' = [handler EXCEPT ![c] = handler[c]]
        BY <1>1 DEF SubInv, CallTyping, OfCalls
    <2>5. subscribers' \in [Agent -> Call \cup {None}]
        BY <1>1 DEF SubInv, CallTyping, OfCalls
    <2>6. /\ handler'[c] = M!NotRunning /\ stream'[c] = M!NoStream
          /\ \A d \in Call \ {c} : handler'[d] = handler[d] /\ stream'[d] = stream[d]
          /\ OfCalls(handler')
          /\ OfCalls(stream')
        BY <2>1, <2>2, <2>4, UpdateCall DEF SubInv
    <2> QED
        BY <1>1, <2>3, <2>5, <2>6, OneCallKeepsSub
<1>4. ASSUME NEW a \in Agent, F!AgentStep(a) \/ F!KillAgent(a),
             \A c \in Call : ~F!Subscribe(a, c)
      PROVE  SubInv'
    <2>1. F!Exit(a) \/ F!Receive(a) \/ UNCHANGED stream
        BY <1>4 DEF F!AgentStep, F!KillAgent, F!StartAgent, F!Skip, F!Leave, F!FailApply,
            F!RemoveZone, F!RenameZone, F!SaveApplied, F!StreamOver
    <2> QED
        BY <1>1, <2>1, AgentTrafficKeepsSub
<1> QED
    BY <1>1, <1>2, <1>3, <1>4 DEF F!Next

LEMMA NextKeepsSub == SubInv /\ [Next]_vars => SubInv'
<1> SUFFICES ASSUME SubInv, [Next]_vars PROVE SubInv'
    OBVIOUS
<1>1. ASSUME UNCHANGED <<handler, subscribers, stream>> PROVE SubInv'
    BY <1>1 DEF SubInv, CallTyping, OfCalls, HandlersOpen, SubscribersLive
<1>2. ASSUME NEW p \in Publisher, M!PublisherStep(p) PROVE SubInv'
    <2>1. CASE M!Broadcast(p)
        BY <2>1, BroadcastKeepsSub
    <2>2. CASE ~M!Broadcast(p)
        <3>1. UNCHANGED <<handler, subscribers, stream>>
            BY <1>2, <2>2 DEF M!PublisherStep, M!StartPublish, M!WriteContent, M!LogChange,
                M!FailPublish, M!subVars
        <3> QED
            BY <1>1, <3>1
    <2> QED
        BY <2>1, <2>2
<1>3. ASSUME NEW c \in Call, M!HandlerStep(c) PROVE SubInv'
    BY <1>3, HandlerStepKeepsSub
<1>4. CASE M!CrashMaster \/ M!ReplaceMaster
    BY <1>4, DieKeepsSub DEF M!CrashMaster, M!ReplaceMaster
<1>5. CASE M!StartMaster
    BY <1>1, <1>5 DEF M!StartMaster, M!subVars
<1>6. CASE AgentStep
    BY <1>6, AgentStepKeepsSub
<1>7. CASE UNCHANGED vars
    BY <1>1, <1>7 DEF vars, masterVars
<1> QED
    BY <1>2, <1>3, <1>4, <1>5, <1>6, <1>7 DEF Next, MasterStep, M!Next

\* broadcast never sends on a closed channel, whatever subscribes, is slow, is
\* cancelled or is replaced at the same time: a registered subscriber is open.
THEOREM ReplicationSubscribersLive == Spec => []SubscribersLive
<1>1. SubInv => SubscribersLive
    BY DEF SubInv
<1> QED
    BY <1>1, SubInvInit, NextKeepsSub, PTL DEF Spec

=============================================================================
