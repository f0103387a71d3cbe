--------------------------- MODULE FileWALProofs ---------------------------
(***************************************************************************)
(* Proofs about FileWAL, for every set of keys, every file size and every  *)
(* bound on the indexes.  Both kinds of user are covered: the steps of the *)
(* master's log and of an agent's differ only in the index they append.    *)
(***************************************************************************)
EXTENDS FileWALUsers, TLAPS, SequenceTheorems, FiniteSetTheorems

USE ItemsPerFileAssumption, MaxIndexAssumption

----------------------------------------------------------------------------
\* Numbers.

\* A later index is never in an earlier file (segmentNumberForIndex).
LEMMA SegmentOfMonotone ==
    ASSUME NEW i \in Nat, NEW j \in Nat, i <= j
    PROVE  /\ SegmentOf(i) \in Nat \ {0}
           /\ SegmentOf(i) <= SegmentOf(j)
<1> DEFINE q(n) == (n - 1) \div ItemsPerFile
           r(n) == (n - 1) % ItemsPerFile
<1>1. \A n \in Nat \ {0} : /\ q(n) \in Int
                           /\ n - 1 = ItemsPerFile * q(n) + r(n)
                           /\ r(n) \in 0..(ItemsPerFile - 1)
    OBVIOUS
<1>2. \A n \in Nat \ {0} : q(n) \in Nat
    <2> SUFFICES ASSUME NEW n \in Nat \ {0}, q(n) < 0 PROVE FALSE
        BY <1>1
    <2> QED
        OBVIOUS
<1>3. ASSUME i # 0 PROVE q(i) <= q(j)
    <2> SUFFICES ASSUME q(j) + 1 <= q(i) PROVE FALSE
        BY <1>1, <1>2, <1>3
    <2>1. ItemsPerFile * (q(j) + 1) <= ItemsPerFile * q(i)
        BY <1>1, <1>2, <1>3
    <2> QED
        BY <1>1, <1>3, <2>1
<1> HIDE DEF q
<1> QED
    BY <1>2, <1>3 DEF SegmentOf, q

\* The largest element of a finite set of numbers exists.
LEMMA MaximumExists ==
    ASSUME NEW S \in SUBSET Nat, IsFiniteSet(S), S # {}
    PROVE  \E m \in S : \A n \in S : n <= m
<1> DEFINE Above(s) == {x \in S : x > s}
           T == {Above(s) : s \in S}
<1>1. IsWellFoundedOn(StrictSubsetOrdering(S), FiniteSubsetsOf(S))
    BY FS_StrictSubsetOrderingWellFounded
<1>2. T \subseteq FiniteSubsetsOf(S) /\ T # {}
    <2>1. FiniteSubsetsOf(S) = SUBSET S
        BY FS_FiniteSubsetsOfFinite
    <2>2. \A s \in S : Above(s) \in SUBSET S
        OBVIOUS
    <2> HIDE DEF Above
    <2>3. T \subseteq SUBSET S
        BY <2>2
    <2>4. PICK s \in S : TRUE
        OBVIOUS
    <2>5. Above(s) \in T
        OBVIOUS
    <2> QED
        BY <2>1, <2>3, <2>5
<1>3. PICK U \in T : \A V \in T : <<V, U>> \notin StrictSubsetOrdering(S)
    BY <1>1, <1>2, WFMin
<1>4. PICK m \in S : U = Above(m)
    BY <1>3
<1>5. ASSUME NEW n \in S, n > m PROVE FALSE
    <2>1. Above(n) \subseteq U /\ Above(n) # U
        <3>1. n \in U /\ n \notin Above(n)
            BY <1>4, <1>5
        <3>2. \A x \in S : x > n => x > m
            BY <1>5
        <3>3. Above(n) \subseteq U
            BY <1>4, <3>2
        <3> QED
            BY <3>1, <3>3
    <2>2. <<Above(n), U>> \in StrictSubsetOrdering(S)
        BY <1>4, <2>1 DEF StrictSubsetOrdering
    <2>3. Above(n) \in T
        OBVIOUS
    <2> QED
        BY <1>3, <2>2, <2>3
<1> QED
    BY <1>5

\* The smallest element of a finite set of numbers exists.
LEMMA MinimumExists ==
    ASSUME NEW S \in SUBSET Nat, IsFiniteSet(S), S # {}
    PROVE  \E m \in S : \A n \in S : m <= n
<1> DEFINE Below(s) == {x \in S : x < s}
           T == {Below(s) : s \in S}
<1>1. IsWellFoundedOn(StrictSubsetOrdering(S), FiniteSubsetsOf(S))
    BY FS_StrictSubsetOrderingWellFounded
<1>2. T \subseteq FiniteSubsetsOf(S) /\ T # {}
    <2>1. FiniteSubsetsOf(S) = SUBSET S
        BY FS_FiniteSubsetsOfFinite
    <2>2. \A s \in S : Below(s) \in SUBSET S
        OBVIOUS
    <2> HIDE DEF Below
    <2>3. T \subseteq SUBSET S
        BY <2>2
    <2>4. PICK s \in S : TRUE
        OBVIOUS
    <2>5. Below(s) \in T
        OBVIOUS
    <2> QED
        BY <2>1, <2>3, <2>5
<1>3. PICK U \in T : \A V \in T : <<V, U>> \notin StrictSubsetOrdering(S)
    BY <1>1, <1>2, WFMin
<1>4. PICK m \in S : U = Below(m)
    BY <1>3
<1>5. ASSUME NEW n \in S, n < m PROVE FALSE
    <2>1. Below(n) \subseteq U /\ Below(n) # U
        <3>1. n \in U /\ n \notin Below(n)
            BY <1>4, <1>5
        <3>2. \A x \in S : x < n => x < m
            BY <1>5
        <3>3. Below(n) \subseteq U
            BY <1>4, <3>2
        <3> QED
            BY <3>1, <3>3
    <2>2. <<Below(n), U>> \in StrictSubsetOrdering(S)
        BY <1>4, <2>1 DEF StrictSubsetOrdering
    <2>3. Below(n) \in T
        OBVIOUS
    <2> QED
        BY <1>3, <2>2, <2>3
<1> QED
    BY <1>5

----------------------------------------------------------------------------
\* Reading the log.

\* A place is an existing segment and a position in its list of items.
LEMMA InPlaces ==
    ASSUME NEW files, NEW p
    PROVE  p \in Places(files) <=>
                /\ p = <<p[1], p[2]>>
                /\ p[1] \in Segment
                /\ p[2] \in DOMAIN files[p[1]].items
<1>1. ASSUME p \in Places(files)
      PROVE  /\ p = <<p[1], p[2]>>
             /\ p[1] \in Segment
             /\ p[2] \in DOMAIN files[p[1]].items
    <2>1. PICK s \in Segment : p \in {s} \X DOMAIN files[s].items
        BY <1>1 DEF Places
    <2> QED
        BY <2>1
<1>2. ASSUME p = <<p[1], p[2]>>, p[1] \in Segment, p[2] \in DOMAIN files[p[1]].items
      PROVE  p \in Places(files)
    <2>1. p \in {p[1]} \X DOMAIN files[p[1]].items
        BY <1>2
    <2> QED
        BY <1>2, <2>1 DEF Places
<1> QED
    BY <1>1, <1>2

\* Segments are numbered from 1.
LEMMA SegmentIsInterval == SegmentOf(MaxIndex) \in Nat \ {0} /\ Segment \subseteq Nat \ {0}
    BY SegmentOfMonotone DEF Segment

\* Every item of a well-typed log has a number as its position and is an Item.
LEMMA ItemAtType ==
    ASSUME NEW files \in [Segment -> File], NEW s \in Segment
    PROVE  /\ files[s].items \in Seq(Item)
           /\ Len(files[s].items) \in Nat
           /\ DOMAIN files[s].items = 1..Len(files[s].items)
           /\ \A j \in 1..Len(files[s].items) : files[s].items[j] \in Item
<1>1. files[s].items \in Seq(Item)
    BY DEF File
<1> QED
    BY <1>1, LenProperties, ElementOfSeq

\* The one item latestLocked looks at is the newest of the log.
LEMMA LatestIsNewest ==
    ASSUME TypeOK, IndexesAscend
    PROVE  /\ Latest \in 0..MaxIndex
           /\ \A p \in Places(disk) : ItemAt(disk, p).index <= Latest
           /\ Latest = 0 \/ \E p \in Places(disk) : ItemAt(disk, p).index = Latest
<1> DEFINE S == {s \in Segment : Exists(s)}
<1>1. \A p \in Places(disk) : p[1] \in S
    <2> SUFFICES ASSUME NEW p \in Places(disk) PROVE Exists(p[1])
        BY InPlaces
    <2>1. p[1] \in Segment /\ p[2] \in DOMAIN disk[p[1]].items
        BY InPlaces
    <2>2. disk[p[1]].items # <<>>
        BY <2>1, ItemAtType DEF TypeOK
    <2> QED
        BY <2>2 DEF Exists
<1>2. CASE S = {}
    BY <1>1, <1>2 DEF Latest
<1>3. CASE S # {}
    <2> DEFINE last == CHOOSE s \in Segment :
                            Exists(s) /\ \A t \in Segment : Exists(t) => t <= s
               n == Len(disk[last].items)
    <2>1. IsFiniteSet(S)
        <3>1. IsFiniteSet(Segment)
            BY SegmentIsInterval, FS_Interval DEF Segment
        <3> QED
            BY <3>1, FS_Subset
    <2>2. \E m \in S : \A t \in S : t <= m
        BY <1>3, <2>1, MaximumExists, SegmentIsInterval
    <2>3. last \in Segment /\ Exists(last) /\ \A t \in S : t <= last
        BY <2>2
    <2>4. n \in Nat \ {0} /\ disk[last].items[n] \in Item
        <3>1. n # 0
            BY <2>3, ItemAtType, EmptySeq DEF TypeOK, Exists
        <3> QED
            BY <2>3, <3>1, ItemAtType DEF TypeOK
    <2>5. Latest = disk[last].items[n].index
        BY <1>3 DEF Latest
    <2>6. <<last, n>> \in Places(disk)
        <3>1. n \in DOMAIN disk[last].items
            BY <2>3, <2>4, ItemAtType DEF TypeOK
        <3> HIDE DEF last, n
        <3>2. <<last, n>>[1] = last /\ <<last, n>>[2] = n
            OBVIOUS
        <3> QED
            BY <2>3, <3>1, <3>2, InPlaces
    <2> HIDE DEF last, n
    <2>7. ASSUME NEW p \in Places(disk) PROVE ItemAt(disk, p).index <= Latest
        <3>1. /\ p = <<p[1], p[2]>> /\ p[1] \in Segment
              /\ p[2] \in 1..Len(disk[p[1]].items)
              /\ p[1] <= last
            BY <1>1, <2>3, InPlaces, ItemAtType DEF TypeOK
        <3>2. p[1] \in Nat /\ last \in Nat
            BY <2>3, <3>1, SegmentIsInterval
        <3>3. CASE p = <<last, n>>
            BY <2>4, <2>5, <3>3 DEF ItemAt, Item, Index
        <3>4. CASE p # <<last, n>>
            <4>1. Before(p, <<last, n>>)
                BY <3>1, <3>2, <3>4, <2>4 DEF Before, n
            <4>2. ItemAt(disk, p).index < ItemAt(disk, <<last, n>>).index
                BY <2>6, <4>1 DEF IndexesAscend
            <4>3. ItemAt(disk, p) \in Item
                BY <3>1, ItemAtType DEF TypeOK, ItemAt
            <4> QED
                BY <2>4, <2>5, <4>2, <4>3 DEF ItemAt, Item, Index
        <3> QED
            BY <3>3, <3>4
    <2>8. ItemAt(disk, <<last, n>>).index = Latest
        BY <2>5 DEF ItemAt
    <2> QED
        BY <2>4, <2>5, <2>6, <2>7, <2>8 DEF Item, Index
<1> QED
    BY <1>2, <1>3

----------------------------------------------------------------------------
\* Changing a file in memory.

\* The list that takes the new item is one longer and keeps the others (the copy
\* loop of appendLocked).
LEMMA AppendItemProperties ==
    ASSUME NEW file \in File, NEW item \in Item
    PROVE  /\ AppendItem(file, item) \in File
           /\ Len(AppendItem(file, item).items) = Len(file.items) + 1
           /\ \A j \in 1..Len(file.items) : AppendItem(file, item).items[j] = file.items[j]
           /\ AppendItem(file, item).items[Len(file.items) + 1] = item
    BY AppendProperties DEF AppendItem, File

\* Overlaping an item takes it off the top and changes nothing else of the list
\* (SetStatus in appendLocked).
LEMMA MarkOverlapedProperties ==
    ASSUME NEW file \in File, NEW j \in 1..Len(file.items)
    PROVE  /\ MarkOverlaped(file, j) \in File
           /\ Len(MarkOverlaped(file, j).items) = Len(file.items)
           /\ \A n \in 1..Len(file.items) :
                MarkOverlaped(file, j).items[n] =
                    IF n = j THEN [file.items[n] EXCEPT !.ontop = FALSE] ELSE file.items[n]
<1> DEFINE items == file.items
           new == [items EXCEPT ![j].ontop = FALSE]
           item == [items[j] EXCEPT !.ontop = FALSE]
<1>1. items \in Seq(Item) /\ items[j] \in Item
    BY ElementOfSeq DEF File
<1>2. item \in Item
    BY <1>1 DEF Item
<1>3. new = [items EXCEPT ![j] = item]
    BY <1>1
<1>4. /\ new \in Seq(Item)
      /\ Len(new) = Len(items)
      /\ \A n \in 1..Len(items) : new[n] = IF n = j THEN item ELSE items[n]
    BY <1>1, <1>2, <1>3, ExceptSeq
<1>5. MarkOverlaped(file, j).items = new /\ MarkOverlaped(file, j).notOverlap \in Nat
    BY DEF MarkOverlaped, File
<1>6. MarkOverlaped(file, j) \in File
    BY <1>4, <1>5 DEF MarkOverlaped, File
<1> QED
    BY <1>4, <1>5, <1>6

\* With at most one item of the key on top, the backward search finds it.
LEMMA NearestIsOntop ==
    ASSUME AtMostOneOntop, NEW k \in Key, OntopAt(disk, k) # {}
    PROVE  /\ Nearest(OntopAt(disk, k)) \in OntopAt(disk, k)
           /\ \A p \in OntopAt(disk, k) : p = Nearest(OntopAt(disk, k))
    BY DEF AtMostOneOntop, Nearest

----------------------------------------------------------------------------
\* The inductive invariant.  That a key is on top once holds between the two
\* renames of an append only because of what the append is about to write, so
\* WriterInv is part of it; LatestIsNewest, hence the order, keeps it all going.

Inv ==
    /\ TypeOK
    /\ IndexesAscend
    /\ AtMostOneOntop
    /\ WriterInv

\* An empty directory satisfies the invariant.
LEMMA InitInv == Init => Inv
<1> SUFFICES ASSUME Init PROVE Inv
    OBVIOUS
<1>1. NewSegment \in File /\ NewSegment.items = <<>>
    BY EmptySeq DEF NewSegment, File
<1>2. TypeOK /\ WriterInv
    BY <1>1 DEF Init, TypeOK, WriterInv
<1>3. Places(disk) = {}
    <2> SUFFICES ASSUME NEW p \in Places(disk) PROVE FALSE
        OBVIOUS
    <2>1. p[1] \in Segment /\ p[2] \in DOMAIN disk[p[1]].items
        BY InPlaces
    <2>2. disk[p[1]].items = <<>>
        BY <1>1, <2>1 DEF Init
    <2> QED
        BY <2>1, <2>2
<1> QED
    BY <1>2, <1>3 DEF Inv, IndexesAscend, AtMostOneOntop, OntopAt

\* Marking the old item leaves every item in place, and k is nowhere on top.
LEMMA MarkedProperties ==
    ASSUME Inv, NEW k \in Key
    PROVE  /\ Marked(k) \in [Segment -> File]
           /\ \A s \in Segment :
                /\ Len(Marked(k)[s].items) = Len(disk[s].items)
                /\ \A j \in 1..Len(disk[s].items) :
                        Marked(k)[s].items[j] = OverlapedBy(disk[s].items[j], k)
<1> DEFINE places == OntopAt(disk, k)
           old == Nearest(places)
           Now(s, j) == disk[s].items[j]
<1>1. disk \in [Segment -> File]
    BY DEF Inv, TypeOK
<1>2. ASSUME NEW s \in Segment, NEW j \in 1..Len(disk[s].items)
      PROVE  /\ Now(s, j) \in Item
             /\ <<s, j>> \in places <=> Now(s, j).ontop /\ Now(s, j).key = k
    <2>1. Now(s, j) \in Item /\ j \in DOMAIN disk[s].items
        BY <1>1, <1>2, ItemAtType
    <2>2. <<s, j>> \in Places(disk)
        BY <2>1, InPlaces
    <2>3. ItemAt(disk, <<s, j>>) = Now(s, j)
        BY DEF ItemAt
    <2> QED
        BY <2>1, <2>2, <2>3 DEF OntopAt
<1>3. ASSUME NEW s \in Segment, NEW j \in 1..Len(disk[s].items)
      PROVE  OverlapedBy(Now(s, j), k) =
                IF <<s, j>> \in places THEN [Now(s, j) EXCEPT !.ontop = FALSE] ELSE Now(s, j)
    <2>1. Now(s, j) \in Item
        BY <1>2, <1>3
    <2>2. CASE <<s, j>> \in places
        BY <1>2, <1>3, <2>1, <2>2 DEF Item, OverlapedBy
    <2>3. CASE <<s, j>> \notin places
        <3>1. (Now(s, j).ontop /\ Now(s, j).key # k) = Now(s, j).ontop
            BY <1>2, <1>3, <2>1, <2>3 DEF Item
        <3> QED
            BY <2>1, <2>3, <3>1 DEF Item, OverlapedBy
    <2> QED
        BY <2>2, <2>3
<1>4. CASE places = {}
    BY <1>1, <1>3, <1>4, ItemAtType DEF Marked
<1>5. CASE places # {}
    <2>1. old \in places /\ \A p \in places : p = old
        BY <1>5, NearestIsOntop DEF Inv
    <2>2. /\ old = <<old[1], old[2]>> /\ old[1] \in Segment
          /\ old[2] \in 1..Len(disk[old[1]].items)
        BY <1>1, <2>1, InPlaces, ItemAtType DEF OntopAt
    <2> DEFINE new == MarkOverlaped(disk[old[1]], old[2])
    <2>3. Marked(k) = [disk EXCEPT ![old[1]] = new]
        BY <1>5 DEF Marked
    <2>4. /\ new \in File
          /\ Len(new.items) = Len(disk[old[1]].items)
          /\ \A n \in 1..Len(disk[old[1]].items) :
                new.items[n] = IF n = old[2] THEN [Now(old[1], n) EXCEPT !.ontop = FALSE]
                               ELSE Now(old[1], n)
        BY <1>1, <2>2, MarkOverlapedProperties
    <2> HIDE DEF new, places, old
    <2>5. Marked(k) \in [Segment -> File]
        BY <1>1, <2>2, <2>3, <2>4
    <2>6. ASSUME NEW s \in Segment
          PROVE  /\ Len(Marked(k)[s].items) = Len(disk[s].items)
                 /\ \A j \in 1..Len(disk[s].items) : Marked(k)[s].items[j] =
                        IF <<s, j>> \in places THEN [Now(s, j) EXCEPT !.ontop = FALSE]
                        ELSE Now(s, j)
        <3>1. CASE s = old[1]
            <4>1. Marked(k)[s] = new
                BY <1>1, <2>2, <2>3, <3>1
            <4>2. \A j \in 1..Len(disk[s].items) : <<s, j>> \in places <=> j = old[2]
                BY <2>1, <2>2, <3>1
            <4> QED
                BY <2>4, <3>1, <4>1, <4>2
        <3>2. CASE s # old[1]
            <4>1. Marked(k)[s] = disk[s]
                BY <1>1, <2>2, <2>3, <3>2
            <4>2. \A j \in 1..Len(disk[s].items) : <<s, j>> \notin places
                BY <2>1, <2>2, <3>2
            <4> QED
                BY <4>1, <4>2
        <3> QED
            BY <3>1, <3>2
    <2>7. ASSUME NEW s \in Segment, NEW j \in 1..Len(disk[s].items)
          PROVE  Marked(k)[s].items[j] = OverlapedBy(Now(s, j), k)
        <3>1. Marked(k)[s].items[j] =
                IF <<s, j>> \in places THEN [Now(s, j) EXCEPT !.ontop = FALSE] ELSE Now(s, j)
            BY <2>6, <2>7
        <3>2. OverlapedBy(Now(s, j), k) =
                IF <<s, j>> \in places THEN [Now(s, j) EXCEPT !.ontop = FALSE] ELSE Now(s, j)
            BY <1>3, <2>7
        <3> HIDE DEF Now, places
        <3> QED
            BY <3>1, <3>2
    <2> HIDE DEF Now
    <2>8. \A s \in Segment : \A j \in 1..Len(disk[s].items) :
            Marked(k)[s].items[j] = OverlapedBy(Now(s, j), k)
        BY <2>7
    <2> QED
        BY <2>5, <2>6, <2>8 DEF Now
<1> QED
    BY <1>4, <1>5

\* appendLocked, up to its first rename, whatever newer index it is called with.
LEMMA StartKeepsInv ==
    ASSUME Inv, NEW k \in Key, NEW i \in Index, i > Latest,
           writer' = AppendLocked(k, i), UNCHANGED <<disk, torn>>
    PROVE  Inv'
<1> DEFINE places == OntopAt(disk, k)
           old    == Nearest(places)
           last   == IF places = {} THEN 0 ELSE ItemAt(disk, old).index
           item   == [index |-> i, key |-> k, last |-> last, ontop |-> TRUE]
           target == SegmentOf(i)
           dirty  == {target} \cup (IF places = {} THEN {} ELSE {old[1]})
           files  == [Marked(k) EXCEPT ![target] = AppendItem(@, item)]
<1>1. /\ writer' = [dirty |-> dirty, files |-> files, key |-> k, index |-> i]
      /\ writer'.dirty = dirty /\ writer'.files = files
      /\ writer'.key = k /\ writer'.index = i
    BY DEF AppendLocked
<1>2. disk \in [Segment -> File]
    BY DEF Inv, TypeOK
<1>3. target \in Segment
    BY SegmentOfMonotone, SegmentIsInterval DEF Segment, Index
<1>4. ASSUME places # {}
      PROVE  /\ old \in places /\ \A p \in places : p = old
             /\ old[1] \in Segment /\ old[1] <= target
             /\ ItemAt(disk, old).index \in Index
    <2>1. old \in places /\ \A p \in places : p = old
        BY <1>4, NearestIsOntop DEF Inv
    <2>2. old \in Places(disk)
        BY <2>1 DEF OntopAt
    <2>3. old[1] \in Segment /\ ItemAt(disk, old) \in Item
        BY <1>2, <2>2, InPlaces, ItemAtType DEF ItemAt
    <2>4. ItemAt(disk, old).index \in Index /\ ItemAt(disk, old).index <= Latest
        BY <2>2, <2>3, LatestIsNewest DEF Inv, Item
    <2>5. Latest \in 0..MaxIndex
        BY LatestIsNewest DEF Inv
    <2>6. SegmentOf(ItemAt(disk, old).index) <= target
        <3> DEFINE n == ItemAt(disk, old).index
        <3>1. n \in Nat /\ i \in Nat /\ n <= i
            BY <2>4, <2>5 DEF Index
        <3> HIDE DEF n
        <3>2. SegmentOf(n) <= SegmentOf(i)
            BY <3>1, SegmentOfMonotone
        <3> QED
            BY <3>2 DEF n
    <2>7. SegmentOf(ItemAt(disk, old).index) = old[1]
        BY <2>2 DEF Inv, IndexesAscend
    <2> QED
        BY <2>1, <2>3, <2>4, <2>6, <2>7
<1>5. item \in Item
    BY <1>4 DEF Item, Index
<1>6. /\ Marked(k) \in [Segment -> File]
      /\ \A s \in Segment :
            /\ Len(Marked(k)[s].items) = Len(disk[s].items)
            /\ \A j \in 1..Len(disk[s].items) :
                    Marked(k)[s].items[j] = OverlapedBy(disk[s].items[j], k)
    BY MarkedProperties
<1>7. dirty \in (SUBSET Segment) \ {{}}
    BY <1>3, <1>4
<1> DEFINE new == AppendItem(Marked(k)[target], item)
<1>8. /\ new \in File
      /\ Len(new.items) = Len(Marked(k)[target].items) + 1
      /\ \A j \in 1..Len(Marked(k)[target].items) : new.items[j] = Marked(k)[target].items[j]
      /\ new.items[Len(Marked(k)[target].items) + 1] = item
    BY <1>3, <1>5, <1>6, AppendItemProperties
<1>9. files = [Marked(k) EXCEPT ![target] = new]
    OBVIOUS
<1> HIDE DEF files, dirty, new, item, last, target, old, places
<1>10. files \in [Segment -> File]
    BY <1>3, <1>6, <1>8, <1>9
<1>11. files[target] = new /\ \A s \in Segment \ {target} : files[s] = Marked(k)[s]
    BY <1>3, <1>6, <1>9
<1>12. TypeOK'
    <2>1. writer' \in Writing
        BY <1>1, <1>7, <1>10 DEF Writing
    <2> QED
        BY <2>1 DEF Inv, TypeOK, Segment
<1>13. IndexesAscend' /\ AtMostOneOntop'
    BY DEF Inv, IndexesAscend, AtMostOneOntop, OntopAt, Places, ItemAt, Before
<1>14. WriterInv'
    <2>1. SegmentOf(writer'.index) = target
        BY <1>1 DEF target
    <2>2. target \in dirty /\ \A s \in dirty : s <= target
        BY <1>3, <1>4, SegmentIsInterval DEF dirty
    <2>3. \A p \in Places(disk) : ItemAt(disk, p).index < i
        <3> SUFFICES ASSUME NEW p \in Places(disk) PROVE ItemAt(disk, p).index < i
            OBVIOUS
        <3>1. ItemAt(disk, p) \in Item
            BY <1>2, InPlaces, ItemAtType DEF ItemAt
        <3>2. ItemAt(disk, p).index <= Latest /\ Latest \in 0..MaxIndex
            BY LatestIsNewest DEF Inv
        <3> QED
            BY <3>1, <3>2 DEF Item, Index
    <2>4. \A p \in places : p[1] \in dirty /\ \A s \in dirty : p[1] <= s
        BY <1>3, <1>4, SegmentIsInterval DEF dirty
    <2>5. ASSUME NEW s \in Segment
          PROVE  /\ Len(files[s].items) = Len(disk[s].items) + (IF s = target THEN 1 ELSE 0)
                 /\ \A j \in DOMAIN disk[s].items :
                        files[s].items[j] = OverlapedBy(disk[s].items[j], k)
                 /\ s = target => files[s].items[Len(files[s].items)] = item
        <3>1. DOMAIN disk[s].items = 1..Len(disk[s].items) /\ Len(disk[s].items) \in Nat
            BY <1>2, ItemAtType
        <3>2. CASE s = target
            BY <1>3, <1>6, <1>8, <1>11, <3>1, <3>2
        <3>3. CASE s # target
            BY <1>6, <1>11, <3>1, <3>3
        <3> QED
            BY <3>2, <3>3
    <2>6. item.index = i /\ item.key = k /\ item.ontop
        BY DEF item
    <2>7. disk' = disk /\ OntopAt(disk', writer'.key) = places
        BY <1>1 DEF places
    <2>8. /\ SegmentOf(writer'.index) \in writer'.dirty
          /\ \A s \in writer'.dirty : s <= SegmentOf(writer'.index)
          /\ \A p \in Places(disk') : ItemAt(disk', p).index < writer'.index
          /\ \A p \in OntopAt(disk', writer'.key) :
                p[1] \in writer'.dirty /\ \A s \in writer'.dirty : p[1] <= s
        BY <1>1, <2>1, <2>2, <2>3, <2>4, <2>7
    <2>9. ASSUME NEW s \in Segment
          PROVE  LET was == disk'[s].items
                     now == writer'.files[s].items
                 IN  /\ Len(now) = Len(was) + (IF s = SegmentOf(writer'.index) THEN 1 ELSE 0)
                     /\ \A j \in DOMAIN was : now[j] = OverlapedBy(was[j], writer'.key)
                     /\ s = SegmentOf(writer'.index) =>
                            LET it == now[Len(now)]
                            IN  it.index = writer'.index /\ it.key = writer'.key /\ it.ontop
        <3>1. /\ disk'[s].items = disk[s].items
              /\ writer'.files[s].items = files[s].items
              /\ writer'.key = k /\ writer'.index = i
              /\ SegmentOf(writer'.index) = target
            BY <1>1, <2>1, <2>7
        <3>2. Len(writer'.files[s].items) =
                Len(disk'[s].items) + (IF s = SegmentOf(writer'.index) THEN 1 ELSE 0)
            BY <2>5, <3>1
        <3>3. \A j \in DOMAIN disk'[s].items :
                writer'.files[s].items[j] = OverlapedBy(disk'[s].items[j], writer'.key)
            BY <2>5, <3>1
        <3>4. s = SegmentOf(writer'.index) =>
                LET it == writer'.files[s].items[Len(writer'.files[s].items)]
                IN  it.index = writer'.index /\ it.key = writer'.key /\ it.ontop
            BY <2>5, <2>6, <3>1
        <3> QED
            BY <3>2, <3>3, <3>4
    <2> QED
        BY <2>8, <2>9 DEF WriterInv
<1> QED
    BY <1>12, <1>13, <1>14 DEF Inv

\* Of two dirty files the lower comes first, and the target is the last.
LEMMA NextDirtyIsLowest ==
    ASSUME Inv, writer # Idle
    PROVE  LET s == NextDirty(writer.dirty)
               target == SegmentOf(writer.index)
           IN  /\ s \in writer.dirty /\ s \in Segment /\ target \in Segment
               /\ \A t \in writer.dirty : s <= t
               /\ target \in writer.dirty /\ s <= target
               /\ writer.dirty \ {s} = {} <=> s = target
<1>1. writer \in Writing
    BY DEF Inv, TypeOK
<1>2. writer.dirty # {} /\ writer.dirty \subseteq Segment /\ writer.dirty \subseteq Nat
    BY <1>1, SegmentIsInterval DEF Writing
<1>3. IsFiniteSet(Segment)
    BY SegmentIsInterval, FS_Interval DEF Segment
<1>4. \E s \in writer.dirty : \A t \in writer.dirty : s <= t
    <2>1. IsFiniteSet(writer.dirty)
        BY <1>2, <1>3, FS_Subset
    <2> QED
        BY <1>2, <2>1, MinimumExists
<1>5. /\ NextDirty(writer.dirty) \in writer.dirty
      /\ \A t \in writer.dirty : NextDirty(writer.dirty) <= t
    BY <1>4 DEF NextDirty
<1>6. /\ SegmentOf(writer.index) \in writer.dirty
      /\ \A t \in writer.dirty : t <= SegmentOf(writer.index)
    BY DEF Inv, WriterInv
<1> HIDE DEF NextDirty
<1> QED
    BY <1>2, <1>5, <1>6

\* What a rename leaves in the log: the old places, with the item OverlapedBy the
\* key of the append if it is in the file s just written, and the fresh one if s is
\* the file of the new item.
LEMMA PlacesAfterWrite ==
    ASSUME Inv, WriteSegment
    PROVE  LET k      == writer.key
               s      == NextDirty(writer.dirty)
               target == SegmentOf(writer.index)
               fresh  == <<target, Len(disk[target].items) + 1>>
           IN  /\ \A p \in Places(disk') :
                    \/ /\ p \in Places(disk)
                       /\ ItemAt(disk', p) = IF p[1] = s THEN OverlapedBy(ItemAt(disk, p), k)
                                             ELSE ItemAt(disk, p)
                    \/ /\ p = fresh /\ s = target
                       /\ ItemAt(disk', p).index = writer.index
                       /\ ItemAt(disk', p).key = k
                       /\ ItemAt(disk', p).ontop
               /\ \A p \in Places(disk) :
                    /\ p \in Places(disk')
                    /\ ItemAt(disk', p) \in {OverlapedBy(ItemAt(disk, p), k), ItemAt(disk, p)}
               /\ s = target =>
                    /\ fresh \in Places(disk') /\ fresh \notin Places(disk)
                    /\ ItemAt(disk', fresh) =
                            writer.files[target].items[Len(writer.files[target].items)]
                    /\ ItemAt(disk', fresh).index = writer.index
                    /\ ItemAt(disk', fresh).key = k /\ ItemAt(disk', fresh).ontop
<1> DEFINE w      == writer
           k      == writer.key
           s      == NextDirty(writer.dirty)
           target == SegmentOf(writer.index)
           rest   == writer.dirty \ {s}
           files  == writer.files
<1>1. /\ writer # Idle
      /\ disk' = [disk EXCEPT ![s] = files[s]]
      /\ writer' = IF rest = {} THEN Idle ELSE [writer EXCEPT !.dirty = rest]
      /\ torn' \subseteq Key
    <2>1. writer # Idle /\ writer \in Writing /\ torn \subseteq Key
        BY DEF WriteSegment, Inv, TypeOK
    <2> QED
        BY <2>1 DEF WriteSegment, Writing
<1>2. /\ disk \in [Segment -> File] /\ files \in [Segment -> File]
      /\ writer \in Writing /\ k \in Key /\ writer.index \in Index
    BY <1>1 DEF Inv, TypeOK, Writing
<1>3. /\ s \in writer.dirty /\ s \in Segment /\ target \in Segment
      /\ \A t \in writer.dirty : s <= t
      /\ target \in writer.dirty /\ s <= target
      /\ rest = {} <=> s = target
    BY <1>1, NextDirtyIsLowest
<1>4. /\ \A p \in Places(disk) : ItemAt(disk, p).index < writer.index
      /\ \A p \in OntopAt(disk, k) : p[1] \in writer.dirty /\ \A t \in writer.dirty : p[1] <= t
      /\ \A t \in Segment :
            /\ Len(files[t].items) = Len(disk[t].items) + (IF t = target THEN 1 ELSE 0)
            /\ \A j \in DOMAIN disk[t].items :
                    files[t].items[j] = OverlapedBy(disk[t].items[j], k)
            /\ t = target =>
                    LET item == files[t].items[Len(files[t].items)]
                    IN  item.index = writer.index /\ item.key = k /\ item.ontop
    BY <1>1 DEF Inv, WriterInv
<1>5. disk' \in [Segment -> File] /\ disk'[s] = files[s] /\
      \A t \in Segment \ {s} : disk'[t] = disk[t]
    BY <1>1, <1>2, <1>3
<1> HIDE DEF files, rest, target, s, k
<1> DEFINE fresh == <<target, Len(disk[target].items) + 1>>
<1>6. ASSUME NEW p \in Places(disk')
      PROVE  \/ /\ p \in Places(disk)
                /\ ItemAt(disk', p) = IF p[1] = s THEN OverlapedBy(ItemAt(disk, p), k)
                                      ELSE ItemAt(disk, p)
             \/ /\ p = fresh /\ s = target
                /\ ItemAt(disk', p).index = writer.index
                /\ ItemAt(disk', p).key = k
                /\ ItemAt(disk', p).ontop
    <2>1. p = <<p[1], p[2]>> /\ p[1] \in Segment /\ p[2] \in DOMAIN disk'[p[1]].items
        BY InPlaces
    <2>2. CASE p[1] # s
        <3>1. disk'[p[1]] = disk[p[1]]
            BY <1>5, <2>1, <2>2
        <3> QED
            BY <2>1, <2>2, <3>1, InPlaces DEF ItemAt
    <2>3. CASE p[1] = s
        <3>1. /\ DOMAIN disk[s].items = 1..Len(disk[s].items) /\ Len(disk[s].items) \in Nat
              /\ p[2] \in 1..Len(files[s].items) /\ disk'[s] = files[s]
            BY <1>2, <1>3, <1>5, <2>1, <2>3, ItemAtType
        <3>2. CASE p[2] \in 1..Len(disk[s].items)
            <4>1. p \in Places(disk)
                BY <2>1, <2>3, <3>1, <3>2, InPlaces
            <4>2. files[s].items[p[2]] = OverlapedBy(disk[s].items[p[2]], k)
                BY <1>3, <1>4, <3>1, <3>2
            <4> QED
                BY <2>3, <3>1, <4>1, <4>2 DEF ItemAt
        <3>3. CASE p[2] \notin 1..Len(disk[s].items)
            <4>1. s = target /\ p[2] = Len(files[s].items) /\ p[2] = Len(disk[s].items) + 1
                <5>1. Len(files[s].items) = Len(disk[s].items) + (IF s = target THEN 1 ELSE 0)
                    BY <1>3, <1>4
                <5>2. Len(files[s].items) \in Nat
                    BY <1>2, <1>3, ItemAtType
                <5>3. CASE s = target
                    BY <3>1, <3>3, <5>1, <5>2, <5>3
                <5>4. CASE s # target
                    BY <3>1, <3>3, <5>1, <5>2, <5>4
                <5> QED
                    BY <5>3, <5>4
            <4>2. p = fresh
                BY <2>1, <2>3, <4>1
            <4>3. ItemAt(disk', p) = files[target].items[Len(files[target].items)]
                BY <2>3, <3>1, <4>1 DEF ItemAt
            <4> QED
                BY <1>3, <1>4, <4>1, <4>2, <4>3
        <3> QED
            BY <3>2, <3>3
    <2> QED
        BY <2>2, <2>3
<1>7. ASSUME NEW p \in Places(disk)
      PROVE  /\ p \in Places(disk')
             /\ ItemAt(disk', p) \in {OverlapedBy(ItemAt(disk, p), k), ItemAt(disk, p)}
    <2>1. p = <<p[1], p[2]>> /\ p[1] \in Segment /\ p[2] \in DOMAIN disk[p[1]].items
        BY InPlaces
    <2>2. CASE p[1] # s
        <3>1. disk'[p[1]] = disk[p[1]]
            BY <1>5, <2>1, <2>2
        <3> QED
            BY <2>1, <3>1, InPlaces DEF ItemAt
    <2>3. CASE p[1] = s
        <3>1. /\ DOMAIN disk[s].items = 1..Len(disk[s].items) /\ Len(disk[s].items) \in Nat
              /\ DOMAIN files[s].items = 1..Len(files[s].items) /\ Len(files[s].items) \in Nat
            BY <1>2, <1>3, ItemAtType
        <3>2. Len(files[s].items) >= Len(disk[s].items)
            <4>1. Len(files[s].items) = Len(disk[s].items) + (IF s = target THEN 1 ELSE 0)
                BY <1>3, <1>4
            <4>2. CASE s = target
                BY <3>1, <4>1, <4>2
            <4>3. CASE s # target
                BY <3>1, <4>1, <4>3
            <4> QED
                BY <4>2, <4>3
        <3>3. p[2] \in DOMAIN disk[s].items
            BY <2>1, <2>3
        <3>4. p[2] \in DOMAIN files[s].items
            <4>1. PICK m, n \in Nat : m = Len(disk[s].items) /\ n = Len(files[s].items)
                BY <3>1
            <4>2. p[2] \in 1..m /\ m <= n
                BY <3>1, <3>2, <3>3, <4>1
            <4>3. p[2] \in 1..n
                BY <4>2
            <4> QED
                BY <3>1, <4>1, <4>3
        <3>5. files[s].items[p[2]] = OverlapedBy(disk[s].items[p[2]], k)
            BY <1>3, <1>4, <3>3
        <3> QED
            BY <1>5, <2>1, <2>3, <3>4, <3>5, InPlaces DEF ItemAt
    <2> QED
        BY <2>2, <2>3
<1>8. ASSUME s = target
      PROVE  /\ fresh \in Places(disk') /\ fresh \notin Places(disk)
             /\ ItemAt(disk', fresh) = files[target].items[Len(files[target].items)]
             /\ ItemAt(disk', fresh).index = writer.index
             /\ ItemAt(disk', fresh).key = k /\ ItemAt(disk', fresh).ontop
    <2>1. Len(files[target].items) = Len(disk[target].items) + 1
        BY <1>3, <1>4
    <2>2. /\ DOMAIN files[target].items = 1..Len(files[target].items)
          /\ Len(files[target].items) \in Nat /\ Len(disk[target].items) \in Nat
        BY <1>2, <1>3, ItemAtType
    <2>3. fresh[1] = target /\ fresh[2] = Len(files[target].items)
        BY <2>1
    <2>4. disk'[target] = files[target] /\ fresh[2] \in DOMAIN files[target].items
        BY <1>5, <1>8, <2>1, <2>2, <2>3
    <2>5. fresh \in Places(disk')
        BY <1>3, <2>3, <2>4, InPlaces
    <2>6. fresh \notin Places(disk)
        <3>1. DOMAIN disk[target].items = 1..Len(disk[target].items)
            BY <1>2, <1>3, ItemAtType
        <3>2. fresh[2] \notin DOMAIN disk[target].items
            BY <2>1, <2>2, <2>3, <3>1
        <3> QED
            BY <2>3, <3>2, InPlaces
    <2>7. ItemAt(disk', fresh) = files[target].items[Len(files[target].items)]
        BY <2>3, <2>4 DEF ItemAt
    <2>8. LET item == files[target].items[Len(files[target].items)]
          IN  item.index = writer.index /\ item.key = k /\ item.ontop
        BY <1>3, <1>4
    <2> QED
        BY <2>5, <2>6, <2>7, <2>8
<1> QED
    BY <1>6, <1>7, <1>8 DEF k, s, target, files

\* One rename.
LEMMA WriteKeepsInv == Inv /\ WriteSegment => Inv'
<1> SUFFICES ASSUME Inv, WriteSegment PROVE Inv'
    OBVIOUS
<1> DEFINE w      == writer
           k      == writer.key
           s      == NextDirty(writer.dirty)
           target == SegmentOf(writer.index)
           rest   == writer.dirty \ {s}
           files  == writer.files
<1>1. /\ writer # Idle
      /\ disk' = [disk EXCEPT ![s] = files[s]]
      /\ writer' = IF rest = {} THEN Idle ELSE [writer EXCEPT !.dirty = rest]
      /\ torn' \subseteq Key
    <2>1. writer # Idle /\ writer \in Writing /\ torn \subseteq Key
        BY DEF WriteSegment, Inv, TypeOK
    <2> QED
        BY <2>1 DEF WriteSegment, Writing
<1>2. /\ disk \in [Segment -> File] /\ files \in [Segment -> File]
      /\ writer \in Writing /\ k \in Key /\ writer.index \in Index
    BY <1>1 DEF Inv, TypeOK, Writing
<1>3. /\ s \in writer.dirty /\ s \in Segment /\ target \in Segment
      /\ \A t \in writer.dirty : s <= t
      /\ target \in writer.dirty /\ s <= target
      /\ rest = {} <=> s = target
    BY <1>1, NextDirtyIsLowest
<1>4. /\ \A p \in Places(disk) : ItemAt(disk, p).index < writer.index
      /\ \A p \in OntopAt(disk, k) : p[1] \in writer.dirty /\ \A t \in writer.dirty : p[1] <= t
      /\ \A t \in Segment :
            /\ Len(files[t].items) = Len(disk[t].items) + (IF t = target THEN 1 ELSE 0)
            /\ \A j \in DOMAIN disk[t].items :
                    files[t].items[j] = OverlapedBy(disk[t].items[j], k)
            /\ t = target =>
                    LET item == files[t].items[Len(files[t].items)]
                    IN  item.index = writer.index /\ item.key = k /\ item.ontop
    BY <1>1 DEF Inv, WriterInv
<1>5. disk' \in [Segment -> File] /\ disk'[s] = files[s] /\
      \A t \in Segment \ {s} : disk'[t] = disk[t]
    BY <1>1, <1>2, <1>3
<1> HIDE DEF files, rest, target, s, k
\* The new place, if this rename stores the new item.
<1> DEFINE fresh == <<target, Len(disk[target].items) + 1>>
\* What is in the log afterwards.
<1>6. ASSUME NEW p \in Places(disk')
      PROVE  \/ /\ p \in Places(disk)
                /\ ItemAt(disk', p) = IF p[1] = s THEN OverlapedBy(ItemAt(disk, p), k)
                                      ELSE ItemAt(disk, p)
             \/ /\ p = fresh /\ s = target
                /\ ItemAt(disk', p).index = writer.index
                /\ ItemAt(disk', p).key = k
                /\ ItemAt(disk', p).ontop
    BY <1>1, PlacesAfterWrite DEF k, s, target
<1>7. ASSUME NEW p \in Places(disk)
      PROVE  /\ ItemAt(disk, p) \in Item /\ p[1] \in Segment
             /\ p = <<p[1], p[2]>> /\ p[2] \in 1..Len(disk[p[1]].items)
             /\ OverlapedBy(ItemAt(disk, p), k) \in Item
             /\ OverlapedBy(ItemAt(disk, p), k).index = ItemAt(disk, p).index
             /\ OverlapedBy(ItemAt(disk, p), k).key = ItemAt(disk, p).key
             /\ OverlapedBy(ItemAt(disk, p), k).ontop =>
                    ItemAt(disk, p).ontop /\ ItemAt(disk, p).key # k
    <2>1. /\ p = <<p[1], p[2]>> /\ p[1] \in Segment
          /\ p[2] \in 1..Len(disk[p[1]].items) /\ ItemAt(disk, p) \in Item
        BY <1>2, InPlaces, ItemAtType DEF ItemAt
    <2> QED
        BY <2>1 DEF OverlapedBy, Item
<1>8. /\ target \in Nat /\ s \in Nat /\ writer.index \in Nat
      /\ Len(disk[target].items) \in Nat /\ Segment \subseteq Nat
    BY <1>2, <1>3, ItemAtType, SegmentIsInterval DEF Index
<1>9. TypeOK'
    <2>1. writer' \in Writing \cup {Idle}
        BY <1>1, <1>2, <1>3 DEF Writing, rest
    <2>2. disk' \in [Segment -> File]
        BY <1>5
    <2> QED
        BY <1>1, <2>1, <2>2 DEF TypeOK, Segment
\* An old item that is the newest of the log is never behind the fresh place.
<1>10. ASSUME NEW q \in Places(disk) PROVE q[1] <= target
    <2>1. ItemAt(disk, q).index < writer.index /\ SegmentOf(ItemAt(disk, q).index) = q[1]
        BY <1>4 DEF Inv, IndexesAscend
    <2>2. ItemAt(disk, q).index \in Nat
        BY <1>7 DEF Item, Index
    <2> QED
        BY <1>8, <2>1, <2>2, SegmentOfMonotone DEF target
<1>11. IndexesAscend'
    <2>1. ASSUME NEW p \in Places(disk'), NEW q \in Places(disk'), Before(p, q)
          PROVE  ItemAt(disk', p).index < ItemAt(disk', q).index
        <3>1. CASE p \in Places(disk) /\ q \in Places(disk)
            <4>1. ItemAt(disk, p).index < ItemAt(disk, q).index
                BY <2>1, <3>1 DEF Inv, IndexesAscend
            <4>2. /\ \/ ItemAt(disk', p) = OverlapedBy(ItemAt(disk, p), k)
                     \/ ItemAt(disk', p) = ItemAt(disk, p)
                     \/ ItemAt(disk', p).index = writer.index /\ p = fresh
                  /\ \/ ItemAt(disk', q) = OverlapedBy(ItemAt(disk, q), k)
                     \/ ItemAt(disk', q) = ItemAt(disk, q)
                     \/ ItemAt(disk', q).index = writer.index /\ q = fresh
                BY <1>6
            <4>3. p # fresh /\ q # fresh
                BY <1>7, <1>8, <3>1
            <4> QED
                BY <1>7, <3>1, <4>1, <4>2, <4>3
        <3>2. CASE p \in Places(disk) /\ q \notin Places(disk)
            <4>1. ItemAt(disk', q).index = writer.index
                BY <1>6, <3>2
            <4>2. p # fresh
                BY <1>7, <1>8, <3>2
            <4>3. ItemAt(disk', p).index = ItemAt(disk, p).index
                BY <1>6, <1>7, <3>2, <4>2
            <4> QED
                BY <1>4, <3>2, <4>1, <4>3
        <3>3. CASE p \notin Places(disk) /\ q \in Places(disk)
            <4>1. p = fresh
                BY <1>6, <3>3
            <4>2. q[1] \in Nat /\ q[2] \in Nat /\ q[1] <= target /\
                  q[2] \in 1..Len(disk[q[1]].items)
                BY <1>7, <1>8, <1>10, <3>3
            <4> QED
                BY <1>8, <2>1, <4>1, <4>2 DEF Before
        <3>4. CASE p \notin Places(disk) /\ q \notin Places(disk)
            BY <1>6, <1>8, <2>1, <3>4 DEF Before
        <3> QED
            BY <3>1, <3>2, <3>3, <3>4
    <2>2. ASSUME NEW p \in Places(disk')
          PROVE  SegmentOf(ItemAt(disk', p).index) = p[1]
        <3>1. CASE p \in Places(disk) /\ p # fresh
            <4>1. ItemAt(disk', p).index = ItemAt(disk, p).index
                BY <1>6, <1>7, <3>1
            <4> QED
                BY <3>1, <4>1 DEF Inv, IndexesAscend
        <3>2. CASE p \notin Places(disk) \/ p = fresh
            <4>1. p = fresh /\ ItemAt(disk', p).index = writer.index
                BY <1>6, <1>7, <1>8, <3>2
            <4> QED
                BY <4>1 DEF target
        <3> QED
            BY <3>1, <3>2
    <2> QED
        BY <2>1, <2>2 DEF IndexesAscend
<1>12. AtMostOneOntop'
    <2> SUFFICES ASSUME NEW h \in Key, NEW p \in OntopAt(disk', h), NEW q \in OntopAt(disk', h)
                 PROVE  p = q
        BY DEF AtMostOneOntop
    <2>1. ASSUME NEW r \in OntopAt(disk', h)
          PROVE  \/ h # k /\ r \in OntopAt(disk, h)
                 \/ h = k /\ r = fresh
        <3>1. /\ r \in Places(disk') /\ ItemAt(disk', r).key = h /\ ItemAt(disk', r).ontop
            BY <2>1 DEF OntopAt
        <3>2. CASE r \in Places(disk) /\ r[1] = s
            <4>1. r # fresh
                BY <1>7, <1>8, <3>2
            <4>2. ItemAt(disk', r) = OverlapedBy(ItemAt(disk, r), k)
                BY <1>6, <3>1, <3>2, <4>1
            <4> QED
                BY <1>7, <3>1, <3>2, <4>2 DEF OntopAt
        <3>3. CASE r \in Places(disk) /\ r[1] # s
            <4>1. r # fresh
                BY <1>7, <1>8, <3>3
            <4>2. ItemAt(disk', r) = ItemAt(disk, r)
                BY <1>6, <3>1, <3>3, <4>1
            <4>3. r \in OntopAt(disk, h)
                BY <3>1, <3>3, <4>2 DEF OntopAt
            <4>4. h # k
                <5>1. r \in OntopAt(disk, k) => r[1] <= s /\ s <= r[1]
                    BY <1>3, <1>4
                <5>2. r[1] \in Nat
                    BY <1>7, <1>8, <3>3
                <5> QED
                    BY <1>8, <3>3, <4>3, <5>1, <5>2
            <4> QED
                BY <4>3, <4>4
        <3>4. CASE r \notin Places(disk)
            BY <1>6, <3>1, <3>4
        <3> QED
            BY <3>2, <3>3, <3>4
    <2>2. CASE h # k
        BY <2>1, <2>2 DEF Inv, AtMostOneOntop
    <2>3. CASE h = k
        BY <2>1, <2>3
    <2> QED
        BY <2>2, <2>3
\* While a file is left to write, the file just renamed was not the target.
<1>13. WriterInv'
    <2>1. CASE rest = {}
        BY <1>1, <2>1 DEF WriterInv
    <2>2. CASE rest # {}
        <3>1. /\ writer'.dirty = rest /\ writer'.files = files
              /\ writer'.key = k /\ writer'.index = writer.index
            BY <1>1, <1>2, <2>2 DEF Writing, files, k
        <3>2. s # target /\ target \in rest /\ \A t \in rest : t <= target
            <4>1. \A t \in writer.dirty : t <= target
                BY <1>1 DEF Inv, WriterInv, target
            <4> QED
                BY <1>3, <2>2, <4>1 DEF rest
        <3>3. \A p \in Places(disk') : ItemAt(disk', p).index < writer.index
            BY <1>4, <1>6, <1>7, <3>2
        <3>4. OntopAt(disk', k) = {}
            <4> SUFFICES ASSUME NEW p \in OntopAt(disk', k) PROVE FALSE
                OBVIOUS
            <4>1. p \in Places(disk) /\ ItemAt(disk', p).key = k /\ ItemAt(disk', p).ontop
                BY <1>6, <3>2 DEF OntopAt
            <4>2. p[1] # s
                BY <1>6, <1>7, <3>2, <4>1 DEF OntopAt
            <4>3. p \in OntopAt(disk, k)
                BY <1>6, <3>2, <4>1, <4>2 DEF OntopAt
            <4>4. p[1] <= s /\ s <= p[1] /\ p[1] \in Nat
                BY <1>3, <1>4, <1>7, <1>8, <4>1, <4>3
            <4> QED
                BY <1>8, <4>2, <4>4
        <3>5. ASSUME NEW t \in Segment
              PROVE  /\ Len(files[t].items) = Len(disk'[t].items) + (IF t = target THEN 1 ELSE 0)
                     /\ \A j \in DOMAIN disk'[t].items :
                            files[t].items[j] = OverlapedBy(disk'[t].items[j], k)
                     /\ t = target =>
                            LET item == files[t].items[Len(files[t].items)]
                            IN  item.index = writer.index /\ item.key = k /\ item.ontop
            <4>1. CASE t # s
                BY <1>4, <1>5, <4>1
            <4>2. CASE t = s
                <5>1. disk'[t] = files[t] /\ t # target
                    BY <1>5, <3>2, <4>2
                <5>2. /\ Len(files[t].items) = Len(disk[t].items)
                      /\ DOMAIN disk[t].items = 1..Len(disk[t].items)
                      /\ DOMAIN files[t].items = 1..Len(files[t].items)
                      /\ Len(disk[t].items) \in Nat
                    <6>1. /\ DOMAIN disk[t].items = 1..Len(disk[t].items)
                          /\ DOMAIN files[t].items = 1..Len(files[t].items)
                          /\ Len(disk[t].items) \in Nat
                        BY <1>2, ItemAtType
                    <6>2. Len(files[t].items) = Len(disk[t].items) + (IF t = target THEN 1 ELSE 0)
                        BY <1>4
                    <6> QED
                        BY <5>1, <6>1, <6>2
                <5>3. ASSUME NEW j \in DOMAIN files[t].items
                      PROVE  files[t].items[j] = OverlapedBy(files[t].items[j], k)
                    <6>1. /\ j \in DOMAIN disk[t].items /\ disk[t].items[j] \in Item
                          /\ files[t].items[j] = OverlapedBy(disk[t].items[j], k)
                        BY <1>2, <1>4, <5>2, <5>3, ItemAtType
                    <6> QED
                        BY <6>1 DEF OverlapedBy, Item
                <5> QED
                    BY <5>1, <5>2, <5>3
            <4> QED
                BY <4>1, <4>2
        <3>6. SegmentOf(writer'.index) = target
            BY <3>1 DEF target
        <3>7. /\ SegmentOf(writer'.index) \in writer'.dirty
              /\ \A t \in writer'.dirty : t <= SegmentOf(writer'.index)
              /\ \A p \in Places(disk') : ItemAt(disk', p).index < writer'.index
              /\ \A p \in OntopAt(disk', writer'.key) :
                    p[1] \in writer'.dirty /\ \A t \in writer'.dirty : p[1] <= t
            BY <3>1, <3>2, <3>3, <3>4, <3>6
        <3>8. \A t \in Segment :
                /\ Len(writer'.files[t].items) =
                        Len(disk'[t].items) + (IF t = SegmentOf(writer'.index) THEN 1 ELSE 0)
                /\ \A j \in DOMAIN disk'[t].items :
                        writer'.files[t].items[j] = OverlapedBy(disk'[t].items[j], writer'.key)
                /\ t = SegmentOf(writer'.index) =>
                        LET item == writer'.files[t].items[Len(writer'.files[t].items)]
                        IN  item.index = writer'.index /\ item.key = writer'.key /\ item.ontop
            BY <3>1, <3>5, <3>6
        <3> QED
            BY <3>7, <3>8 DEF WriterInv
    <2> QED
        BY <2>1, <2>2
<1> QED
    BY <1>9, <1>11, <1>12, <1>13 DEF Inv

\* So does every operation of either user of the log.
LEMMA NextKeepsInv == Inv /\ [MasterNext \/ AgentNext]_vars => Inv'
<1> SUFFICES ASSUME Inv, [MasterNext \/ AgentNext]_vars PROVE Inv'
    OBVIOUS
<1>1. ASSUME NEW k \in Key, StartAppend(k) PROVE Inv'
    <2>1. NextIndex \in Index /\ NextIndex > Latest
        BY <1>1, LatestIsNewest DEF StartAppend, NextIndex, Index, Inv
    <2> QED
        BY <1>1, <2>1, StartKeepsInv DEF StartAppend
<1>2. ASSUME NEW k \in Key, NEW i \in Index, StartAppendApplied(k, i) PROVE Inv'
    <2>1. i > Latest
        BY <1>2, LatestIsNewest DEF StartAppendApplied, AlreadyApplied, Index, Inv
    <2> QED
        BY <1>2, <2>1, StartKeepsInv DEF StartAppendApplied
<1>3. CASE WriteSegment
    BY <1>3, WriteKeepsInv
<1>4. CASE AbandonAppend
    <2>1. writer' = Idle /\ UNCHANGED <<disk, torn>>
        BY <1>4 DEF AbandonAppend
    <2>2. TypeOK' /\ WriterInv'
        BY <2>1 DEF Inv, TypeOK, WriterInv, Segment
    <2>3. IndexesAscend' /\ AtMostOneOntop'
        BY <2>1 DEF Inv, IndexesAscend, AtMostOneOntop, OntopAt, Places, ItemAt, Before
    <2> QED
        BY <2>2, <2>3 DEF Inv
<1>5. CASE UNCHANGED vars
    <2>1. disk' = disk /\ writer' = writer /\ torn' = torn
        BY <1>5 DEF vars
    <2>2. TypeOK' /\ IndexesAscend' /\ AtMostOneOntop'
        BY <2>1 DEF Inv, TypeOK, IndexesAscend, AtMostOneOntop, OntopAt, Places, ItemAt,
            Before, Segment
    <2>3. WriterInv'
        BY <2>1 DEF Inv, WriterInv
    <2> QED
        BY <2>2, <2>3 DEF Inv
<1> QED
    BY <1>1, <1>2, <1>3, <1>4, <1>5 DEF MasterNext, AgentNext

----------------------------------------------------------------------------
\* The invariants, for the master's log and for an agent's.

\* The inductive invariant holds of the master's log (FileWAL.Append) ...
THEOREM MasterInv == MasterSpec => []Inv
<1>1. Inv /\ [MasterNext]_vars => Inv'
    BY NextKeepsInv
<1> QED
    BY <1>1, InitInv, PTL DEF MasterSpec

\* ... and of an agent's (FileWAL.AppendApplied).
THEOREM AgentInv == AgentSpec => []Inv
<1>1. Inv /\ [AgentNext]_vars => Inv'
    BY NextKeepsInv
<1> QED
    BY <1>1, InitInv, PTL DEF AgentSpec

\* Type correctness of the master's log.
THEOREM MasterTyping == MasterSpec => []TypeOK
<1>1. Inv => TypeOK
    BY DEF Inv
<1> QED
    BY <1>1, MasterInv, PTL

\* No step of the master's log, failed writes included, leaves two items of one
\* key on top.
THEOREM MasterOneOntop == MasterSpec => []AtMostOneOntop
<1>1. Inv => AtMostOneOntop
    BY DEF Inv
<1> QED
    BY <1>1, MasterInv, PTL

\* The master's log is in index order and every item is in its own file.
THEOREM MasterAscends == MasterSpec => []IndexesAscend
<1>1. Inv => IndexesAscend
    BY DEF Inv
<1> QED
    BY <1>1, MasterInv, PTL

\* So is an agent's log, whose indexes have holes.
THEOREM AgentAscends == AgentSpec => []IndexesAscend
<1>1. Inv => IndexesAscend
    BY DEF Inv
<1> QED
    BY <1>1, AgentInv, PTL

\* An append in progress is about to write the log plus one item, in an order
\* that a crash cannot turn into two items on top.
THEOREM MasterWriter == MasterSpec => []WriterInv
<1>1. Inv => WriterInv
    BY DEF Inv
<1> QED
    BY <1>1, MasterInv, PTL

----------------------------------------------------------------------------
\* What the appends make of the log as a whole.

\* The indexes in the log.
Indexes == {ItemAt(disk, p).index : p \in Places(disk)}

\* A log without holes ends at the index latestLocked finds.
LEMMA DenseNewest ==
    TypeOK /\ IndexesAscend => \A n \in Nat : Indexes = 1..n => Latest = n
<1> SUFFICES ASSUME TypeOK, IndexesAscend, NEW n \in Nat, Indexes = 1..n PROVE Latest = n
    OBVIOUS
<1>1. /\ Latest \in Nat /\ \A i \in Indexes : i <= Latest
      /\ Latest = 0 \/ Latest \in Indexes
    BY LatestIsNewest DEF Indexes
<1>2. n # 0 => n <= Latest
    BY <1>1
<1> QED
    BY <1>1, <1>2

LEMMA DenseNewestNext ==
    (TypeOK /\ IndexesAscend => \A n \in Nat : Indexes = 1..n => Latest = n)'
BY DenseNewest, PTL

\* What a rename makes of the indexes: that of the append is added with the file
\* that holds the new item.
LEMMA IndexesAfterWrite ==
    ASSUME Inv, WriteSegment
    PROVE  Indexes' = Indexes \cup (IF NextDirty(writer.dirty) = SegmentOf(writer.index)
                                    THEN {writer.index} ELSE {})
<1> DEFINE k      == writer.key
           s      == NextDirty(writer.dirty)
           target == SegmentOf(writer.index)
           fresh  == <<target, Len(disk[target].items) + 1>>
<1>1. ASSUME NEW p \in Places(disk')
      PROVE  \/ p \in Places(disk) /\ ItemAt(disk', p) \in {OverlapedBy(ItemAt(disk, p), k), ItemAt(disk, p)}
             \/ s = target /\ ItemAt(disk', p).index = writer.index
    BY PlacesAfterWrite
<1>2. /\ \A p \in Places(disk) :
            /\ p \in Places(disk')
            /\ ItemAt(disk', p) \in {OverlapedBy(ItemAt(disk, p), k), ItemAt(disk, p)}
      /\ s = target => fresh \in Places(disk') /\ ItemAt(disk', fresh).index = writer.index
    BY PlacesAfterWrite
<1>3. ASSUME NEW p \in Places(disk)
      PROVE  OverlapedBy(ItemAt(disk, p), k).index = ItemAt(disk, p).index
    <2>1. ItemAt(disk, p) \in Item
        BY InPlaces, ItemAtType DEF Inv, TypeOK, ItemAt
    <2> QED
        BY <2>1 DEF OverlapedBy, Item
<1> HIDE DEF k, s, target, fresh
<1>4. Indexes' = {ItemAt(disk', p).index : p \in Places(disk')}
    BY DEF Indexes
<1>5. \A i \in Indexes' : i \in Indexes \/ (s = target /\ i = writer.index)
    BY <1>1, <1>3, <1>4 DEF Indexes
<1>6. \A i \in Indexes : i \in Indexes'
    BY <1>2, <1>3, <1>4 DEF Indexes
<1>7. s = target => writer.index \in Indexes'
    BY <1>2, <1>4
<1> QED
    BY <1>5, <1>6, <1>7 DEF s, target

\* The master numbers with Latest + 1, and the log does not grow before the append
\* that was given the number stores it or gives up.
DenseInv == Inv /\ DenseIndexes /\ (writer # Idle => writer.index = Latest + 1)

LEMMA NextKeepsDense == DenseInv /\ [MasterNext]_vars => DenseInv'
<1> SUFFICES ASSUME DenseInv, [MasterNext]_vars PROVE DenseInv'
    OBVIOUS
<1>1. Inv /\ Inv'
    BY NextKeepsInv DEF DenseInv
<1>2. Latest \in Nat /\ Indexes = 1..Latest
    BY <1>1, LatestIsNewest DEF DenseInv, DenseIndexes, Indexes, Inv
<1>3. \A n \in Nat : Indexes' = 1..n => Latest' = n
    BY <1>1, DenseNewestNext DEF Inv
<1>4. DenseIndexes' <=> Indexes' = 1..Latest'
    BY DEF DenseIndexes, Indexes
<1>5. ASSUME UNCHANGED disk PROVE DenseIndexes' /\ Latest' = Latest
    <2>1. Indexes' = Indexes
        BY <1>5 DEF Indexes, Places, ItemAt
    <2> QED
        BY <1>2, <1>3, <1>4, <2>1
<1>6. ASSUME NEW k \in Key, StartAppend(k) PROVE DenseInv'
    <2>1. UNCHANGED disk /\ writer' = AppendLocked(k, Latest + 1)
        BY <1>6 DEF StartAppend, NextIndex
    <2>2. writer'.index = Latest + 1
        BY <2>1 DEF AppendLocked
    <2> QED
        BY <1>1, <1>5, <2>1, <2>2 DEF DenseInv
<1>7. CASE WriteSegment
    <2> DEFINE s      == NextDirty(writer.dirty)
               target == SegmentOf(writer.index)
               rest   == writer.dirty \ {s}
    <2>1. /\ writer # Idle /\ writer \in Writing
          /\ writer' = IF rest = {} THEN Idle ELSE [writer EXCEPT !.dirty = rest]
        BY <1>1, <1>7 DEF WriteSegment, Inv, TypeOK
    <2>2. writer.index = Latest + 1
        BY <2>1 DEF DenseInv
    <2>3. rest = {} <=> s = target
        BY <1>1, <2>1, NextDirtyIsLowest
    <2>4. Indexes' = Indexes \cup (IF s = target THEN {writer.index} ELSE {})
        BY <1>1, <1>7, IndexesAfterWrite
    <2> HIDE DEF s, target, rest
    <2>5. CASE s = target
        <3>1. Indexes' = 1..(Latest + 1)
            BY <1>2, <2>2, <2>4, <2>5
        <3>2. Latest' = Latest + 1
            BY <1>2, <1>3, <3>1
        <3> QED
            BY <1>1, <1>4, <2>1, <2>3, <2>5, <3>1, <3>2 DEF DenseInv
    <2>6. CASE s # target
        <3>1. Indexes' = 1..Latest /\ Latest' = Latest
            BY <1>2, <1>3, <2>4, <2>6
        <3>2. writer'.index = writer.index
            BY <2>1, <2>3, <2>6 DEF Writing
        <3> QED
            BY <1>1, <1>4, <2>2, <3>1, <3>2 DEF DenseInv
    <2> QED
        BY <2>5, <2>6
<1>8. CASE AbandonAppend
    BY <1>1, <1>5, <1>8 DEF AbandonAppend, DenseInv
<1>9. CASE UNCHANGED vars
    BY <1>1, <1>5, <1>9 DEF vars, DenseInv
<1> QED
    BY <1>6, <1>7, <1>8, <1>9 DEF MasterNext

LEMMA InitDense == Init => DenseInv
<1> SUFFICES ASSUME Init PROVE DenseInv
    OBVIOUS
<1>1. disk = [s \in Segment |-> NewSegment] /\ writer = Idle
    BY DEF Init
<1>2. Places(disk) = {}
    BY <1>1 DEF Places, NewSegment
<1>3. Latest = 0
    BY <1>1 DEF Latest, Exists, NewSegment
<1> QED
    BY <1>1, <1>2, <1>3, InitInv DEF DenseInv, DenseIndexes

\* No append of the master, whatever failed before it, leaves a hole in the log.
THEOREM MasterDenseIndexes == MasterSpec => []DenseIndexes
<1>1. DenseInv => DenseIndexes
    BY DEF DenseInv
<1> QED
    BY <1>1, InitDense, NextKeepsDense, PTL DEF MasterSpec

\* The same where a log may be an agent's: which of the two it is does not change,
\* so that the indexes an agent is given never get into a master's log.
THEOREM UserMasterDense == UserSpec => []MasterDense
<1> DEFINE I == user = "master" => DenseInv
<1>1. UserInit => I
    BY InitDense DEF UserInit
<1>2. I /\ [UserNext]_<<vars, user>> => I'
    <2> SUFFICES ASSUME I, [UserNext]_<<vars, user>>, user' = "master"
                 PROVE  DenseInv'
        OBVIOUS
    <2>1. user = "master"
        BY DEF UserNext
    <2>2. [MasterNext]_vars
        BY <2>1 DEF UserNext
    <2> QED
        BY <2>1, <2>2, NextKeepsDense
<1>3. I => MasterDense
    BY DEF DenseInv, MasterDense
<1> QED
    BY <1>1, <1>2, <1>3, PTL DEF UserSpec

\* No step of either user takes an item out of the log, renumbers it or puts it
\* back on top.
LEMMA NextKeepsHistory ==
    Inv /\ [MasterNext \/ AgentNext]_vars =>
        \A p \in Places(disk) :
            /\ p \in Places(disk)'
            /\ LET old == ItemAt(disk, p)
                   new == ItemAt(disk, p)'
               IN  /\ new.ontop => old.ontop
                   /\ new = [old EXCEPT !.ontop = new.ontop]
<1> SUFFICES ASSUME Inv, [MasterNext \/ AgentNext]_vars, NEW p \in Places(disk)
             PROVE  /\ p \in Places(disk')
                    /\ ItemAt(disk', p).ontop => ItemAt(disk, p).ontop
                    /\ ItemAt(disk', p) = [ItemAt(disk, p) EXCEPT !.ontop = ItemAt(disk', p).ontop]
    BY DEF Places, ItemAt
<1>1. ItemAt(disk, p) \in Item
    BY InPlaces, ItemAtType DEF Inv, TypeOK, ItemAt
<1>2. PICK old \in Item : old = ItemAt(disk, p)
    BY <1>1
<1>3. CASE WriteSegment
    <2>1. /\ p \in Places(disk')
          /\ ItemAt(disk', p) \in {OverlapedBy(old, writer.key), old}
        BY <1>2, <1>3, PlacesAfterWrite
    <2>2. PICK new : new = ItemAt(disk', p)
        OBVIOUS
    <2>3. (new.ontop => old.ontop) /\ new = [old EXCEPT !.ontop = new.ontop]
        BY <2>1, <2>2 DEF OverlapedBy, Item
    <2> QED
        BY <1>2, <2>1, <2>2, <2>3
<1>4. CASE UNCHANGED disk
    <2>1. old = [old EXCEPT !.ontop = old.ontop]
        BY DEF Item
    <2> QED
        BY <1>2, <1>4, <2>1
<1> QED
    BY <1>3, <1>4 DEF MasterNext, AgentNext, StartAppend, StartAppendApplied, AbandonAppend, vars

\* The history of the master's log only grows, whatever is rewritten or fails.
THEOREM MasterHistoryKept == MasterSpec => HistoryKept
<1>1. Inv /\ [MasterNext]_vars =>
        [\A p \in Places(disk) :
            /\ p \in Places(disk)'
            /\ LET old == ItemAt(disk, p)
                   new == ItemAt(disk, p)'
               IN  /\ new.ontop => old.ontop
                   /\ new = [old EXCEPT !.ontop = new.ontop]]_vars
    BY NextKeepsHistory
<1> QED
    BY <1>1, MasterInv, PTL DEF MasterSpec, HistoryKept

----------------------------------------------------------------------------
\* The counter in the header of a segment file.

Tops(items) == {j \in DOMAIN items : items[j].ontop}

Counted(file) == file.notOverlap = Cardinality(Tops(file.items))

LEMMA TopsFinite ==
    ASSUME NEW file \in File
    PROVE  /\ Tops(file.items) = {j \in 1..Len(file.items) : file.items[j].ontop}
           /\ IsFiniteSet(Tops(file.items)) /\ Cardinality(Tops(file.items)) \in Nat
           /\ Len(file.items) \in Nat
           /\ \A j \in 1..Len(file.items) : file.items[j] \in Item
<1>1. /\ file.items \in Seq(Item) /\ Len(file.items) \in Nat
      /\ DOMAIN file.items = 1..Len(file.items)
    BY LenProperties DEF File
<1>2. Tops(file.items) \subseteq 1..Len(file.items)
    BY <1>1 DEF Tops
<1>3. IsFiniteSet(1..Len(file.items))
    BY <1>1, FS_Interval
<1>4. IsFiniteSet(Tops(file.items))
    BY <1>2, <1>3, FS_Subset
<1> QED
    BY <1>1, <1>4, FS_CardinalityType, ElementOfSeq DEF Tops

\* Overlaping an item that is on top takes one from the counter, which is not zero.
LEMMA MarkKeepsCount ==
    ASSUME NEW file \in File, NEW j \in 1..Len(file.items), file.items[j].ontop, Counted(file)
    PROVE  Counted(MarkOverlaped(file, j))
<1> DEFINE new == MarkOverlaped(file, j)
<1>1. /\ new \in File /\ Len(new.items) = Len(file.items)
      /\ \A n \in 1..Len(file.items) : new.items[n] =
            IF n = j THEN [file.items[n] EXCEPT !.ontop = FALSE] ELSE file.items[n]
    BY MarkOverlapedProperties
<1>2. new.notOverlap = IF file.notOverlap > 0 THEN file.notOverlap - 1 ELSE 0
    BY DEF MarkOverlaped
<1> HIDE DEF new
<1>3. ~[file.items[j] EXCEPT !.ontop = FALSE].ontop
    BY TopsFinite DEF Item
<1>4. Tops(new.items) = Tops(file.items) \ {j}
    <2>1. Tops(new.items) = {n \in 1..Len(file.items) : new.items[n].ontop}
        BY <1>1, TopsFinite
    <2>2. Tops(file.items) = {n \in 1..Len(file.items) : file.items[n].ontop}
        BY TopsFinite
    <2> QED
        BY <1>1, <1>3, <2>1, <2>2
<1>5. j \in Tops(file.items) /\ IsFiniteSet(Tops(file.items)) /\ Cardinality(Tops(file.items)) \in Nat
    BY TopsFinite
<1>6. Cardinality(Tops(new.items)) = Cardinality(Tops(file.items)) - 1
    BY <1>4, <1>5, FS_RemoveElement
<1>7. Cardinality(Tops(new.items)) \in Nat
    BY <1>1, TopsFinite
<1> QED
    BY <1>2, <1>5, <1>6, <1>7 DEF Counted, new

\* A new item is on top and adds one.
LEMMA AppendKeepsCount ==
    ASSUME NEW file \in File, NEW item \in Item, item.ontop, Counted(file)
    PROVE  Counted(AppendItem(file, item))
<1> DEFINE new == AppendItem(file, item)
           n == Len(file.items) + 1
<1>1. /\ new \in File /\ Len(new.items) = n
      /\ \A j \in 1..Len(file.items) : new.items[j] = file.items[j]
      /\ new.items[n] = item
    BY AppendItemProperties
<1>2. new.notOverlap = file.notOverlap + 1
    BY DEF AppendItem
<1> HIDE DEF new
<1>3. /\ Len(file.items) \in Nat /\ IsFiniteSet(Tops(file.items))
      /\ Tops(file.items) = {j \in 1..Len(file.items) : file.items[j].ontop}
      /\ Tops(new.items) = {j \in 1..n : new.items[j].ontop}
    BY <1>1, TopsFinite
<1>4. 1..n = 1..Len(file.items) \cup {n} /\ n \notin 1..Len(file.items)
    BY <1>3
<1> HIDE DEF n
<1>5. Tops(new.items) = Tops(file.items) \cup {n} /\ n \notin Tops(file.items)
    BY <1>1, <1>3, <1>4
<1>6. Cardinality(Tops(new.items)) = Cardinality(Tops(file.items)) + 1
    BY <1>3, <1>5, FS_AddElement
<1> QED
    BY <1>2, <1>6 DEF Counted, new

CountInv ==
    /\ Inv
    /\ NotOverlapCounts
    /\ writer # Idle => \A s \in Segment : Counted(writer.files[s])

LEMMA CountsOfFiles == NotOverlapCounts <=> \A s \in Segment : Counted(disk[s])
BY DEF NotOverlapCounts, Counted, Tops

LEMMA MarkedKeepsCounts ==
    ASSUME Inv, NotOverlapCounts, NEW k \in Key
    PROVE  \A s \in Segment : Counted(Marked(k)[s])
<1> DEFINE places == OntopAt(disk, k)
           old == Nearest(places)
<1>1. disk \in [Segment -> File] /\ \A s \in Segment : Counted(disk[s])
    BY CountsOfFiles DEF Inv, TypeOK
<1>2. CASE places = {}
    BY <1>1, <1>2 DEF Marked
<1>3. CASE places # {}
    <2>1. old \in places
        BY <1>3, NearestIsOntop DEF Inv
    <2>2. /\ old[1] \in Segment /\ old[2] \in 1..Len(disk[old[1]].items)
          /\ disk[old[1]].items[old[2]].ontop
        BY <1>1, <2>1, InPlaces, ItemAtType DEF OntopAt, ItemAt
    <2> DEFINE new == MarkOverlaped(disk[old[1]], old[2])
    <2>3. Marked(k) = [disk EXCEPT ![old[1]] = new]
        BY <1>3 DEF Marked
    <2>4. Counted(new)
        BY <1>1, <2>2, MarkKeepsCount
    <2> HIDE DEF new, old
    <2> QED
        BY <1>1, <2>2, <2>3, <2>4
<1> QED
    BY <1>2, <1>3

LEMMA StartKeepsCounts ==
    ASSUME CountInv, NEW k \in Key, NEW i \in Index, i > Latest,
           writer' = AppendLocked(k, i), UNCHANGED <<disk, torn>>
    PROVE  CountInv'
<1> DEFINE places == OntopAt(disk, k)
           last   == IF places = {} THEN 0 ELSE ItemAt(disk, Nearest(places)).index
           item   == [index |-> i, key |-> k, last |-> last, ontop |-> TRUE]
           target == SegmentOf(i)
           new    == AppendItem(Marked(k)[target], item)
<1>1. Inv /\ Inv' /\ NotOverlapCounts
    BY StartKeepsInv DEF CountInv
<1>2. writer'.files = [Marked(k) EXCEPT ![target] = new]
    BY DEF AppendLocked
<1>3. Marked(k) \in [Segment -> File] /\ \A s \in Segment : Counted(Marked(k)[s])
    BY <1>1, MarkedProperties, MarkedKeepsCounts
<1>4. target \in Segment
    BY SegmentOfMonotone, SegmentIsInterval DEF Segment, Index
<1>5. item \in Item /\ item.ontop
    <2>1. last \in 0..MaxIndex
        <3>1. ASSUME places # {} PROVE ItemAt(disk, Nearest(places)) \in Item
            <4>1. Nearest(places) \in Places(disk)
                BY <1>1, <3>1, NearestIsOntop DEF Inv, OntopAt
            <4> QED
                BY <1>1, <4>1, InPlaces, ItemAtType DEF ItemAt, Inv, TypeOK
        <3> QED
            BY <3>1 DEF Item, Index
    <2> HIDE DEF last
    <2> QED
        BY <2>1 DEF Item, Index
<1> HIDE DEF item
<1>6. Counted(new)
    BY <1>3, <1>4, <1>5, AppendKeepsCount
<1> HIDE DEF new, target
<1>7. \A s \in Segment : Counted(writer'.files[s])
    BY <1>2, <1>3, <1>4, <1>6
<1>8. NotOverlapCounts'
    BY <1>1 DEF NotOverlapCounts
<1> QED
    BY <1>1, <1>7, <1>8 DEF CountInv

LEMMA NextKeepsCounts == CountInv /\ [MasterNext \/ AgentNext]_vars => CountInv'
<1> SUFFICES ASSUME CountInv, [MasterNext \/ AgentNext]_vars PROVE CountInv'
    OBVIOUS
<1>1. Inv /\ Inv'
    BY NextKeepsInv DEF CountInv
<1>2. ASSUME NEW k \in Key, StartAppend(k) PROVE CountInv'
    <2>1. NextIndex \in Index /\ NextIndex > Latest
        BY <1>1, <1>2, LatestIsNewest DEF StartAppend, NextIndex, Index, Inv
    <2> QED
        BY <1>2, <2>1, StartKeepsCounts DEF StartAppend
<1>3. ASSUME NEW k \in Key, NEW i \in Index, StartAppendApplied(k, i) PROVE CountInv'
    <2>1. i > Latest
        BY <1>1, <1>3, LatestIsNewest DEF StartAppendApplied, AlreadyApplied, Index, Inv
    <2> QED
        BY <1>3, <2>1, StartKeepsCounts DEF StartAppendApplied
<1>4. CASE WriteSegment
    <2> DEFINE s    == NextDirty(writer.dirty)
               rest == writer.dirty \ {s}
    <2>1. /\ writer # Idle /\ writer \in Writing /\ disk \in [Segment -> File]
          /\ writer' = IF rest = {} THEN Idle ELSE [writer EXCEPT !.dirty = rest]
          /\ disk' = [disk EXCEPT ![s] = writer.files[s]]
        BY <1>1, <1>4 DEF WriteSegment, Inv, TypeOK
    <2>2. \A r \in Segment : Counted(writer.files[r]) /\ Counted(disk[r])
        BY <2>1, CountsOfFiles DEF CountInv
    <2> HIDE DEF s, rest
    <2>3. \A r \in Segment : Counted(disk'[r])
        BY <2>1, <2>2
    <2>4. NotOverlapCounts'
        BY <2>3 DEF NotOverlapCounts, Counted, Tops
    <2>5. writer' # Idle => writer'.files = writer.files
        BY <2>1 DEF Writing
    <2> QED
        BY <1>1, <2>2, <2>4, <2>5 DEF CountInv
<1>5. CASE AbandonAppend
    BY <1>1, <1>5 DEF AbandonAppend, CountInv, NotOverlapCounts
<1>6. CASE UNCHANGED vars
    BY <1>1, <1>6 DEF vars, CountInv, NotOverlapCounts
<1> QED
    BY <1>2, <1>3, <1>4, <1>5, <1>6 DEF MasterNext, AgentNext

LEMMA InitCounts == Init => CountInv
<1> SUFFICES ASSUME Init PROVE CountInv
    OBVIOUS
<1>1. disk = [s \in Segment |-> NewSegment] /\ writer = Idle
    BY DEF Init
<1>2. Counted(NewSegment)
    <2>1. NewSegment.notOverlap = 0 /\ Tops(NewSegment.items) = {}
        BY DEF NewSegment, Tops
    <2> QED
        BY <2>1, FS_EmptySet DEF Counted
<1> QED
    BY <1>1, <1>2, InitInv, CountsOfFiles DEF CountInv

\* The counter of every file of the master's log is the number of its items on top
\* in every state, also when a failed append has renamed one of its two files.
THEOREM MasterCounts == MasterSpec => []NotOverlapCounts
<1>1. CountInv => NotOverlapCounts
    BY DEF CountInv
<1>2. CountInv /\ [MasterNext]_vars => CountInv'
    BY NextKeepsCounts
<1> QED
    BY <1>1, <1>2, InitCounts, PTL DEF MasterSpec

\* So is that of an agent's log.
THEOREM AgentCounts == AgentSpec => []NotOverlapCounts
<1>1. CountInv => NotOverlapCounts
    BY DEF CountInv
<1>2. CountInv /\ [AgentNext]_vars => CountInv'
    BY NextKeepsCounts
<1> QED
    BY <1>1, <1>2, InitCounts, PTL DEF AgentSpec

----------------------------------------------------------------------------
\* The segment files implement the compacted log.

\* latestLocked finds the maximum of the indexes, here and in the next state.
LatestIsMaximum ==
    /\ Latest \in 0..MaxIndex
    /\ \A i \in Indexes : i <= Latest
    /\ Latest = 0 \/ Latest \in Indexes

LEMMA LatestMaximum == TypeOK /\ IndexesAscend => LatestIsMaximum
BY LatestIsNewest DEF LatestIsMaximum, Indexes

LEMMA LatestMaximumNext == (TypeOK /\ IndexesAscend => LatestIsMaximum)'
BY LatestMaximum, PTL

LEMMA IndexesArePositive == TypeOK => Indexes \subseteq Index
<1> SUFFICES ASSUME TypeOK, NEW p \in Places(disk) PROVE ItemAt(disk, p).index \in Index
    BY DEF Indexes
<1>1. ItemAt(disk, p) \in Item
    BY InPlaces, ItemAtType DEF TypeOK, ItemAt
<1> QED
    BY <1>1 DEF Item

\* What a rename does to what is on top.
LEMMA OntopAfterWrite ==
    ASSUME Inv, WriteSegment
    PROVE  LET k      == writer.key
               target == SegmentOf(writer.index)
               fresh  == <<target, Len(disk[target].items) + 1>>
           IN  /\ \A h \in Key \ {k} :
                    /\ OntopAt(disk', h) = OntopAt(disk, h)
                    /\ \A p \in OntopAt(disk, h) :
                            ItemAt(disk', p).index = ItemAt(disk, p).index
               /\ NextDirty(writer.dirty) = target =>
                    /\ OntopAt(disk', k) = {fresh}
                    /\ ItemAt(disk', fresh).index = writer.index
               /\ NextDirty(writer.dirty) # target => OntopAt(disk', k) = {}
<1> DEFINE k      == writer.key
           s      == NextDirty(writer.dirty)
           target == SegmentOf(writer.index)
           fresh  == <<target, Len(disk[target].items) + 1>>
<1>1. /\ writer # Idle /\ writer \in Writing /\ k \in Key /\ writer.index \in Nat
    BY DEF WriteSegment, Inv, TypeOK, Writing, Index
<1>2. /\ \A p \in Places(disk') :
            \/ /\ p \in Places(disk)
               /\ ItemAt(disk', p) = IF p[1] = s THEN OverlapedBy(ItemAt(disk, p), k)
                                     ELSE ItemAt(disk, p)
            \/ /\ p = fresh /\ s = target
               /\ ItemAt(disk', p).index = writer.index
               /\ ItemAt(disk', p).key = k
               /\ ItemAt(disk', p).ontop
      /\ \A p \in Places(disk) :
            /\ p \in Places(disk')
            /\ ItemAt(disk', p) \in {OverlapedBy(ItemAt(disk, p), k), ItemAt(disk, p)}
      /\ s = target => fresh \in Places(disk') /\ ItemAt(disk', fresh).index = writer.index
    BY PlacesAfterWrite
<1>3. /\ s \in Nat /\ \A t \in writer.dirty : s <= t
      /\ s \in writer.dirty
    BY <1>1, NextDirtyIsLowest, SegmentIsInterval
<1>4. /\ \A p \in Places(disk) : ItemAt(disk, p).index < writer.index
      /\ \A p \in OntopAt(disk, k) : p[1] \in writer.dirty /\ \A t \in writer.dirty : p[1] <= t
    BY <1>1 DEF Inv, WriterInv
<1>5. ASSUME NEW p \in Places(disk)
      PROVE  /\ p[1] \in Nat /\ ItemAt(disk, p).index \in Nat
             /\ OverlapedBy(ItemAt(disk, p), k).index = ItemAt(disk, p).index
             /\ OverlapedBy(ItemAt(disk, p), k).key = ItemAt(disk, p).key
             /\ OverlapedBy(ItemAt(disk, p), k).ontop <=>
                    ItemAt(disk, p).ontop /\ ItemAt(disk, p).key # k
    <2>1. ItemAt(disk, p) \in Item /\ p[1] \in Nat
        BY InPlaces, ItemAtType, SegmentIsInterval DEF Inv, TypeOK, ItemAt
    <2>2. PICK item \in Item : item = ItemAt(disk, p)
        BY <2>1
    <2>3. item.index \in Nat /\ (item.ontop /\ item.key # k) \in BOOLEAN
        BY DEF Item, Index
    <2>4. PICK b \in BOOLEAN : b = (item.ontop /\ item.key # k)
        BY <2>3
    <2>5. OverlapedBy(item, k) = [item EXCEPT !.ontop = b]
        BY <2>4 DEF OverlapedBy
    <2>6. /\ OverlapedBy(item, k).index = item.index /\ OverlapedBy(item, k).key = item.key
          /\ OverlapedBy(item, k).ontop = b
        BY <2>5 DEF Item
    <2> QED
        BY <2>1, <2>2, <2>3, <2>4, <2>6
<1> HIDE DEF k, s, target, fresh
<1>6. ASSUME NEW p \in OntopAt(disk, k) PROVE p[1] = s
    <2>1. p[1] \in Nat /\ p[1] <= s /\ s <= p[1]
        BY <1>3, <1>4, <1>5 DEF OntopAt
    <2> QED
        BY <1>3, <2>1
\* The fresh place is not an old one.
<1>7. s = target => fresh \notin Places(disk)
    <2> SUFFICES ASSUME s = target, fresh \in Places(disk) PROVE FALSE
        OBVIOUS
    <2>1. ItemAt(disk', fresh).index = ItemAt(disk, fresh).index
        BY <1>2, <1>5
    <2> QED
        BY <1>1, <1>2, <1>4, <1>5, <2>1
<1>8. ASSUME NEW h \in Key \ {k}
      PROVE  /\ OntopAt(disk', h) = OntopAt(disk, h)
             /\ \A p \in OntopAt(disk, h) : ItemAt(disk', p).index = ItemAt(disk, p).index
    <2>1. ASSUME NEW p \in OntopAt(disk', h) PROVE p \in OntopAt(disk, h)
        <3>1. p \in Places(disk') /\ ItemAt(disk', p).key = h /\ ItemAt(disk', p).ontop
            BY <2>1 DEF OntopAt
        <3>2. p \in Places(disk)
            BY <1>2, <3>1
        <3>3. ItemAt(disk, p).key = h /\ ItemAt(disk, p).ontop
            BY <1>2, <1>5, <3>1, <3>2
        <3> QED
            BY <3>2, <3>3 DEF OntopAt
    <2>2. ASSUME NEW p \in OntopAt(disk, h)
          PROVE  p \in OntopAt(disk', h) /\ ItemAt(disk', p).index = ItemAt(disk, p).index
        <3>1. p \in Places(disk) /\ ItemAt(disk, p).key = h /\ ItemAt(disk, p).ontop
            BY <2>2 DEF OntopAt
        <3>2. /\ p \in Places(disk') /\ ItemAt(disk', p).key = h /\ ItemAt(disk', p).ontop
              /\ ItemAt(disk', p).index = ItemAt(disk, p).index
            BY <1>2, <1>5, <3>1
        <3> QED
            BY <3>2 DEF OntopAt
    <2> QED
        BY <2>1, <2>2
<1>9. ASSUME NEW p \in OntopAt(disk', k) PROVE s = target /\ p = fresh
    <2>1. p \in Places(disk') /\ ItemAt(disk', p).key = k /\ ItemAt(disk', p).ontop
        BY <1>9 DEF OntopAt
    <2>2. CASE p \in Places(disk) /\ p[1] = s /\
               ItemAt(disk', p) = OverlapedBy(ItemAt(disk, p), k)
        BY <1>5, <2>1, <2>2
    <2>3. CASE p \in Places(disk) /\ p[1] # s /\ ItemAt(disk', p) = ItemAt(disk, p)
        <3>1. p \in OntopAt(disk, k)
            BY <2>1, <2>3 DEF OntopAt
        <3> QED
            BY <1>6, <2>3, <3>1
    <2> QED
        BY <1>2, <2>1, <2>2, <2>3
<1>10. s = target => fresh \in OntopAt(disk', k)
    <2> SUFFICES ASSUME s = target PROVE fresh \in OntopAt(disk', k)
        OBVIOUS
    <2>1. fresh \in Places(disk') /\ ItemAt(disk', fresh).key = k /\ ItemAt(disk', fresh).ontop
        BY <1>2, <1>7
    <2> QED
        BY <2>1 DEF OntopAt
<1>11. s = target => OntopAt(disk', k) = {fresh} /\ ItemAt(disk', fresh).index = writer.index
    BY <1>2, <1>9, <1>10
<1>12. s # target => OntopAt(disk', k) = {}
    BY <1>9
<1> QED
    BY <1>8, <1>11, <1>12 DEF k, s, target, fresh

\* A rename stores the new change, or takes the old one away first.
LEMMA WriteImplementsLog ==
    ASSUME Inv, WriteSegment
    PROVE  [Log!Next]_(Log!vars)
<1>1. Inv'
    BY WriteKeepsInv
<1>2. writer # Idle /\ writer.key \in Key /\ writer.index \in 1..MaxIndex
    BY DEF WriteSegment, Inv, TypeOK, Writing, Index
<1> PICK k \in Key, i \in 1..MaxIndex : k = writer.key /\ i = writer.index
    BY <1>2
<1> PICK s, target, fresh :
        /\ s = NextDirty(writer.dirty) /\ target = SegmentOf(writer.index)
        /\ fresh = <<target, Len(disk[target].items) + 1>>
    OBVIOUS
<1>3. LatestIsMaximum /\ LatestIsMaximum'
    BY <1>1, LatestMaximum, LatestMaximumNext DEF Inv
<1>4. Indexes' = Indexes \cup (IF s = target THEN {i} ELSE {})
    BY IndexesAfterWrite
<1>5. \A j \in Indexes : j < i
    BY <1>2 DEF Inv, WriterInv, Indexes
<1>6. Indexes \subseteq Nat /\ Indexes' \subseteq Nat
    <2>1. Indexes \subseteq Nat
        BY IndexesArePositive DEF Inv, Index
    <2>2. \A j \in Indexes' : j \in Indexes \/ j = i
        BY <1>4
    <2>3. i \in Nat
        OBVIOUS
    <2> QED
        BY <2>1, <2>2, <2>3
<1>7. /\ \A h \in Key \ {k} :
            /\ OntopAt(disk', h) = OntopAt(disk, h)
            /\ \A p \in OntopAt(disk, h) : ItemAt(disk', p).index = ItemAt(disk, p).index
      /\ s = target => OntopAt(disk', k) = {fresh} /\ ItemAt(disk', fresh).index = i
      /\ s # target => OntopAt(disk', k) = {}
    BY OntopAfterWrite
<1>8. ASSUME NEW h \in Key \ {k} PROVE Top(h)' = Top(h)
    <2>1. Top(h)' = IF OntopAt(disk', h) = {} THEN 0
                    ELSE ItemAt(disk', Nearest(OntopAt(disk', h))).index
        BY DEF Top, OntopAt, Nearest, Places, ItemAt, Before
    <2>2. OntopAt(disk, h) # {} => Nearest(OntopAt(disk, h)) \in OntopAt(disk, h)
        BY NearestIsOntop DEF Inv
    <2> QED
        BY <1>7, <2>1, <2>2 DEF Top
<1>9. CASE s = target
    <2>1. Latest' = i /\ i > Latest
        BY <1>2, <1>3, <1>4, <1>5, <1>6, <1>9 DEF LatestIsMaximum
    <2>2. Top(k)' = i
        <3>1. Nearest({fresh}) = fresh
            BY DEF Nearest
        <3>2. Top(k)' = IF OntopAt(disk', k) = {} THEN 0
                        ELSE ItemAt(disk', Nearest(OntopAt(disk', k))).index
            BY DEF Top, OntopAt, Nearest, Places, ItemAt, Before
        <3> QED
            BY <1>7, <1>9, <3>1, <3>2
    <2>3. [h \in Key |-> Top(h)]' = [[h \in Key |-> Top(h)] EXCEPT ![k] = i]
        BY <1>2, <1>8, <2>2
    <2>4. Log!Put(k, i)
        BY <2>1, <2>3 DEF Log!Put
    <2> QED
        BY <1>2, <2>4 DEF Log!Next
<1>10. CASE s # target
    <2>1. Latest' = Latest
        BY <1>3, <1>4, <1>6, <1>10 DEF LatestIsMaximum
    <2>2. Top(k)' = 0
        BY <1>7, <1>10 DEF Top, OntopAt, Places, ItemAt
    <2>3. [h \in Key |-> Top(h)]' = [[h \in Key |-> Top(h)] EXCEPT ![k] = 0]
        BY <1>2, <1>8, <2>2
    <2>4. CASE Top(k) # 0
        <3>1. Log!Lose(k)
            BY <1>2, <2>1, <2>3, <2>4 DEF Log!Lose
        <3> QED
            BY <1>2, <3>1 DEF Log!Next
    <2>5. CASE Top(k) = 0
        <3>1. [h \in Key |-> Top(h)]' = [h \in Key |-> Top(h)]
            BY <1>2, <1>8, <2>2, <2>5
        <3> QED
            BY <2>1, <3>1 DEF Log!vars
    <2> QED
        BY <2>4, <2>5
<1> QED
    BY <1>9, <1>10

\* Everything else leaves the files, hence the log, as they are.
LEMMA NextImplementsLog ==
    Inv /\ [MasterNext \/ AgentNext]_vars => [Log!Next]_(Log!vars)
<1> SUFFICES ASSUME Inv, [MasterNext \/ AgentNext]_vars PROVE [Log!Next]_(Log!vars)
    OBVIOUS
<1>1. CASE WriteSegment
    BY <1>1, WriteImplementsLog
<1>2. CASE UNCHANGED disk
    <2>1. Latest' = Latest /\ [h \in Key |-> Top(h)]' = [h \in Key |-> Top(h)]
        BY <1>2 DEF Latest, Exists, Top, OntopAt, Nearest, Places, ItemAt, Before
    <2> QED
        BY <2>1 DEF Log!vars
<1> QED
    BY <1>1, <1>2 DEF MasterNext, AgentNext, StartAppend, StartAppendApplied, AbandonAppend, vars

LEMMA InitImplementsLog == Init => Log!Init
<1> SUFFICES ASSUME Init PROVE Log!Init
    OBVIOUS
<1>1. disk = [s \in Segment |-> NewSegment]
    BY DEF Init
<1>2. Latest = 0 /\ Places(disk) = {}
    BY <1>1 DEF Latest, Exists, Places, NewSegment
<1>3. \A k \in Key : Top(k) = 0
    BY <1>2 DEF Top, OntopAt
<1> QED
    BY <1>2, <1>3 DEF Log!Init

\* Refinement: to its readers the master's segment files are a compacted log in
\* which a change is stored in one step, and a failed append forgets at most its key.
THEOREM MasterImplementsLog == MasterSpec => ImplementsLog
<1>1. Inv /\ [MasterNext]_vars => [Log!Next]_(Log!vars)
    BY NextImplementsLog
<1> QED
    BY <1>1, InitImplementsLog, MasterInv, PTL DEF MasterSpec, ImplementsLog, Log!Spec

\* So are those of an agent.
THEOREM AgentImplementsLog == AgentSpec => ImplementsLog
<1>1. Inv /\ [AgentNext]_vars => [Log!Next]_(Log!vars)
    BY NextImplementsLog
<1> QED
    BY <1>1, InitImplementsLog, AgentInv, PTL DEF AgentSpec, ImplementsLog, Log!Spec

----------------------------------------------------------------------------
\* What a replay finds, and what an item remembers of the one before it.

\* What a rename does to the history of each key.
LEMMA HistoryAfterWrite ==
    ASSUME Inv, WriteSegment, NEW h \in Key
    PROVE  History(h)' = History(h) \cup
                (IF NextDirty(writer.dirty) = SegmentOf(writer.index) /\ h = writer.key
                 THEN {writer.index} ELSE {})
<1> DEFINE k      == writer.key
           s      == NextDirty(writer.dirty)
           target == SegmentOf(writer.index)
           fresh  == <<target, Len(disk[target].items) + 1>>
<1>1. ASSUME NEW p \in Places(disk')
      PROVE  \/ p \in Places(disk) /\ ItemAt(disk', p) \in {OverlapedBy(ItemAt(disk, p), k), ItemAt(disk, p)}
             \/ s = target /\ ItemAt(disk', p).index = writer.index /\ ItemAt(disk', p).key = k
    BY PlacesAfterWrite
<1>2. /\ \A p \in Places(disk) :
            /\ p \in Places(disk')
            /\ ItemAt(disk', p) \in {OverlapedBy(ItemAt(disk, p), k), ItemAt(disk, p)}
      /\ s = target => /\ fresh \in Places(disk') /\ ItemAt(disk', fresh).index = writer.index
                       /\ ItemAt(disk', fresh).key = k
    BY PlacesAfterWrite
<1>3. ASSUME NEW p \in Places(disk)
      PROVE  /\ OverlapedBy(ItemAt(disk, p), k).index = ItemAt(disk, p).index
             /\ OverlapedBy(ItemAt(disk, p), k).key = ItemAt(disk, p).key
    <2>1. ItemAt(disk, p) \in Item
        BY InPlaces, ItemAtType DEF Inv, TypeOK, ItemAt
    <2> QED
        BY <2>1 DEF OverlapedBy, Item
<1> HIDE DEF k, s, target, fresh
<1>4. /\ \A i : i \in History(h) <=>
            \E p \in Places(disk) : ItemAt(disk, p).key = h /\ ItemAt(disk, p).index = i
      /\ \A i : i \in History(h)' <=>
            \E p \in Places(disk') : ItemAt(disk', p).key = h /\ ItemAt(disk', p).index = i
    BY DEF History
<1>5. \A i \in History(h)' : i \in History(h) \/ (s = target /\ h = k /\ i = writer.index)
    BY <1>1, <1>3, <1>4
<1>6. \A i \in History(h) : i \in History(h)'
    BY <1>2, <1>3, <1>4
<1>7. s = target /\ h = k => writer.index \in History(h)'
    BY <1>2, <1>4
<1> QED
    BY <1>5, <1>6, <1>7 DEF s, target, k

LEMMA HistoryType ==
    ASSUME TypeOK, NEW h \in Key
    PROVE  /\ History(h) \subseteq Index
           /\ \A p \in OntopAt(disk, h) : ItemAt(disk, p).index \in History(h)
<1>1. \A p \in Places(disk) : ItemAt(disk, p) \in Item
    BY InPlaces, ItemAtType DEF TypeOK, ItemAt
<1> QED
    BY <1>1 DEF History, OntopAt, Item

\* What is on top of a key is its newest change; and only a torn append leaves a
\* key that has a history with nothing on top.
TornInv ==
    \A h \in Key :
        /\ \A p \in OntopAt(disk, h) : \A i \in History(h) : i <= ItemAt(disk, p).index
        /\ h \in torn => OntopAt(disk, h) = {}
        /\ h \notin torn /\ History(h) # {} => OntopAt(disk, h) # {}

ReplayInv == Inv /\ TornInv

LEMMA ReplayInvImpliesComplete == ReplayInv => ReplayComplete
<1> SUFFICES ASSUME ReplayInv, NEW k \in Key, NEW v \in 0..Latest
             PROVE  {item.index : item \in {e \in Since(v) : e.key = k}} =
                        IF k \in torn THEN {}
                        ELSE {i \in History(k) : i > v /\ \A j \in History(k) : j <= i}
    BY DEF ReplayComplete
<1>1. TypeOK /\ TornInv
    BY DEF ReplayInv, Inv
<1>2. History(k) \subseteq Nat
    BY <1>1, HistoryType DEF Index
<1>3. \A i : i \in {item.index : item \in {e \in Since(v) : e.key = k}} <=>
            \E p \in OntopAt(disk, k) : ItemAt(disk, p).index = i /\ i > v
    BY DEF Since, OntopAt
<1>4. CASE k \in torn
    BY <1>1, <1>3, <1>4 DEF TornInv
<1>5. CASE k \notin torn
    <2>1. ASSUME NEW p \in OntopAt(disk, k), ItemAt(disk, p).index > v
          PROVE  ItemAt(disk, p).index \in
                    {i \in History(k) : i > v /\ \A j \in History(k) : j <= i}
        BY <1>1, <2>1, HistoryType DEF TornInv
    <2>2. ASSUME NEW i \in History(k), i > v, \A j \in History(k) : j <= i
          PROVE  \E p \in OntopAt(disk, k) : ItemAt(disk, p).index = i
        <3>1. PICK p \in OntopAt(disk, k) : TRUE
            BY <1>1, <1>5, <2>2 DEF TornInv
        <3>2. i <= ItemAt(disk, p).index /\ ItemAt(disk, p).index \in History(k)
            BY <1>1, HistoryType DEF TornInv
        <3>3. ItemAt(disk, p).index = i
            BY <1>2, <2>2, <3>2
        <3> QED
            BY <3>3
    <2> QED
        BY <1>3, <1>5, <2>1, <2>2
<1> QED
    BY <1>4, <1>5

LEMMA WriteKeepsTorn ==
    ASSUME ReplayInv, WriteSegment
    PROVE  TornInv'
<1>1. Inv /\ TornInv
    BY DEF ReplayInv
<1>2. writer # Idle /\ writer.key \in Key /\ writer.index \in Nat /\ writer \in Writing
    BY <1>1 DEF WriteSegment, Inv, TypeOK, Writing, Index
<1> PICK k \in Key : k = writer.key
    BY <1>2
<1> PICK i \in Nat : i = writer.index
    BY <1>2
<1> PICK s, target, fresh :
        /\ s = NextDirty(writer.dirty) /\ target = SegmentOf(writer.index)
        /\ fresh = <<target, Len(disk[target].items) + 1>>
    OBVIOUS
<1>3. torn' = IF s = target THEN torn \ {k} ELSE torn \cup {k}
    <2>1. writer.dirty \ {s} = {} <=> s = target
        BY <1>1, <1>2, NextDirtyIsLowest
    <2> QED
        BY <2>1 DEF WriteSegment
<1>4. /\ \A h \in Key \ {k} :
            /\ OntopAt(disk', h) = OntopAt(disk, h)
            /\ \A p \in OntopAt(disk, h) : ItemAt(disk', p).index = ItemAt(disk, p).index
      /\ s = target => OntopAt(disk', k) = {fresh} /\ ItemAt(disk', fresh).index = i
      /\ s # target => OntopAt(disk', k) = {}
    BY <1>1, OntopAfterWrite
<1>5. \A h \in Key : History(h)' = History(h) \cup (IF s = target /\ h = k THEN {i} ELSE {})
    BY <1>1, HistoryAfterWrite
<1>6. \A j \in History(k) : j \in Nat /\ j < i
    <2>1. \A p \in Places(disk) : ItemAt(disk, p).index < writer.index
        BY <1>1, <1>2 DEF Inv, WriterInv
    <2>2. History(k) \subseteq Nat
        BY <1>1, HistoryType DEF Inv, Index
    <2> QED
        BY <2>1, <2>2 DEF History
<1>7. ASSUME NEW h \in Key
      PROVE  /\ \A p \in OntopAt(disk', h) : \A j \in History(h)' : j <= ItemAt(disk', p).index
             /\ h \in torn' => OntopAt(disk', h) = {}
             /\ h \notin torn' /\ History(h)' # {} => OntopAt(disk', h) # {}
    <2>1. CASE h # k
        <3>1. History(h)' = History(h) /\ OntopAt(disk', h) = OntopAt(disk, h)
            BY <1>4, <1>5, <2>1
        <3>2. h \in torn' <=> h \in torn
            BY <1>3, <2>1
        <3> QED
            BY <1>1, <1>4, <2>1, <3>1, <3>2 DEF TornInv
    <2>2. CASE h = k /\ s = target
        <3>1. \A j \in History(k)' : j <= i
            BY <1>5, <1>6, <2>2
        <3> QED
            BY <1>3, <1>4, <2>2, <3>1
    <2>3. CASE h = k /\ s # target
        BY <1>3, <1>4, <2>3
    <2> QED
        BY <2>1, <2>2, <2>3
<1> QED
    BY <1>7 DEF TornInv, OntopAt, ItemAt, Places

LEMMA NextKeepsReplay == ReplayInv /\ [MasterNext \/ AgentNext]_vars => ReplayInv'
<1> SUFFICES ASSUME ReplayInv, [MasterNext \/ AgentNext]_vars PROVE ReplayInv'
    OBVIOUS
<1>1. Inv'
    BY NextKeepsInv DEF ReplayInv
<1>2. CASE WriteSegment
    BY <1>1, <1>2, WriteKeepsTorn DEF ReplayInv
<1>3. CASE UNCHANGED <<disk, torn>>
    <2>1. \A h \in Key : History(h)' = History(h)
        BY <1>3 DEF History, Places, ItemAt
    <2>2. TornInv'
        BY <1>3, <2>1 DEF ReplayInv, TornInv
    <2> QED
        BY <1>1, <2>2 DEF ReplayInv
<1> QED
    BY <1>2, <1>3 DEF MasterNext, AgentNext, StartAppend, StartAppendApplied, AbandonAppend, vars

LEMMA InitReplay == Init => ReplayInv
<1> SUFFICES ASSUME Init PROVE ReplayInv
    OBVIOUS
<1>1. Places(disk) = {}
    BY DEF Init, Places, NewSegment
<1> QED
    BY <1>1, InitInv DEF Init, ReplayInv, TornInv, OntopAt, History

\* A replay of the master's log after any version delivers exactly the newest change
\* of every key changed since, but for the keys whose last append was torn.
THEOREM MasterReplayComplete == MasterSpec => []ReplayComplete
<1>1. ReplayInv /\ [MasterNext]_vars => ReplayInv'
    BY NextKeepsReplay
<1> QED
    BY <1>1, InitReplay, ReplayInvImpliesComplete, PTL DEF MasterSpec

\* The item an append is about to store remembers the newest change of its key; an
\* item already stored remembers the one just before it.
NewestBefore(item, h) ==
    item.last # 0 => item.last \in History(h) /\ \A i \in History(h) : i <= item.last

NewItem(w) ==
    LET items == w.files[SegmentOf(w.index)].items
    IN  items[Len(items)]

LastInv ==
    /\ ReplayInv
    /\ LastAffectNearest
    /\ writer # Idle => NewestBefore(NewItem(writer), writer.key)

LEMMA KeysOfItems == Inv => \A p \in Places(disk) : ItemAt(disk, p).key \in Key
<1> SUFFICES ASSUME Inv, NEW p \in Places(disk) PROVE ItemAt(disk, p).key \in Key
    OBVIOUS
<1>1. ItemAt(disk, p) \in Item
    BY InPlaces, ItemAtType DEF Inv, TypeOK, ItemAt
<1> QED
    BY <1>1 DEF Item

LEMMA StartKeepsLast ==
    ASSUME LastInv, NEW k \in Key, NEW n \in Index, n > Latest,
           writer' = AppendLocked(k, n), UNCHANGED <<disk, torn>>
    PROVE  LastInv'
<1> DEFINE places == OntopAt(disk, k)
           last   == IF places = {} THEN 0 ELSE ItemAt(disk, Nearest(places)).index
           item   == [index |-> n, key |-> k, last |-> last, ontop |-> TRUE]
           target == SegmentOf(n)
           new    == AppendItem(Marked(k)[target], item)
<1>1. Inv /\ TornInv
    BY DEF LastInv, ReplayInv
<1>2. /\ writer'.files = [Marked(k) EXCEPT ![target] = new]
      /\ writer'.key = k /\ writer'.index = n
    BY DEF AppendLocked
<1>3. Marked(k) \in [Segment -> File] /\ target \in Segment
    BY <1>1, MarkedProperties, SegmentOfMonotone, SegmentIsInterval DEF Segment, Index
<1>4. ASSUME places # {}
      PROVE  /\ last \in History(k) /\ \A i \in History(k) : i <= last
             /\ last \in Index
    <2>1. Nearest(places) \in places
        BY <1>1, <1>4, NearestIsOntop DEF Inv
    <2>2. last = ItemAt(disk, Nearest(places)).index
        BY <1>4
    <2> QED
        BY <1>1, <2>1, <2>2, HistoryType DEF TornInv, Inv
<1>5. item \in Item /\ item.last = last
    BY <1>4 DEF Item, Index
<1> HIDE DEF item, last, places
<1>6. /\ new \in File /\ Len(new.items) = Len(Marked(k)[target].items) + 1
      /\ new.items[Len(Marked(k)[target].items) + 1] = item
    BY <1>3, <1>5, AppendItemProperties
<1> HIDE DEF new, target
<1>7. writer'.files[target] = new
    BY <1>2, <1>3
<1>8. NewItem(writer') = item
    BY <1>2, <1>6, <1>7 DEF NewItem, target
<1>9. last = 0 \/ (last \in History(k) /\ \A i \in History(k) : i <= last)
    BY <1>4 DEF last
<1>10. \A h \in Key : History(h)' = History(h)
    BY DEF History, Places, ItemAt
<1>11. (writer # Idle => NewestBefore(NewItem(writer), writer.key))'
    BY <1>2, <1>5, <1>8, <1>9, <1>10 DEF NewestBefore
<1>12. ReplayInv'
    <2>1. Inv'
        BY <1>1, StartKeepsInv
    <2>2. TornInv'
        BY <1>1, <1>10 DEF TornInv
    <2> QED
        BY <2>1, <2>2 DEF ReplayInv
<1>13. LastAffectNearest'
    <2> SUFFICES ASSUME NEW p \in Places(disk), ItemAt(disk, p).last # 0
                 PROVE  /\ ItemAt(disk, p).last \in History(ItemAt(disk, p).key)'
                        /\ \A i \in History(ItemAt(disk, p).key)' :
                                i < ItemAt(disk, p).index => i <= ItemAt(disk, p).last
        BY DEF LastAffectNearest, Places, ItemAt
    <2>1. ItemAt(disk, p).key \in Key
        BY <1>1, KeysOfItems
    <2> QED
        BY <1>10, <2>1 DEF LastInv, LastAffectNearest
<1> QED
    BY <1>11, <1>12, <1>13 DEF LastInv

LEMMA WriteKeepsLast ==
    ASSUME LastInv, WriteSegment
    PROVE  LastInv'
<1>1. Inv /\ ReplayInv /\ ReplayInv'
    BY NextKeepsReplay DEF LastInv, ReplayInv, MasterNext
<1>2. writer # Idle /\ writer.key \in Key /\ writer.index \in Nat /\ writer \in Writing
    BY <1>1 DEF WriteSegment, Inv, TypeOK, Writing, Index
<1> PICK k \in Key : k = writer.key
    BY <1>2
<1> PICK n \in Nat : n = writer.index
    BY <1>2
<1> PICK new : new = NewItem(writer)
    OBVIOUS
<1> PICK s, target, fresh :
        /\ s = NextDirty(writer.dirty) /\ target = SegmentOf(writer.index)
        /\ fresh = <<target, Len(disk[target].items) + 1>>
    OBVIOUS
<1>3. NewestBefore(new, k)
    BY <1>2 DEF LastInv
<1>4. \A h \in Key : History(h)' = History(h) \cup (IF s = target /\ h = k THEN {n} ELSE {})
    BY <1>1, HistoryAfterWrite
<1>5. \A h \in Key : \A i \in History(h) : i \in Nat /\ i < n
    <2>1. \A p \in Places(disk) : ItemAt(disk, p).index < writer.index
        BY <1>1, <1>2 DEF Inv, WriterInv
    <2>2. \A h \in Key : History(h) \subseteq Nat
        BY <1>1, HistoryType DEF Inv, Index
    <2> QED
        BY <2>1, <2>2 DEF History
<1>6. writer' # Idle => s # target /\ NewItem(writer') = new /\ writer'.key = k
    <2>1. writer.dirty \ {s} = {} <=> s = target
        BY <1>1, <1>2, NextDirtyIsLowest
    <2>2. writer' = IF writer.dirty \ {s} = {} THEN Idle
                    ELSE [writer EXCEPT !.dirty = writer.dirty \ {s}]
        BY <1>2 DEF WriteSegment, Writing
    <2>3. CASE s = target
        BY <2>1, <2>2, <2>3
    <2>4. CASE s # target
        <3>1. writer'.files = writer.files /\ writer'.index = writer.index /\ writer'.key = writer.key
            BY <1>2, <2>1, <2>2, <2>4 DEF Writing
        <3> QED
            BY <2>4, <3>1 DEF NewItem
    <2> QED
        BY <2>3, <2>4
<1>7. writer' # Idle => NewestBefore(NewItem(writer), writer.key)'
    BY <1>3, <1>4, <1>6 DEF NewestBefore
<1>8. /\ \A p \in Places(disk') :
            \/ p \in Places(disk) /\ ItemAt(disk', p) \in {OverlapedBy(ItemAt(disk, p), k), ItemAt(disk, p)}
            \/ p = fresh /\ s = target
      /\ s = target => /\ ItemAt(disk', fresh) = new
                       /\ new.index = n /\ new.key = k
    BY <1>1, PlacesAfterWrite DEF NewItem
<1>9. ASSUME NEW p \in Places(disk'), NEW h \in Key, ItemAt(disk', p).key = h,
             ItemAt(disk', p).last # 0
      PROVE  /\ ItemAt(disk', p).last \in History(h)'
             /\ \A i \in History(h)' : i < ItemAt(disk', p).index => i <= ItemAt(disk', p).last
    <2>1. CASE p \in Places(disk) /\
               ItemAt(disk', p) \in {OverlapedBy(ItemAt(disk, p), k), ItemAt(disk, p)}
        <3>1. ItemAt(disk, p) \in Item
            BY <1>1, <2>1, InPlaces, ItemAtType DEF Inv, TypeOK, ItemAt
        <3>2. PICK old \in Item : old = ItemAt(disk, p)
            BY <3>1
        <3>3. PICK now : now = ItemAt(disk', p)
            OBVIOUS
        <3>4. now.last = old.last /\ now.key = old.key /\ now.index = old.index
            BY <2>1, <3>2, <3>3 DEF OverlapedBy, Item
        <3>5. old.index \in Nat /\ old.index < n /\ old.key \in Key
            <4>1. old.index < writer.index
                BY <1>1, <1>2, <2>1, <3>2 DEF Inv, WriterInv
            <4> QED
                BY <4>1 DEF Item, Index
        <3>6. old.last \in History(old.key) /\
              \A i \in History(old.key) : i < old.index => i <= old.last
            BY <1>9, <2>1, <3>2, <3>3, <3>4 DEF LastInv, LastAffectNearest
        <3>7. /\ old.last \in History(old.key)'
              /\ \A i \in History(old.key)' : i \in History(old.key) \/ i = n
            BY <1>4, <3>5, <3>6
        <3>8. \A i \in History(old.key)' : i < old.index => i <= old.last
            BY <3>5, <3>6, <3>7
        <3>9. old.key = h
            BY <1>9, <3>3, <3>4
        <3> QED
            BY <3>3, <3>4, <3>7, <3>8, <3>9
    <2>2. CASE p = fresh /\ s = target
        <3>1. ItemAt(disk', p) = new /\ new.index = n /\ new.key = k
            BY <1>8, <2>2
        <3>2. new.last \in History(k) /\ \A i \in History(k) : i <= new.last
            BY <1>3, <1>9, <3>1 DEF NewestBefore
        <3>3. /\ new.last \in History(k)'
              /\ \A i \in History(k)' : i \in History(k) \/ i = n
            BY <1>4, <3>2
        <3>4. h = k
            BY <1>9, <3>1
        <3> QED
            BY <1>5, <3>1, <3>2, <3>3, <3>4
    <2> QED
        BY <1>8, <2>1, <2>2
<1>10. LastAffectNearest'
    <2>1. Inv'
        BY <1>1 DEF ReplayInv
    <2>2. (\A p \in Places(disk) : ItemAt(disk, p).key \in Key)'
        <3>1. (Inv => \A p \in Places(disk) : ItemAt(disk, p).key \in Key)'
            BY KeysOfItems, PTL
        <3> QED
            BY <2>1, <3>1
    <2>3. \A p \in Places(disk') : ItemAt(disk', p).key \in Key
        BY <2>2 DEF Places, ItemAt
    <2> QED
        BY <1>9, <2>3 DEF LastAffectNearest, History, Places, ItemAt
<1> QED
    BY <1>1, <1>7, <1>10 DEF LastInv

LEMMA NextKeepsLast == LastInv /\ [MasterNext \/ AgentNext]_vars => LastInv'
<1> SUFFICES ASSUME LastInv, [MasterNext \/ AgentNext]_vars PROVE LastInv'
    OBVIOUS
<1>1. Inv /\ ReplayInv'
    BY NextKeepsReplay DEF LastInv, ReplayInv
<1>2. ASSUME NEW k \in Key, StartAppend(k) PROVE LastInv'
    <2>1. NextIndex \in Index /\ NextIndex > Latest
        BY <1>1, <1>2, LatestIsNewest DEF StartAppend, NextIndex, Index, Inv
    <2> QED
        BY <1>2, <2>1, StartKeepsLast DEF StartAppend
<1>3. ASSUME NEW k \in Key, NEW i \in Index, StartAppendApplied(k, i) PROVE LastInv'
    <2>1. i > Latest
        BY <1>1, <1>3, LatestIsNewest DEF StartAppendApplied, AlreadyApplied, Index, Inv
    <2> QED
        BY <1>3, <2>1, StartKeepsLast DEF StartAppendApplied
<1>4. CASE WriteSegment
    BY <1>4, WriteKeepsLast
<1>5. ASSUME UNCHANGED disk, writer' = Idle \/ writer' = writer PROVE LastInv'
    <2>1. \A h \in Key : History(h)' = History(h)
        BY <1>5 DEF History, Places, ItemAt
    <2>2. LastAffectNearest'
        <3>1. ASSUME NEW p \in Places(disk'), NEW h \in Key, ItemAt(disk', p).key = h,
                     ItemAt(disk', p).last # 0
              PROVE  /\ ItemAt(disk', p).last \in History(h)'
                     /\ \A i \in History(h)' :
                            i < ItemAt(disk', p).index => i <= ItemAt(disk', p).last
            BY <1>5, <2>1, <3>1 DEF LastInv, LastAffectNearest
        <3>2. \A p \in Places(disk') : ItemAt(disk', p).key \in Key
            BY <1>1, <1>5, KeysOfItems
        <3> QED
            BY <3>1, <3>2 DEF LastAffectNearest, History, Places, ItemAt
    <2>3. writer' # Idle => NewestBefore(NewItem(writer), writer.key)'
        BY <1>5 DEF LastInv, NewestBefore, NewItem, History, Places, ItemAt
    <2> QED
        BY <1>1, <2>2, <2>3 DEF LastInv
<1> QED
    BY <1>2, <1>3, <1>4, <1>5 DEF MasterNext, AgentNext, AbandonAppend, vars

LEMMA InitLast == Init => LastInv
<1> SUFFICES ASSUME Init PROVE LastInv
    OBVIOUS
<1>1. Places(disk) = {}
    BY DEF Init, Places, NewSegment
<1> QED
    BY <1>1, InitReplay DEF Init, LastInv, LastAffectNearest

\* What an item of the master's log remembers as the change before it is the newest
\* older change of its key, or nothing.
THEOREM MasterLastAffect == MasterSpec => []LastAffectNearest
<1>1. LastInv => LastAffectNearest
    BY DEF LastInv
<1>2. LastInv /\ [MasterNext]_vars => LastInv'
    BY NextKeepsLast
<1> QED
    BY <1>1, <1>2, InitLast, PTL DEF MasterSpec

=============================================================================
