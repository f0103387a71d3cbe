------------------------------ MODULE FileWAL ------------------------------
(***************************************************************************)
(* The write-ahead log of operator/replication/coordinator.go (FileWAL):   *)
(* segment files wal.bin.1, wal.bin.2, ... of ItemsPerFile items each.     *)
(* The master appends what it publishes (Append), an agent appends what it *)
(* has applied (AppendApplied).  Everything is on disk: each operation     *)
(* reads the files, and an append rewrites one or two of them, each by a   *)
(* temporary file and a rename.  FileWAL.mu admits one operation at a      *)
(* time, but the renames are separate steps: a crash or a failed write may *)
(* fall between them.                                                      *)
(*                                                                         *)
(* A key is the pair (event type, hostname) of the code.                   *)
(***************************************************************************)
EXTENDS Integers, Sequences, FiniteSets

CONSTANTS
    Key,
    ItemsPerFile,   \* walItemsPerFile, 1000 in the code
    MaxIndex        \* bound: no index above it is appended

ASSUME ItemsPerFileAssumption == ItemsPerFile \in Nat \ {0}
ASSUME MaxIndexAssumption == MaxIndex \in Nat \ {0}

VARIABLES
    disk,     \* the segment files
    writer,   \* the append that holds FileWAL.mu, or Idle
    torn      \* ghost: keys whose newest append marked the old item and has
              \* not stored the new one

vars == <<disk, writer, torn>>

SegmentOf(i) == IF i = 0 THEN 1 ELSE ((i - 1) \div ItemsPerFile) + 1

Index == 1..MaxIndex
Segment == 1..SegmentOf(MaxIndex)

\* lastAffectIndex is called last, status is ontop or overlaped.
Item == [index : Index, key : Key, last : 0..MaxIndex, ontop : BOOLEAN]
File == [items : Seq(Item), notOverlap : Nat]

\* A segment file that does not exist reads as an empty segment.
NewSegment == [items |-> <<>>, notOverlap |-> 0]

Idle == [dirty |-> {}, files |-> <<>>]

\* The files that are rewritten, and the content read and changed in memory.
Writing == [dirty : (SUBSET Segment) \ {{}}, files : [Segment -> File],
            key : Key, index : Index]

TypeOK ==
    /\ disk \in [Segment -> File]
    /\ writer \in Writing \cup {Idle}
    /\ torn \subseteq Key

Init ==
    /\ disk = [s \in Segment |-> NewSegment]
    /\ writer = Idle
    /\ torn = {}

----------------------------------------------------------------------------
\* Reading the log.

Exists(s) == disk[s].items # <<>>

\* Mistake: looks at the lowest segment file.
BugLatestOfFirst ==
    IF \A s \in Segment : ~Exists(s)
    THEN 0
    ELSE LET s == CHOOSE s \in Segment :
                    Exists(s) /\ \A t \in Segment : Exists(t) => s <= t
         IN  disk[s].items[Len(disk[s].items)].index

\* latestLocked: the last item of the highest segment file.
Latest ==
    IF \A s \in Segment : ~Exists(s)
    THEN 0
    ELSE LET s == CHOOSE s \in Segment :
                    Exists(s) /\ \A t \in Segment : Exists(t) => t <= s
         IN  disk[s].items[Len(disk[s].items)].index

\* A place in the log is a segment number and a position in that segment.
Places(files) == UNION {{s} \X DOMAIN files[s].items : s \in Segment}
ItemAt(files, p) == files[p[1]].items[p[2]]
Before(p, q) == p[1] < q[1] \/ (p[1] = q[1] /\ p[2] < q[2])

\* Mistake: compares the event type and not the hostname.
BugOntopOfAnyKey(files, k) == {p \in Places(files) : ItemAt(files, p).ontop}

\* The places of the items of k that are on top.
OntopAt(files, k) ==
    {p \in Places(files) : ItemAt(files, p).key = k /\ ItemAt(files, p).ontop}

\* The search runs backward and stops at the first match.
Nearest(places) ==
    CHOOSE p \in places : \A q \in places \ {p} : Before(q, p)

\* Mistake: delivers the subscriber's own version again.
BugSinceInclusive(v) ==
    {ItemAt(disk, p) : p \in {q \in Places(disk) :
        ItemAt(disk, q).ontop /\ ItemAt(disk, q).index >= v}}

\* The items a replay after version v delivers, in the order of their places.
\* (The content of each is read from the store, which is not part of the log.)
Since(v) ==
    {ItemAt(disk, p) : p \in {q \in Places(disk) :
        ItemAt(disk, q).ontop /\ ItemAt(disk, q).index > v}}

----------------------------------------------------------------------------
\* appendLocked, in memory.

\* Mistake: forgets the counter.
BugMarkKeepsCount(file, j) ==
    [file EXCEPT !.items = [@ EXCEPT ![j].ontop = FALSE]]

MarkOverlaped(file, j) ==
    [items |-> [file.items EXCEPT ![j].ontop = FALSE],
     notOverlap |-> IF file.notOverlap > 0 THEN file.notOverlap - 1 ELSE 0]

\* Mistake: the new list starts empty.
BugAppendDropsItems(file, item) ==
    [items |-> <<item>>, notOverlap |-> file.notOverlap + 1]

AppendItem(file, item) ==
    [items |-> Append(file.items, item), notOverlap |-> file.notOverlap + 1]

\* The newest item of k that is on top is found and overlaped.
Marked(k) ==
    LET places == OntopAt(disk, k)
        old    == Nearest(places)
    IN  IF places = {} THEN disk
        ELSE [disk EXCEPT ![old[1]] = MarkOverlaped(@, old[2])]

AppendLocked(k, i) ==
    LET places == OntopAt(disk, k)
        old    == Nearest(places)
        last   == IF places = {} THEN 0 ELSE ItemAt(disk, old).index
        item   == [index |-> i, key |-> k, last |-> last, ontop |-> TRUE]
        target == SegmentOf(i)
    IN  [dirty |-> {target} \cup (IF places = {} THEN {} ELSE {old[1]}),
         files |-> [Marked(k) EXCEPT ![target] = AppendItem(@, item)],
         key   |-> k,
         index |-> i]

\* Mistake: numbers after the newest item that is still on top.
BugNextIndexAfterTop ==
    IF Since(0) = {} THEN 1
    ELSE 1 + (CHOOSE e \in Since(0) : \A f \in Since(0) : f.index <= e.index).index

\* Publishing on the master takes the next index.
NextIndex == Latest + 1

StartAppend(k) ==
    /\ writer = Idle
    /\ NextIndex <= MaxIndex
    /\ writer' = AppendLocked(k, NextIndex)
    /\ UNCHANGED <<disk, torn>>

\* Mistake: stores the newest index again when it is delivered twice.
BugAlreadyApplied(i) == i < Latest

\* An agent takes the index of the envelope it applied; one it already has is
\* accepted and not written.
AlreadyApplied(i) == i <= Latest

StartAppendApplied(k, i) ==
    /\ writer = Idle
    /\ ~AlreadyApplied(i)
    /\ writer' = AppendLocked(k, i)
    /\ UNCHANGED <<disk, torn>>

\* Mistake: the file with the new item is written first.
BugNewFileFirst(dirty) == CHOOSE s \in dirty : \A t \in dirty : t <= s

\* sortedSegmentKeys: dirty files are written lowest number first.
NextDirty(dirty) == CHOOSE s \in dirty : \A t \in dirty : s <= t

\* Mistake: the lock is not released after the last file.
BugLockKept ==
    /\ writer # Idle
    /\ LET s == NextDirty(writer.dirty)
       IN  /\ disk' = [disk EXCEPT ![s] = writer.files[s]]
           /\ writer' = [writer EXCEPT !.dirty = @ \ {s}]
    /\ UNCHANGED torn

\* One rename.  After the last one the append returns and unlocks.
WriteSegment ==
    /\ writer # Idle
    /\ LET s    == NextDirty(writer.dirty)
           rest == writer.dirty \ {s}
       IN  /\ disk' = [disk EXCEPT ![s] = writer.files[s]]
           /\ writer' = IF rest = {} THEN Idle
                        ELSE [writer EXCEPT !.dirty = rest]
           /\ torn' = IF rest = {} THEN torn \ {writer.key}
                      ELSE torn \cup {writer.key}

\* A write fails and the append returns the error, or the process dies: the
\* files not yet renamed stay as they were.
AbandonAppend ==
    /\ writer # Idle
    /\ writer' = Idle
    /\ UNCHANGED <<disk, torn>>

----------------------------------------------------------------------------
\* A log has one kind of user: the master's Coordinator or an agent's Follower.

MasterNext ==
    \/ \E k \in Key : StartAppend(k)
    \/ WriteSegment
    \/ AbandonAppend

AgentNext ==
    \/ \E k \in Key, i \in Index : StartAppendApplied(k, i)
    \/ WriteSegment
    \/ AbandonAppend

MasterSpec == Init /\ [][MasterNext]_vars
AgentSpec == Init /\ [][AgentNext]_vars

----------------------------------------------------------------------------
\* Properties.

\* The indexes of all changes of k the log has ever stored.
History(k) == {ItemAt(disk, p).index : p \in {q \in Places(disk) : ItemAt(disk, q).key = k}}

\* At no moment, also between the two renames of an append, do two items of one
\* key count as current: a replay never delivers a key twice.
AtMostOneOntop ==
    \A k \in Key : \A p, q \in OntopAt(disk, k) : p = q

\* Read segment by segment the log is in index order without a repetition, and
\* every item is in the file its index names.  Latest, which looks at one item
\* only, and the order of a replay depend on it.
IndexesAscend ==
    /\ \A p, q \in Places(disk) :
            Before(p, q) => ItemAt(disk, p).index < ItemAt(disk, q).index
    /\ \A p \in Places(disk) : SegmentOf(ItemAt(disk, p).index) = p[1]

\* The master's log has no hole, whatever writes failed: a follower that is at
\* index n takes only n + 1 from a NORMAL stream and would stop at a hole.
DenseIndexes == {ItemAt(disk, p).index : p \in Places(disk)} = 1..Latest

\* notOverlap of every file is the number of its items that are on top, also
\* when a failed append has left the file half updated.
NotOverlapCounts ==
    \A s \in Segment :
        disk[s].notOverlap =
            Cardinality({j \in DOMAIN disk[s].items : disk[s].items[j].ontop})

\* A replay after any version delivers exactly the newest change of every key
\* changed since, unless the key's last append was torn: then nothing of it.
ReplayComplete ==
    \A k \in Key : \A v \in 0..Latest :
        {item.index : item \in {e \in Since(v) : e.key = k}} =
            IF k \in torn THEN {}
            ELSE {i \in History(k) : i > v /\ \A j \in History(k) : j <= i}

\* lastAffectIndex of an item is 0 or the change of the same key just before it.
LastAffectNearest ==
    \A p \in Places(disk) :
        LET item == ItemAt(disk, p)
        IN  item.last # 0 =>
                /\ item.last \in History(item.key)
                /\ \A i \in History(item.key) : i < item.index => i <= item.last

\* An item as it stands after a change of k.
OverlapedBy(item, k) == [item EXCEPT !.ontop = @ /\ item.key # k]

\* What a running append is about to write is the log as it stands plus one new
\* newest item, with every older item of its key overlaped; and the file that
\* takes the new item is never written before the one that gives the old up.
WriterInv ==
    writer # Idle =>
        LET k == writer.key
            target == SegmentOf(writer.index)
        IN  /\ target \in writer.dirty
            /\ \A s \in writer.dirty : s <= target
            /\ \A p \in Places(disk) : ItemAt(disk, p).index < writer.index
            /\ \A p \in OntopAt(disk, k) :
                    p[1] \in writer.dirty /\ \A s \in writer.dirty : p[1] <= s
            /\ \A s \in Segment :
                    LET old == disk[s].items
                        new == writer.files[s].items
                    IN  /\ Len(new) = Len(old) + (IF s = target THEN 1 ELSE 0)
                        /\ \A j \in DOMAIN old :
                                new[j] = OverlapedBy(old[j], k)
                        /\ s = target =>
                                LET item == new[Len(new)]
                                IN  item.index = writer.index /\ item.key = k /\ item.ontop

\* Nothing already in the log is lost, renumbered or put back on top, by any
\* step: rewriting a segment file keeps every item of it.
HistoryKept ==
    [][\A p \in Places(disk) :
        /\ p \in Places(disk)'
        /\ LET old == ItemAt(disk, p)
               new == ItemAt(disk, p)'
           IN  /\ new.ontop => old.ontop
               /\ new = [old EXCEPT !.ontop = new.ontop]]_vars

\* The change of k a replay has to deliver; 0 if the log knows none.
Top(k) ==
    LET places == OntopAt(disk, k)
    IN  IF places = {} THEN 0 ELSE ItemAt(disk, Nearest(places)).index

Log == INSTANCE CompactedLog WITH latest <- Latest, top <- [k \in Key |-> Top(k)]

\* The segment files implement the compacted log: a change takes effect in one
\* step, and between two of them the log can only forget one key.
ImplementsLog == Log!Spec

\* Every key that was ever published is in the replay of a new subscriber, which
\* starts from version 0, whenever no append is running.
ReplayHasEveryKey ==
    writer = Idle =>
        \A k \in Key : History(k) # {} => \E e \in Since(0) : e.key = k

=============================================================================
