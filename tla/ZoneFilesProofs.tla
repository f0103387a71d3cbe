-------------------------- MODULE ZoneFilesProofs --------------------------
(***************************************************************************)
(* Proofs about the search for the closest zone of a name, for any names,  *)
(* contents and clients: that the candidates are the zones responsible for *)
(* the name, closest first, and that the search keeps its invariant while  *)
(* files are replaced.                                                     *)
(***************************************************************************)
EXTENDS ZoneFiles, SequenceTheorems, TLAPS

----------------------------------------------------------------------------
\* Names are sequences of at least one label.
LEMMA NameIsSeq ==
    ASSUME NEW n \in Names
    PROVE  n \in Seq(Label) /\ Len(n) \in Nat /\ Len(n) > 0
<1>1. n \in Seq(Label) /\ n # <<>>
    BY NamesAssumption
<1> QED
    BY <1>1, EmptySeq

\* What is left of a name without its first labels.
LEMMA Below ==
    ASSUME NEW n \in Names, NEW i \in 1..Len(n)
    PROVE  LET m == SubSeq(n, i, Len(n))
           IN /\ m \in Seq(Label)
              /\ Len(m) = Len(n) - i + 1
              /\ \A k \in 1..Len(m) : m[k] = n[i + k - 1]
              /\ IsSuffix(m, n)
<1> DEFINE m == SubSeq(n, i, Len(n))
<1>1. n \in Seq(Label) /\ Len(n) \in Nat
    BY NameIsSeq
<1>2. \A k \in i..Len(n) : n[k] \in Label
    BY <1>1
<1>3. /\ m \in Seq(Label)
      /\ Len(m) = Len(n) - i + 1
      /\ \A k \in 1..(Len(n) - i + 1) : m[k] = n[i + k - 1]
    BY <1>1, <1>2, SubSeqProperties DEF m
<1>4. IsSuffix(m, n)
    BY <1>1, <1>3 DEF IsSuffix
<1> QED
    BY <1>3, <1>4

\* A suffix is what is left without the labels before it.
LEMMA SuffixIsBelow ==
    ASSUME NEW n \in Names, NEW m \in Seq(Label), Len(m) > 0, IsSuffix(m, n)
    PROVE  /\ Len(n) - Len(m) + 1 \in 1..Len(n)
           /\ m = SubSeq(n, Len(n) - Len(m) + 1, Len(n))
<1> DEFINE i == Len(n) - Len(m) + 1
           s == SubSeq(n, i, Len(n))
<1>1. n \in Seq(Label) /\ Len(n) \in Nat /\ Len(m) \in Nat
    BY NameIsSeq
<1>2. i \in 1..Len(n)
    BY <1>1 DEF IsSuffix
<1>3. s \in Seq(Label) /\ Len(s) = Len(m) /\ \A k \in 1..Len(s) : s[k] = n[i + k - 1]
    BY <1>1, <1>2, Below
<1>4. \A k \in 1..Len(m) : m[k] = s[k]
  <2> TAKE k \in 1..Len(m)
  <2>1. m[k] = n[Len(n) - Len(m) + k]
    BY DEF IsSuffix
  <2>2. i + k - 1 = Len(n) - Len(m) + k
    BY <1>1
  <2> QED
    BY <1>3, <2>1, <2>2
<1>5. m = s
    BY <1>3, <1>4, SeqEqual
<1> QED
    BY <1>2, <1>5

\* The wildcard label in front of a sequence of labels.
LEMMA WildConcat ==
    ASSUME NEW t \in Seq(Label)
    PROVE  /\ <<Wild>> \o t \in Seq(Label)
           /\ Len(<<Wild>> \o t) = Len(t) + 1
           /\ (<<Wild>> \o t)[1] = Wild
           /\ \A k \in 1..Len(t) : (<<Wild>> \o t)[k + 1] = t[k]
<1>1. <<Wild>> \in Seq(Label) /\ Len(<<Wild>>) = 1 /\ <<Wild>>[1] = Wild
  <2>1. Wild \in Label
    BY NamesAssumption
  <2> QED
    BY <2>1
<1>2. Len(t) \in Nat
    OBVIOUS
<1> DEFINE w == <<Wild>>
<1>3. w \in Seq(Label) /\ Len(w) = 1 /\ w[1] = Wild
    BY <1>1
<1> HIDE DEF w
<1>4. /\ w \o t \in Seq(Label)
      /\ Len(w \o t) = Len(w) + Len(t)
      /\ \A k \in 1..(Len(w) + Len(t)) : (w \o t)[k] = IF k <= Len(w) THEN w[k] ELSE t[k - Len(w)]
    BY <1>3, ConcatProperties
<1>5. (w \o t)[1] = Wild
    BY <1>2, <1>3, <1>4
<1>6. \A k \in 1..Len(t) : (w \o t)[k + 1] = t[k]
  <2> TAKE k \in 1..Len(t)
  <2>1. k + 1 \in 1..(Len(w) + Len(t)) /\ ~ (k + 1 <= Len(w)) /\ (k + 1) - Len(w) = k
    BY <1>2, <1>3
  <2> QED
    BY <1>4, <2>1
<1> QED
    BY <1>2, <1>3, <1>4, <1>5, <1>6 DEF w

\* Its tail is what it stands before.
LEMMA WildTail ==
    ASSUME NEW t \in Seq(Label)
    PROVE  Tail(<<Wild>> \o t) = t
<1> DEFINE m == <<Wild>> \o t
<1>1. m \in Seq(Label) /\ Len(m) = Len(t) + 1 /\ \A k \in 1..Len(t) : m[k + 1] = t[k]
    BY WildConcat
<1> HIDE DEF m
<1>2. m # <<>>
    BY <1>1, EmptySeq
<1>3. /\ Tail(m) \in Seq(Label) /\ Len(Tail(m)) = Len(m) - 1
      /\ \A k \in 1..Len(Tail(m)) : Tail(m)[k] = m[k + 1]
    BY <1>1, <1>2, HeadTailProperties
<1>4. Len(Tail(m)) = Len(t) /\ \A k \in 1..Len(t) : Tail(m)[k] = t[k]
    BY <1>1, <1>3
<1>5. Tail(m) = t
    BY <1>3, <1>4, SeqEqual
<1> QED
    BY <1>5 DEF m

\* A wildcard for the names below what is left of a name.
LEMMA WildBelow ==
    ASSUME NEW n \in Names, NEW i \in 2..Len(n)
    PROVE  LET m == <<Wild>> \o SubSeq(n, i, Len(n))
           IN /\ m \in Seq(Label)
              /\ Len(m) = Len(n) - i + 2
              /\ m[1] = Wild
              /\ Tail(m) = SubSeq(n, i, Len(n))
<1> DEFINE s == SubSeq(n, i, Len(n))
<1>1. i \in 1..Len(n) /\ Len(n) \in Nat
    BY NameIsSeq
<1>2. s \in Seq(Label) /\ Len(s) = Len(n) - i + 1
    BY <1>1, Below
<1> HIDE DEF s
<1>3. /\ <<Wild>> \o s \in Seq(Label)
      /\ Len(<<Wild>> \o s) = Len(n) - i + 2
      /\ (<<Wild>> \o s)[1] = Wild
  <2>1. /\ <<Wild>> \o s \in Seq(Label)
        /\ Len(<<Wild>> \o s) = Len(s) + 1
        /\ (<<Wild>> \o s)[1] = Wild
    BY <1>2, WildConcat
  <2>2. Len(s) + 1 = Len(n) - i + 2
    BY <1>1, <1>2
  <2> QED
    BY <2>1, <2>2
<1>4. Tail(<<Wild>> \o s) = s
    BY <1>2, WildTail
<1> QED
    BY <1>3, <1>4 DEF s

\* A sequence that begins with the wildcard is the wildcard of its tail.
LEMMA WildAndTail ==
    ASSUME NEW m \in Seq(Label), Len(m) > 1, m[1] = Wild
    PROVE  m = <<Wild>> \o Tail(m) /\ Tail(m) \in Seq(Label) /\ Len(Tail(m)) = Len(m) - 1
<1> DEFINE t == <<Wild>> \o Tail(m)
<1>1. m # <<>>
    BY EmptySeq
<1>2. /\ Tail(m) \in Seq(Label) /\ Len(Tail(m)) = Len(m) - 1 /\ Len(m) \in Nat
      /\ \A k \in 1..Len(Tail(m)) : Tail(m)[k] = m[k + 1]
    BY <1>1, HeadTailProperties, EmptySeq
<1>3. /\ t \in Seq(Label) /\ Len(t) = Len(m) /\ t[1] = Wild
      /\ \A k \in 1..Len(Tail(m)) : t[k + 1] = Tail(m)[k]
    BY <1>2, WildConcat
<1> HIDE DEF t
<1>4. \A k \in 1..Len(t) : t[k] = m[k]
  <2> TAKE k \in 1..Len(t)
  <2>1. CASE k = 1
    BY <1>3, <2>1
  <2>2. CASE k > 1
    <3> DEFINE j == k - 1
    <3>1. j \in 1..Len(Tail(m)) /\ j + 1 = k
      BY <1>2, <1>3, <2>2
    <3> QED
      BY <1>2, <1>3, <3>1
  <2> QED
    BY <1>2, <1>3, <2>1, <2>2
<1>5. t = m
    BY <1>3, <1>4, SeqEqual
<1> QED
    BY <1>2, <1>5 DEF t

----------------------------------------------------------------------------
\* Each candidate is responsible for the name, and has this length.
LEMMA CandidateResponsible ==
    ASSUME NEW kind \in Kinds, NEW n \in Names, NEW i \in 1..Len(n)
    PROVE  LET m == CandidateZones(kind, n)[i]
           IN /\ m \in Responsible(kind, n)
              /\ i = 1 => m = n
              /\ Len(m) = IF kind = "dns" \/ i = 1 THEN Len(n) - i + 1 ELSE Len(n) - i + 2
<1> DEFINE m == CandidateZones(kind, n)[i]
<1>1. n \in Seq(Label) /\ Len(n) \in Nat /\ m \in Names
    BY NameIsSeq, NamesAssumption
<1>2. i = 1 => SubSeq(n, i, Len(n)) = n
    BY <1>1, SubSeqFull
<1>3. CASE kind = "dns"
  <2>1. m = SubSeq(n, i, Len(n))
    BY <1>3 DEF CandidateZones, DNSCandidates
  <2>2. IsSuffix(m, n) /\ Len(m) = Len(n) - i + 1
    BY <2>1, Below
  <2> QED
    BY <1>1, <1>2, <1>3, <2>1, <2>2 DEF Responsible
<1>4. CASE kind # "dns" /\ i = 1
  <2>1. m = n
    BY <1>4 DEF CandidateZones, IngressCandidates
  <2> QED
    BY <1>1, <1>4, <2>1 DEF Responsible
<1>5. CASE kind # "dns" /\ i # 1
  <2> DEFINE s == SubSeq(n, i, Len(n))
  <2>1. m = <<Wild>> \o s
    BY <1>5 DEF CandidateZones, IngressCandidates
  <2>2. i \in 2..Len(n)
    BY <1>1, <1>5
  <2>3. Len(m) = Len(n) - i + 2 /\ m[1] = Wild /\ Tail(m) = s
    BY <2>1, <2>2, WildBelow
  <2>4. IsSuffix(s, n)
    BY Below
  <2>5. Len(m) <= Len(n) /\ Len(m) > 1
    BY <1>1, <2>2, <2>3
  <2> QED
    BY <1>1, <1>5, <2>3, <2>4, <2>5 DEF Responsible
<1> QED
    BY <1>3, <1>4, <1>5

\* Each responsible zone is a candidate.
LEMMA ResponsibleCandidate ==
    ASSUME NEW kind \in Kinds, NEW n \in Names, NEW m \in Responsible(kind, n)
    PROVE  \E i \in 1..Len(n) : m = CandidateZones(kind, n)[i]
<1>1. n \in Seq(Label) /\ Len(n) \in Nat /\ Len(n) > 0 /\ m \in Names
    BY NameIsSeq DEF Responsible
<1>2. m \in Seq(Label) /\ Len(m) \in Nat /\ Len(m) > 0
    BY <1>1, NameIsSeq
<1>3. CASE kind = "dns"
  <2> DEFINE i == Len(n) - Len(m) + 1
  <2>1. i \in 1..Len(n) /\ m = SubSeq(n, i, Len(n))
    BY <1>2, <1>3, SuffixIsBelow DEF Responsible
  <2>2. m = CandidateZones(kind, n)[i]
    BY <1>3, <2>1 DEF CandidateZones, DNSCandidates
  <2> QED
    BY <2>1, <2>2
<1>4. CASE kind # "dns" /\ m = n
  <2>1. 1 \in 1..Len(n)
    BY <1>1
  <2>2. m = CandidateZones(kind, n)[1]
    BY <1>4, <2>1 DEF CandidateZones, IngressCandidates
  <2> QED
    BY <2>1, <2>2
<1>5. CASE kind # "dns" /\ m # n
  <2>1. Len(m) <= Len(n) /\ Len(m) > 1 /\ m[1] = Wild /\ IsSuffix(Tail(m), n)
    BY <1>5 DEF Responsible
  <2>2. /\ m = <<Wild>> \o Tail(m)
        /\ Tail(m) \in Seq(Label) /\ Len(Tail(m)) = Len(m) - 1
    BY <1>2, <2>1, WildAndTail
  <2> DEFINE t == Tail(m)
           i == Len(n) - Len(t) + 1
  <2>6. t \in Seq(Label) /\ Len(t) > 0 /\ IsSuffix(t, n)
    BY <1>2, <2>1, <2>2
  <2> HIDE DEF t
  <2>7. i \in 1..Len(n) /\ t = SubSeq(n, i, Len(n))
    BY <2>6, SuffixIsBelow
  <2>3. i \in 1..Len(n) /\ Tail(m) = SubSeq(n, i, Len(n))
    BY <2>7 DEF t
  <2>4. i # 1
    BY <1>1, <1>2, <2>1, <2>2 DEF t
  <2>5. m = CandidateZones(kind, n)[i]
    BY <1>5, <2>2, <2>3, <2>4 DEF CandidateZones, IngressCandidates
  <2> QED
    BY <2>3, <2>5
<1> QED
    BY <1>3, <1>4, <1>5

\* A closer zone is an earlier candidate.
LEMMA CloserIsEarlier ==
    ASSUME NEW kind \in Kinds, NEW n \in Names, NEW i \in 1..Len(n),
           NEW m \in Responsible(kind, n), Closer(m, CandidateZones(kind, n)[i], n)
    PROVE  \E j \in 1..(i - 1) : m = CandidateZones(kind, n)[j]
<1> DEFINE at == CandidateZones(kind, n)[i]
<1>1. Len(n) \in Nat /\ Len(n) > 0
    BY NameIsSeq
<1>2. i # 1
    BY CandidateResponsible DEF Closer
<1>3. CASE m = n
  <2>1. 1 \in 1..Len(n) /\ 1 \in 1..(i - 1)
    BY <1>1, <1>2
  <2>2. CandidateZones(kind, n)[1] = n
    BY <2>1, CandidateResponsible
  <2> QED
    BY <1>3, <2>1, <2>2
<1>4. CASE m # n
  <2>1. Len(m) > Len(at)
    BY <1>4 DEF Closer
  <2>2. PICK j \in 1..Len(n) : m = CandidateZones(kind, n)[j]
    BY ResponsibleCandidate
  <2>3. j # 1
    BY <1>4, <2>2, CandidateResponsible
  <2>4. Len(m) = IF kind = "dns" THEN Len(n) - j + 1 ELSE Len(n) - j + 2
    BY <2>2, <2>3, CandidateResponsible
  <2>5. Len(at) = IF kind = "dns" THEN Len(n) - i + 1 ELSE Len(n) - i + 2
    BY <1>2, CandidateResponsible
  <2>6. j < i
    BY <1>1, <2>1, <2>4, <2>5
  <2> QED
    BY <2>2, <2>6
<1> QED
    BY <1>3, <1>4

----------------------------------------------------------------------------
\* The candidates a search has left behind were not there, and what is not there now is
\* remembered as long as it goes on.
SearchInv ==
    \A c \in Client :
        walk[c] # None =>
            LET w == walk[c]
                zones == CandidateZones(w.kind, w.name)
            IN /\ w.pos \in 1..Len(w.name)
               /\ \A i \in 1..(w.pos - 1) : zones[i] \in gone[c]
               /\ w.status = "missing" => w.pos = Len(w.name) /\ zones[w.pos] \in gone[c]
               /\ w.status = "opening" =>
                    \A m \in Names : files[w.kind][m] = Absent => m \in gone[c]

\* Zone files, and what a search has found, come from changes of their kind.
Published(kind, content) ==
    \E change \in Changes : change.kind = kind /\ change.content = content

ContentsInv ==
    /\ \A kind \in Kinds, n \in Names :
            files[kind][n] # Absent => Published(kind, files[kind][n])
    /\ \A c \in Client :
            walk[c] # None /\ walk[c].status = "found" =>
                walk[c].zone # Bad /\ Published(walk[c].kind, walk[c].zone)

FilesInv == FilesTyped /\ WalksTyped /\ SearchInv /\ ContentsInv

\* A search that keeps the invariant finds the closest zone.
LEMMA SearchFindsClosest == FilesInv => ClosestZone
<1> SUFFICES ASSUME FilesInv, NEW c \in Client, walk[c] # None
             PROVE  LET w == walk[c]
                        zones == Responsible(w.kind, w.name)
                        at == CandidateZones(w.kind, w.name)[w.pos]
                    IN /\ w.status = "found" =>
                            at \in zones /\ \A m \in zones : Closer(m, at, w.name) => m \in gone[c]
                       /\ w.status = "missing" => zones \subseteq gone[c]
    BY DEF ClosestZone
<1> DEFINE w == walk[c]
           zones == Responsible(w.kind, w.name)
<1>1. /\ w.kind \in Kinds /\ w.name \in Names
      /\ w.pos \in 1..Len(w.name)
      /\ \A i \in 1..(w.pos - 1) : CandidateZones(w.kind, w.name)[i] \in gone[c]
      /\ w.status = "missing" =>
            w.pos = Len(w.name) /\ CandidateZones(w.kind, w.name)[w.pos] \in gone[c]
    BY DEF FilesInv, WalksTyped, Walk, SearchInv
<1> HIDE DEF w
<1>2. CandidateZones(w.kind, w.name)[w.pos] \in zones
    BY <1>1, CandidateResponsible
<1>3. ASSUME NEW m \in zones, Closer(m, CandidateZones(w.kind, w.name)[w.pos], w.name)
      PROVE  m \in gone[c]
    BY <1>1, <1>3, CloserIsEarlier
<1>4. ASSUME w.status = "missing", NEW m \in zones PROVE m \in gone[c]
  <2>1. PICK i \in 1..Len(w.name) : m = CandidateZones(w.kind, w.name)[i]
    BY <1>1, ResponsibleCandidate
  <2>2. i \in 1..(w.pos - 1) \/ i = w.pos
    BY <1>1, <1>4, <2>1, NameIsSeq
  <2> QED
    BY <1>1, <1>4, <2>1, <2>2
<1> QED
    BY <1>2, <1>3, <1>4 DEF w

\* No files, no search.
LEMMA FilesInitInv == FilesInit => FilesInv
BY ContentsAssumption
   DEF FilesInit, FilesInv, FilesTyped, WalksTyped, SearchInv, ContentsInv

\* A zone file is removed: each search of its kind sees that it was gone.
LEMMA RemoveKeepsInv ==
    ASSUME FilesInv, NEW change \in Changes, Remove(change)
    PROVE  FilesInv'
<1>1. /\ change.kind \in Kinds /\ change.name \in Names
      /\ MaxWrites \in Nat /\ Absent \notin Contents /\ None \notin Changes
    BY ContentsAssumption
<1>2. FilesTyped' /\ WalksTyped'
    BY <1>1 DEF FilesInv, FilesTyped, WalksTyped, Remove
<1>3. ASSUME NEW kind \in Kinds, NEW m \in Names
      PROVE  files'[kind][m] = IF kind = change.kind /\ m = change.name THEN Absent
                               ELSE files[kind][m]
    BY <1>1 DEF FilesInv, FilesTyped, Remove
<1>4. SearchInv'
  <2> SUFFICES ASSUME NEW c \in Client, walk'[c] # None
               PROVE  LET w == walk'[c]
                          zones == CandidateZones(w.kind, w.name)
                      IN /\ w.pos \in 1..Len(w.name)
                         /\ \A i \in 1..(w.pos - 1) : zones[i] \in gone'[c]
                         /\ w.status = "missing" => w.pos = Len(w.name) /\ zones[w.pos] \in gone'[c]
                         /\ w.status = "opening" =>
                              \A m \in Names : files'[w.kind][m] = Absent => m \in gone'[c]
    BY DEF SearchInv
  <2>1. walk'[c] = walk[c] /\ gone[c] \subseteq gone'[c]
    BY DEF Remove
  <2>2. walk[c].kind \in Kinds
    BY <2>1 DEF FilesInv, WalksTyped, Walk
  <2>3. ASSUME walk[c].status = "opening", NEW m \in Names, files'[walk[c].kind][m] = Absent
        PROVE  m \in gone'[c]
    <3>1. CASE walk[c].kind = change.kind /\ m = change.name
      BY <2>1, <2>3, <3>1 DEF Remove, Opening
    <3>2. CASE ~ (walk[c].kind = change.kind /\ m = change.name)
      BY <1>3, <2>1, <2>2, <2>3, <3>2 DEF FilesInv, SearchInv
    <3> QED
      BY <3>1, <3>2
  <2> QED
    BY <2>1, <2>3 DEF FilesInv, SearchInv
<1>5. ContentsInv'
    BY <1>3 DEF FilesInv, ContentsInv, Remove, Published
<1> QED
    BY <1>2, <1>4, <1>5 DEF FilesInv

\* The new file takes its place.
LEMMA RenameKeepsInv == FilesInv /\ Rename => FilesInv'
<1> SUFFICES ASSUME FilesInv, Rename PROVE FilesInv'
    OBVIOUS
<1>1. /\ writer \in Changes
      /\ writer.kind \in Kinds /\ writer.name \in Names /\ writer.content \in Contents
      /\ Absent \notin Contents /\ None \notin Changes
    BY ContentsAssumption DEF FilesInv, FilesTyped, Rename
<1>2. FilesTyped' /\ WalksTyped'
    BY <1>1 DEF FilesInv, FilesTyped, WalksTyped, Rename
<1>3. ASSUME NEW kind \in Kinds, NEW m \in Names
      PROVE  files'[kind][m] = IF kind = writer.kind /\ m = writer.name THEN writer.content
                               ELSE files[kind][m]
    BY <1>1 DEF FilesInv, FilesTyped, Rename
<1>4. SearchInv'
  <2>1. ASSUME NEW kind \in Kinds, NEW m \in Names, files'[kind][m] = Absent
        PROVE  files[kind][m] = Absent
    BY <1>1, <1>3, <2>1
  <2>2. \A c \in Client : walk[c] # None => walk[c].kind \in Kinds
    BY DEF FilesInv, WalksTyped, Walk
  <2> QED
    BY <2>1, <2>2 DEF FilesInv, SearchInv, Rename
<1>5. ContentsInv'
    BY <1>1, <1>3 DEF FilesInv, ContentsInv, Rename, Published
<1> QED
    BY <1>2, <1>4, <1>5 DEF FilesInv

\* It does not.
LEMMA RenameFailsKeepsInv == FilesInv /\ RenameFails => FilesInv'
BY DEF FilesInv, FilesTyped, WalksTyped, SearchInv, ContentsInv, Published, RenameFails

\* A search begins.
LEMMA StartWalkKeepsInv ==
    ASSUME FilesInv, NEW c \in Client, NEW kind \in Kinds, NEW name \in Names,
           StartWalk(c, kind, name)
    PROVE  FilesInv'
<1> DEFINE new == [kind |-> kind, name |-> name, pos |-> 1, status |-> "opening", zone |-> Absent]
<1>1. /\ walk' = [walk EXCEPT ![c] = new]
      /\ gone' = [gone EXCEPT ![c] = {n \in Names : files[kind][n] = Absent}]
      /\ UNCHANGED <<files, writer, writes>>
    BY DEF StartWalk
<1>2. new \in Walk
    BY DEF Walk
<1>3. FilesTyped' /\ WalksTyped'
    BY <1>1, <1>2 DEF FilesInv, FilesTyped, WalksTyped
<1>4. 1 \in 1..Len(name)
    BY NameIsSeq
<1>5. SearchInv'
    BY <1>1, <1>4 DEF FilesInv, WalksTyped, SearchInv
<1>6. ContentsInv'
    BY <1>1 DEF FilesInv, WalksTyped, ContentsInv, Published
<1> QED
    BY <1>3, <1>5, <1>6 DEF FilesInv

\* A candidate is opened.
LEMMA OpenZoneKeepsInv ==
    ASSUME FilesInv, NEW c \in Client, OpenZone(c)
    PROVE  FilesInv'
<1> DEFINE w == walk[c]
           zone == CandidateZones(w.kind, w.name)[w.pos]
           file == files[w.kind][zone]
           new == AfterOpen(w, file)
<1>1. /\ w # None /\ w.status = "opening"
      /\ walk' = [walk EXCEPT ![c] = new]
      /\ UNCHANGED <<files, writer, writes, gone>>
    BY DEF OpenZone, Opening
<1>2. /\ w \in Walk
      /\ w.kind \in Kinds /\ w.name \in Names /\ w.pos \in Nat \ {0}
      /\ w.pos \in 1..Len(w.name) /\ Len(w.name) \in Nat
    BY <1>1, NameIsSeq DEF FilesInv, WalksTyped, SearchInv, Walk
<1>3. zone \in Names /\ file \in Contents \cup {Absent} /\ Bad \in Contents
      /\ Absent \notin Contents
    BY <1>2, NamesAssumption, ContentsAssumption DEF FilesInv, FilesTyped
<1>4. /\ file = Absent => zone \in gone[c]
      /\ file # Absent => Published(w.kind, file)
    BY <1>1, <1>2, <1>3 DEF FilesInv, SearchInv, ContentsInv
<1> HIDE DEF w, zone, file
<1>5. /\ new \in Walk
      /\ new.kind = w.kind /\ new.name = w.name
      /\ \/ file = Absent /\ w.pos = Len(w.name) /\ new.pos = w.pos /\ new.status = "missing"
         \/ file = Absent /\ w.pos < Len(w.name) /\ new.pos = w.pos + 1 /\ new.status = "opening"
         \/ file = Bad /\ new.pos = w.pos /\ new.status = "failed"
         \/ /\ file # Absent /\ file # Bad
            /\ new.pos = w.pos /\ new.status = "found" /\ new.zone = file
  <2>1. CASE file = Absent /\ w.pos = Len(w.name)
    <3>1. new = [w EXCEPT !.status = "missing"]
      BY <1>2, <1>3, <2>1 DEF AfterOpen
    <3> QED
      BY <1>2, <2>1, <3>1 DEF Walk
  <2>2. CASE file = Absent /\ w.pos < Len(w.name)
    <3>1. new = [w EXCEPT !.pos = w.pos + 1]
      BY <1>2, <1>3, <2>2 DEF AfterOpen
    <3>2. w.pos + 1 \in Nat \ {0}
      BY <1>2
    <3> QED
      BY <1>1, <1>2, <2>2, <3>1, <3>2 DEF Walk
  <2>3. CASE file = Bad
    <3>1. new = [w EXCEPT !.status = "failed"]
      BY <1>3, <2>3 DEF AfterOpen
    <3> QED
      BY <1>2, <2>3, <3>1 DEF Walk
  <2>4. CASE file # Absent /\ file # Bad
    <3>1. new = [w EXCEPT !.status = "found", !.zone = file]
      BY <2>4 DEF AfterOpen
    <3> QED
      BY <1>2, <1>3, <2>4, <3>1 DEF Walk
  <2>5. w.pos = Len(w.name) \/ w.pos < Len(w.name)
    BY <1>2
  <2> QED
    BY <2>1, <2>2, <2>3, <2>4, <2>5
<1> HIDE DEF new
<1>6. FilesTyped' /\ WalksTyped'
    BY <1>1, <1>5 DEF FilesInv, FilesTyped, WalksTyped
<1>7. walk'[c] = new /\ \A d \in Client : d # c => walk'[d] = walk[d]
    BY <1>1 DEF FilesInv, WalksTyped
<1>8. SearchInv'
  <2>1. /\ \A i \in 1..(w.pos - 1) : CandidateZones(w.kind, w.name)[i] \in gone[c]
        /\ \A m \in Names : files[w.kind][m] = Absent => m \in gone[c]
    BY <1>1 DEF FilesInv, SearchInv, w
  <2>2. /\ new.pos \in 1..Len(new.name)
        /\ \A i \in 1..(new.pos - 1) : CandidateZones(new.kind, new.name)[i] \in gone[c]
        /\ new.status = "missing" =>
                new.pos = Len(new.name) /\ CandidateZones(new.kind, new.name)[new.pos] \in gone[c]
    <3>1. CASE new.pos = w.pos
      BY <1>2, <1>4, <1>5, <2>1, <3>1 DEF zone
    <3>2. CASE file = Absent /\ w.pos < Len(w.name) /\ new.pos = w.pos + 1 /\ new.status = "opening"
      <4>1. \A i \in 1..(new.pos - 1) : i \in 1..(w.pos - 1) \/ i = w.pos
        BY <1>2, <3>2
      <4> QED
        BY <1>2, <1>4, <1>5, <2>1, <3>2, <4>1 DEF zone
    <3> QED
      BY <1>5, <3>1, <3>2
  <2>3. new.status = "opening" => \A m \in Names : files[new.kind][m] = Absent => m \in gone[c]
    BY <1>5, <2>1
  <2> QED
    BY <1>1, <1>7, <2>2, <2>3 DEF FilesInv, SearchInv
<1>9. ContentsInv'
    BY <1>1, <1>4, <1>5, <1>7 DEF FilesInv, ContentsInv, Published
<1> QED
    BY <1>6, <1>8, <1>9 DEF FilesInv

\* It cannot be opened.
LEMMA OpenFailsKeepsInv ==
    ASSUME FilesInv, NEW c \in Client, OpenFails(c)
    PROVE  FilesInv'
<1> DEFINE new == [walk[c] EXCEPT !.status = "failed"]
<1>1. /\ walk[c] # None /\ walk[c] \in Walk
      /\ walk' = [walk EXCEPT ![c] = new]
      /\ UNCHANGED <<files, writer, writes, gone>>
    BY DEF OpenFails, Opening, FilesInv, WalksTyped
<1>2. /\ new \in Walk
      /\ new.kind = walk[c].kind /\ new.name = walk[c].name /\ new.pos = walk[c].pos
      /\ new.status = "failed"
    BY <1>1 DEF Walk
<1> HIDE DEF new
<1>3. walk'[c] = new /\ \A d \in Client : d # c => walk'[d] = walk[d]
    BY <1>1 DEF FilesInv, WalksTyped
<1>4. FilesTyped' /\ WalksTyped'
    BY <1>1, <1>2 DEF FilesInv, FilesTyped, WalksTyped
<1>5. SearchInv'
    BY <1>1, <1>2, <1>3 DEF FilesInv, SearchInv
<1>6. ContentsInv'
    BY <1>1, <1>2, <1>3 DEF FilesInv, ContentsInv, Published
<1> QED
    BY <1>4, <1>5, <1>6 DEF FilesInv

\* Nothing happens to files and searches.
LEMMA FilesStutter == FilesInv /\ UNCHANGED vars => FilesInv'
BY DEF FilesInv, FilesTyped, WalksTyped, SearchInv, ContentsInv, Published, vars

=============================================================================
