---------------------------- MODULE CompactedLog ----------------------------
(***************************************************************************)
(* What FileWAL promises its callers, without segments, files or writes:   *)
(* a log that numbers changes upwards and remembers, per key, the one      *)
(* change a replay still has to deliver.                                   *)
(*                                                                         *)
(* A key is the pair (event type, hostname) of the code.                   *)
(***************************************************************************)
EXTENDS Integers

CONSTANTS Key, MaxIndex

VARIABLES
    latest,   \* the index of the newest change
    top       \* per key, the index of its change on top; 0 if there is none

vars == <<latest, top>>

TypeOK ==
    /\ latest \in 0..MaxIndex
    /\ top \in [Key -> 0..MaxIndex]

Init ==
    /\ latest = 0
    /\ top = [k \in Key |-> 0]

\* A change of k is stored under a fresh index and replaces the key's old one.
Put(k, i) ==
    /\ i > latest
    /\ latest' = i
    /\ top' = [top EXCEPT ![k] = i]

\* The old change of k has been marked overlaped and the new one is not stored
\* yet: the two are in different segment files.  If the second write never
\* happens the log forgets k until the next change of k.
Lose(k) ==
    /\ top[k] # 0
    /\ top' = [top EXCEPT ![k] = 0]
    /\ UNCHANGED latest

Next == \E k \in Key : Lose(k) \/ \E i \in 1..MaxIndex : Put(k, i)

Spec == Init /\ [][Next]_vars

=============================================================================
