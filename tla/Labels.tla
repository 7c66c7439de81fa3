------------------------------- MODULE Labels -------------------------------
(***************************************************************************)
(* The label set (labels.hpp): a vector kept sorted by name with the last  *)
(* of equal names, and a hash computed on demand and kept.  Objects are    *)
(* built, written, merged, copied, moved from and hashed in any order.     *)
(* Names and values are numbers: only their order and equality count; a    *)
(* hash is the content it was computed over.                               *)
(***************************************************************************)
EXTENDS Integers, SequencesExt

CONSTANTS
  Objects,             \* the Labels objects
  LastName,            \* the largest label name
  Values,              \* label values
  MaxLength            \* bound: the length of the lists sets are built from

ASSUME LabelsAssumption ==
  /\ LastName \in Nat
  /\ MaxLength \in Nat

Names == 1..LastName
Label == [name : Names, value : Values]
Lists == SeqOf(Label, MaxLength)
Contents == SeqOf(Label, Cardinality(Names))
Maps == UNION {[N -> Values] : N \in SUBSET Names}

VARIABLES
  object,              \* object[o]: its labels, and its cached hash if it has one
  written,             \* history: the map its writes amount to, last one wins
  movedFrom            \* history: the objects moved from and not written since

vars == <<object, written, movedFrom>>

Empty == <<>>                                             \* the map of no label
Default == [labels |-> <<>>, hash_valid |-> FALSE, hash |-> <<>>]

TypeOK ==
  /\ object \in [Objects -> [labels : Contents, hash_valid : BOOLEAN, hash : Contents]]
  /\ written \in [Objects -> Maps]
  /\ movedFrom \subseteq Objects

Init ==
  /\ object = [o \in Objects |-> Default]
  /\ written = [o \in Objects |-> Empty]
  /\ movedFrom = {}

----------------------------------------------------------------------------

\* The labels of a list at the positions kept, in their order.
Keep(list, positions) ==
  FlattenSeq([i \in DOMAIN list |-> IF i \in positions THEN <<list[i]>> ELSE <<>>])

\* Stable: labels of equal names keep their order.
OfName(list, n) == Keep(list, {i \in DOMAIN list : list[i].name = n})
StableSort(list) == FlattenSeq([n \in Names |-> OfName(list, n)])

ShadowedByPrevious(list, i) ==                            \* mutant of Shadowed
  i > 1 /\ list[i].name = list[i - 1].name
LooksTooFar(list, i) ==                                   \* mutant of Shadowed
  i + 2 <= Len(list) /\ list[i].name = list[i + 1].name
Shadowed(list, i) == i + 1 <= Len(list) /\ list[i].name = list[i + 1].name

Collapse(list) == Keep(list, {i \in DOMAIN list : ~Shadowed(list, i)})

KeepsHash(labels, list) ==                                \* mutant of Normalize
  [labels EXCEPT !.labels = Collapse(StableSort(list))]
Normalize(labels, list) ==
  [labels EXCEPT !.labels = Collapse(StableSort(list)), !.hash_valid = FALSE]

\* What writing over a map amounts to: another map, a label, a list of them.
Overlaid(map, over) ==
  [n \in DOMAIN map \union DOMAIN over |-> IF n \in DOMAIN over THEN over[n] ELSE map[n]]
Put(map, l) == Overlaid(map, [n \in {l.name} |-> l.value])
Writes(map, list) ==
  LET writes[i \in 0..Len(list)] == IF i = 0 THEN map ELSE Put(writes[i - 1], list[i])
  IN writes[Len(list)]

Becomes(o, labels, map) ==
  /\ object' = [object EXCEPT ![o] = labels]
  /\ written' = [written EXCEPT ![o] = map]
  /\ movedFrom' = movedFrom \ {o}

Construct(o) == \E list \in Lists : Becomes(o, Normalize(Default, list), Writes(Empty, list))

\* set on a moved-from object starts from the empty vector it was left.
Set(o) ==
  \E l \in Label :
    Becomes(o, Normalize(object[o], Append(object[o].labels, l)), Put(written[o], l))

ThisWins(o, p) == object[p].labels \o object[o].labels    \* mutant of Combined
Combined(o, p) == object[o].labels \o object[p].labels

\* q becomes o.merged_with(p).
Merge(o, p, q) ==
  Becomes(q, Normalize(Default, Combined(o, p)), Overlaid(written[o], written[p]))

\* The defaulted copies copy the cached hash, also that of a moved-from object.
Copy(o, p) ==
  /\ object' = [object EXCEPT ![p] = object[o]]
  /\ written' = [written EXCEPT ![p] = written[o]]
  /\ movedFrom' = IF o \in movedFrom THEN movedFrom \union {p} ELSE movedFrom \ {p}

\* The defaulted moves take the vector and leave the cached hash behind.
Move(o, p) ==
  /\ o # p
  /\ object' = [object EXCEPT ![p] = object[o], ![o].labels = <<>>]
  /\ written' = [written EXCEPT ![p] = written[o], ![o] = Empty]
  /\ movedFrom' = (IF o \in movedFrom THEN movedFrom \union {p} ELSE movedFrom \ {p}) \union {o}

\* What hash() returns.
Hash(o) == IF object[o].hash_valid THEN object[o].hash ELSE object[o].labels

ComputeHash(o) ==
  /\ object' = [object EXCEPT ![o].hash = Hash(o), ![o].hash_valid = TRUE]
  /\ UNCHANGED <<written, movedFrom>>

Next ==
  \E o \in Objects :
    \/ Construct(o) \/ Set(o) \/ ComputeHash(o)
    \/ \E p \in Objects : Copy(o, p) \/ Move(o, p) \/ \E q \in Objects : Merge(o, p, q)

Spec == Init /\ [][Next]_vars

----------------------------------------------------------------------------
(* Properties.                                                             *)

\* The labels are sorted by name, one for each name, and the value is the one
\* written last; of two merged sets the other wins.  In particular two sets
\* are equal as vectors when their writes amount to the same map.
ViewIsTheMap ==
  \A o \in Objects :
    LET labels == object[o].labels IN
    /\ \A i, j \in DOMAIN labels : i < j => labels[i].name < labels[j].name
    /\ {<<labels[i].name, labels[i].value>> : i \in DOMAIN labels}
         = {<<n, written[o][n]>> : n \in DOMAIN written[o]}

\* Sets that are equal hash to the same, and others over other content, however
\* they came about and whenever each was hashed, as a key of the caches of
\* adapters must.  (A set that was moved from is empty and keeps its old hash.)
EqualSetsHashEqual ==
  \A o, p \in Objects \ movedFrom : object[o].labels = object[p].labels <=> Hash(o) = Hash(p)
=============================================================================
