----------------------------- MODULE Decoration -----------------------------
(***************************************************************************)
(* The live decoration of metric_base.hpp (DecorationState): a name prefix,*)
(* constant labels and display metadata, each behind the state's mutex,    *)
(* with a version that every setter bumps after it has released the mutex. *)
(* A scope's decoration ("self") chains onto the process-wide one          *)
(* ("parent"); a registry's or a standalone metric's has no parent.        *)
(*                                                                         *)
(* What is stored does not matter to any decision of the code, only which  *)
(* store it comes from: a slot (a field of a decoration) holds the number  *)
(* of the store that last wrote it.                                        *)
(***************************************************************************)
EXTENDS Naturals

CONSTANTS
  Fields,              \* the fields followed: prefix, labels, display
  HasParent,           \* whether the decoration chains onto the global one
  SetterFields,        \* the sets of fields the program's setter calls write
  MaxWrites            \* bound: stores per decoration in one behaviour

Decos == IF HasParent THEN {"self", "parent"} ELSE {"self"}
Slots == Decos \X Fields

ASSUME DecorationAssumption ==
  /\ Fields \subseteq {"prefix", "labels", "display"} /\ Fields # {}
  /\ HasParent \in BOOLEAN
  /\ SetterFields \subseteq (SUBSET Fields)
  /\ MaxWrites \in Nat

VARIABLES
  config,              \* config[<<d, f>>]: prefix_, const_labels_, display_ of d
  writes,              \* history: how many stores d has seen
  decoVersion,         \* version_ of d
  decoPending,         \* stores whose setter has not bumped the version yet
  decoDone             \* history: newest store of a slot whose setter returned

decoVars == <<config, writes, decoVersion, decoPending, decoDone>>

Stores == [deco : Decos, fields : SUBSET Fields, number : Nat]

DecoTypeOK ==
  /\ config \in [Slots -> Nat]
  /\ writes \in [Decos -> Nat]
  /\ decoVersion \in [Decos -> Nat]
  /\ decoPending \subseteq Stores
  /\ decoDone \in [Slots -> Nat]

DecoInit ==
  /\ config = [s \in Slots |-> 0]
  /\ writes = [d \in Decos |-> 0]
  /\ decoVersion = [d \in Decos |-> 1]
  /\ decoPending = {}
  /\ decoDone = [s \in Slots |-> 0]

\* The first half of set_prefix, set_const_labels, add_const_label and
\* set_display (one field) and of configure (all three): the store under the
\* decoration's mutex.
StoreConfig(d, fields) ==
  LET number == writes[d] + 1 IN
  /\ writes[d] < MaxWrites
  /\ config' = [s \in Slots |-> IF s \in {d} \X fields THEN number ELSE config[s]]
  /\ writes' = [writes EXCEPT ![d] = number]
  /\ decoPending' = decoPending \union
                      {[deco |-> d, fields |-> fields, number |-> number]}
  /\ UNCHANGED <<decoVersion, decoDone>>

\* The second half: bump(), outside the mutex, and return.
BumpDeco(w) ==
  /\ w \in decoPending
  /\ decoVersion' = [decoVersion EXCEPT ![w.deco] = @ + 1]
  /\ decoPending' = decoPending \ {w}
  /\ decoDone' = [s \in Slots |->
                    IF s \in {w.deco} \X w.fields /\ decoDone[s] < w.number
                      THEN w.number ELSE decoDone[s]]
  /\ UNCHANGED <<config, writes>>

DecoNext ==
  \/ \E d \in Decos, fields \in SetterFields : StoreConfig(d, fields)
  \/ \E w \in decoPending : BumpDeco(w)

VersionOfSelf(ver) == ver["self"]                         \* mutant of Version

\* version(): the sum of what was read of the decoration and of its parent.
Version(ver) == IF HasParent THEN ver["self"] + ver["parent"] ELSE ver["self"]

\* The order in which rebind and build read the slots: full_name, then
\* effective_labels, then effective_display, each the decoration's own value
\* before the parent's.
ReadsBefore(s, r) ==
  LET rank == [prefix |-> 1, labels |-> 2, display |-> 3] IN
  \/ rank[s[2]] < rank[r[2]]
  \/ s[2] = r[2] /\ s[1] = "self" /\ r[1] = "parent"
=============================================================================
