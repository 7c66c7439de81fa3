---------------------------- MODULE AdapterCell ----------------------------
(***************************************************************************)
(* The swappable adapter slot of global.hpp: every metric of a registry,   *)
(* and every standalone or scoped metric, reads its backend from one cell. *)
(*                                                                         *)
(* set_adapter is two steps: it stores the adapter under the cell's mutex, *)
(* releases the mutex and only then bumps the version, so calls of several *)
(* threads interleave between the two.  The code never compares adapters,  *)
(* so the adapter of the n-th store is the number n (a null argument stores*)
(* a fresh NullAdapter, which is one more adapter); 0 is the NullAdapter or*)
(* the argument the constructor installs.                                  *)
(***************************************************************************)
EXTENDS Naturals

CONSTANT MaxSwaps      \* bound: stores of set_adapter in one behaviour

ASSUME MaxSwapsAssumption == MaxSwaps \in Nat

VARIABLES
  cellAdapter,         \* adapter_: the number of the store that wrote it
  cellVersion,         \* version_
  cellPending,         \* stores whose call has not bumped the version yet
  cellDone             \* history: the newest store whose call has returned

cellVars == <<cellAdapter, cellVersion, cellPending, cellDone>>

Larger(m, n) == IF m >= n THEN m ELSE n

CellTypeOK ==
  /\ cellAdapter \in 0..MaxSwaps
  /\ cellVersion \in Nat
  /\ cellPending \subseteq 1..MaxSwaps
  /\ cellDone \in 0..MaxSwaps

CellInit ==
  /\ cellAdapter = 0
  /\ cellVersion = 0
  /\ cellPending = {}
  /\ cellDone = 0

\* set_adapter, first half: the store under the cell's mutex.
StoreAdapter ==
  /\ cellAdapter < MaxSwaps
  /\ cellAdapter' = cellAdapter + 1
  /\ cellPending' = cellPending \union {cellAdapter + 1}
  /\ UNCHANGED <<cellVersion, cellDone>>

\* set_adapter, second half: some call past its store bumps and returns.
BumpCell(n) ==
  /\ n \in cellPending
  /\ cellVersion' = cellVersion + 1
  /\ cellPending' = cellPending \ {n}
  /\ cellDone' = Larger(cellDone, n)
  /\ UNCHANGED cellAdapter

CellNext == StoreAdapter \/ \E n \in cellPending : BumpCell(n)
=============================================================================
